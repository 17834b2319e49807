----------------------------- MODULE RuntimeValues -----------------------------
(***************************************************************************)
(* A circuit computes: one register holds a runtime value, and each step   *)
(* applies a built-in, a cast or a hash to it, or sends it through its     *)
(* field-aligned binary encoding, alone or followed by other values in one *)
(* array, as the descriptors of structs do.  Next to the register, exact   *)
(* is what the value stands for: the residue of a number, the discrete     *)
(* logarithm of a point.  The built-ins assume operands in range and valid *)
(* points and check neither, so every step must re-establish both.         *)
(*                                                                         *)
(* An encoding may also reach a decoder damaged: cut short, or with one    *)
(* atom replaced.                                                          *)
(***************************************************************************)
EXTENDS BuiltIns

CONSTANTS BytesLength,   \* the n of the Bytes<n> of the casts
          UintMax,       \* the largest value of the Uint of the casts
          EnumMax,       \* the largest value of the enum
          Atoms,         \* the atoms that replace one in a damaged encoding
          Operands       \* operands of the arithmetic steps (cut to each field's range)

ASSUME ValuesAssumption ==
  /\ BytesLength \in Nat \ {0}
  /\ {UintMax, EnumMax} \subseteq Nat \ {0}
  /\ Len(Digits[EnumMax]) <= WordBytes
  /\ Atoms \subseteq Seq(0 .. Base - 1)
  /\ Operands \subseteq Nat

VARIABLES reg,      \* [kind, val]: the register
          exact,    \* what its value stands for; 0 for kinds without arithmetic
          refused,  \* the bound whose excess made a cast throw, -1 if none did
          sent,     \* the registers encoded into wire, in order
          got,      \* the values decoded so far
          wire,     \* the atoms not yet decoded
          harm,     \* "none", "cut" or "atom": what happened to the encoding
          threw     \* whether a decoder threw

vars == <<reg, exact, refused, sent, got, wire, harm, threw>>

------------------------------------------------------------------------------
TypeOf ==
  [Field            |-> CompactTypeField,
   JubjubScalar     |-> CompactTypeJubjubScalar,
   Secp256k1Base    |-> CompactTypeSecp256k1Base,
   Secp256k1Scalar  |-> CompactTypeSecp256k1Scalar,
   Secp256r1Base    |-> CompactTypeSecp256r1Base,
   Secp256r1Scalar  |-> CompactTypeSecp256r1Scalar,
   Curve25519Base   |-> CompactTypeCurve25519Base,
   Curve25519Scalar |-> CompactTypeCurve25519Scalar,
   Uint             |-> CompactTypeUnsignedInteger(UintMax, Len(Digits[UintMax])),
   Enum             |-> CompactTypeEnum(EnumMax, Len(Digits[EnumMax])),
   Bytes            |-> CompactTypeBytes(BytesLength),
   Hash             |-> Bytes32Descriptor,
   JubjubPoint      |-> CompactTypeJubjubPoint,
   Secp256k1Point   |-> CompactTypeSecp256k1Point,
   Secp256r1Point   |-> CompactTypeSecp256r1Point,
   Curve25519Point  |-> CompactTypeCurve25519Point,
   Boolean          |-> CompactTypeBoolean,
   Opaque           |-> CompactTypeOpaque,
   PathEntry        |-> CompactTypeMerkleTreePathEntry,
   Path             |-> CompactTypeMerkleTreePath(1, CompactTypeSecp256k1Point),
   Vector           |-> CompactTypeVector(2, CompactTypeSecp256k1Scalar),
   CoinInfo         |-> ShieldedCoinInfoDescriptor,
   Recipient        |-> ShieldedCoinRecipientDescriptor]

Kinds == DOMAIN TypeOf

Modulus ==
  [Field            |-> FIELD_MODULUS,
   JubjubScalar     |-> JUBJUB_SCALAR_MODULUS,
   Secp256k1Base    |-> SECP256K1_BASE_MODULUS,
   Secp256k1Scalar  |-> SECP256K1_SCALAR_MODULUS,
   Secp256r1Base    |-> SECP256R1_BASE_MODULUS,
   Secp256r1Scalar  |-> SECP256R1_SCALAR_MODULUS,
   Curve25519Base   |-> CURVE25519_BASE_MODULUS,
   Curve25519Scalar |-> CURVE25519_SCALAR_MODULUS,
   Uint             |-> UintMax + 1,
   Enum             |-> EnumMax + 1]

Order == [JubjubPoint |-> Jubjub.order, Secp256k1Point |-> K1.order,
          Secp256r1Point |-> R1.order, Curve25519Point |-> C25519.order]

NumberKinds == DOMAIN Modulus
PointKinds == DOMAIN Order
ByteKinds == {"Bytes", "Hash"}

(* The point k times the generator, as the curve defines it. *)
MultipleOfGenerator(kind, k) ==
  LET flagged(P) == [x |-> ToAffine(P)[1], y |-> ToAffine(P)[2], identity |-> P = ZERO]
      plain(P)   == [x |-> P[1], y |-> P[2]]
  IN CASE kind = "Secp256k1Point"  -> flagged(WeierstrassTimes(K1, k, Lift(K1.gen[1], K1.gen[2])))
       [] kind = "Secp256r1Point"  -> flagged(WeierstrassTimes(R1, k, Lift(R1.gen[1], R1.gen[2])))
       [] kind = "JubjubPoint"     -> plain(EdwardsTimes(Jubjub, k, Jubjub.gen))
       [] kind = "Curve25519Point" -> plain(EdwardsTimes(C25519, k, C25519.gen))

Multiples == [kind \in PointKinds |->
                [k \in 0 .. Order[kind] - 1 |-> MultipleOfGenerator(kind, k)]]

Multiple(kind, k) == Multiples[kind][k]

(* The identity of a secp curve may carry any coordinates in range. *)
OddIdentity == [x |-> 1, y |-> 2, identity |-> TRUE]

Bytes(n) == [1 .. n -> 0 .. Base - 1]
SomeHash == Padded(<<1, 0, 2>>, FieldBytes)

PointValues(kind) ==
  {Multiple(kind, k) : k \in 0 .. Order[kind] - 1}
    \cup (IF TypeOf[kind].tag = "FlaggedPoint" THEN {OddIdentity} ELSE {})

Values(kind) ==
  CASE kind \in NumberKinds -> 0 .. Modulus[kind] - 1
    [] kind \in PointKinds  -> PointValues(kind)
    [] kind = "Bytes"   -> Bytes(BytesLength)
    [] kind = "Hash"    -> {Padded(<<>>, FieldBytes), SomeHash}
    [] kind = "Boolean" -> BOOLEAN
    [] kind = "Opaque"  -> {<<>>, <<0>>, <<1, 0>>}
    [] kind = "PathEntry" -> {<<d, b>> : d \in {0, MAX_FIELD}, b \in BOOLEAN}
    [] kind = "Path"    -> {[leaf |-> p, path |-> <<<<3, b>>>>] :
                              p \in {Multiple("Secp256k1Point", k) : k \in 0 .. 1}, b \in BOOLEAN}
    [] kind = "Vector"  -> {<<x, y>> : x, y \in {0, 1, Modulus["Secp256k1Scalar"] - 1}}
    [] kind = "CoinInfo"  -> {<<SomeHash, h, n>> : h \in {SomeHash, Padded(<<>>, FieldBytes)}, n \in 0 .. Base - 1}
    [] kind = "Recipient" -> {<<b, SomeHash, Padded(<<>>, FieldBytes)>> : b \in BOOLEAN}

(* Values at the ends of each range, to follow another in one array. *)
Samples(kind) ==
  CASE kind \in NumberKinds -> {0, 1, Modulus[kind] - 1}
    [] kind \in PointKinds  -> {Multiple(kind, 0), Multiple(kind, 1)}
    [] kind = "Bytes"       -> {[i \in 1 .. BytesLength |-> IF i = 1 THEN b ELSE 0] : b \in 0 .. 1}
    [] OTHER                -> Values(kind)

Exact(kind, x) ==
  CASE kind \in NumberKinds -> x
    [] kind \in ByteKinds   -> Number(x)
    [] kind \in PointKinds  -> IF x = OddIdentity THEN 0
                               ELSE CHOOSE k \in 0 .. Order[kind] - 1 : Multiple(kind, k) = x
    [] OTHER                -> 0

Junk == <<Base - 1>>

------------------------------------------------------------------------------
Holding(kind, x) == /\ reg = [kind |-> kind, val |-> x]
                    /\ exact = Exact(kind, x)

Init == /\ Holding("Field", 0)
        /\ refused = -1
        /\ sent = <<>> /\ got = <<>> /\ wire = <<>>
        /\ harm = "none" /\ threw = FALSE

Idle == sent = <<>> /\ refused = -1

Put(kind, x, e) ==
  /\ reg' = [kind |-> kind, val |-> x]
  /\ exact' = e
  /\ UNCHANGED <<refused, sent, got, wire, harm, threw>>

(* An argument or the result of a witness arrives: generated code has
   checked that it is of its type. *)
Argument ==
  /\ Idle /\ reg.kind = "Field" /\ reg.val = 0
  /\ \E kind \in Kinds : \E x \in Values(kind) : Put(kind, x, Exact(kind, x))

Sums(kind, Add(_, _), Sub(_, _), Mul(_, _)) ==
  /\ Idle /\ reg.kind = kind
  /\ \E y \in Operands \cap 0 .. Modulus[kind] - 1 :
       \/ Put(kind, Add(reg.val, y), (exact + y) % Modulus[kind])
       \/ Put(kind, Sub(reg.val, y), (exact - y) % Modulus[kind])
       \/ Put(kind, Mul(reg.val, y), (exact * y) % Modulus[kind])

Inverses(kind, Neg(_), Invertible(_), Inv(_)) ==
  /\ Idle /\ reg.kind = kind
  /\ \/ Put(kind, Neg(reg.val), (-exact) % Modulus[kind])
     \/ /\ Invertible(reg.val)
        /\ Put(kind, Inv(reg.val), InverseMod(exact, Modulus[kind]))

Arithmetic ==
  \/ Sums("Field", Native!Add, Native!Sub, Native!Mul)
  \/ Sums("Secp256k1Base", Secp256k1Base!Add, Secp256k1Base!Sub, Secp256k1Base!Mul)
  \/ Sums("Secp256k1Scalar", Secp256k1Scalar!Add, Secp256k1Scalar!Sub, Secp256k1Scalar!Mul)
  \/ Sums("Secp256r1Base", Secp256r1Base!Add, Secp256r1Base!Sub, Secp256r1Base!Mul)
  \/ Sums("Secp256r1Scalar", Secp256r1Scalar!Add, Secp256r1Scalar!Sub, Secp256r1Scalar!Mul)
  \/ Sums("Curve25519Base", Curve25519Base!Add, Curve25519Base!Sub, Curve25519Base!Mul)
  \/ Sums("Curve25519Scalar", Curve25519Scalar!Add, Curve25519Scalar!Sub, Curve25519Scalar!Mul)
  \/ Inverses("Secp256k1Base", Secp256k1Base!Neg, Secp256k1Base!Invertible, Secp256k1Base!Inv)
  \/ Inverses("Secp256k1Scalar", Secp256k1Scalar!Neg, Secp256k1Scalar!Invertible, Secp256k1Scalar!Inv)
  \/ Inverses("Secp256r1Base", Secp256r1Base!Neg, Secp256r1Base!Invertible, Secp256r1Base!Inv)
  \/ Inverses("Secp256r1Scalar", Secp256r1Scalar!Neg, Secp256r1Scalar!Invertible, Secp256r1Scalar!Inv)
  \/ Inverses("Curve25519Base", Curve25519Base!Neg, Curve25519Base!Invertible, Curve25519Base!Inv)
  \/ Inverses("Curve25519Scalar", Curve25519Scalar!Neg, Curve25519Scalar!Invertible, Curve25519Scalar!Inv)

(* Points: the sum with a multiple of the generator, a multiple, and the
   multiple of the generator by a scalar in the register. *)
PointStep(point, scalar, Plus(_, _), Times(_, _), MulGenerator(_)) ==
  /\ Idle
  /\ \/ /\ reg.kind = point
        /\ \E k \in Operands \cap 0 .. Order[point] - 1 :
             \/ Put(point, Plus(reg.val, MulGenerator(k)), (exact + k) % Order[point])
             \/ Put(point, Times(reg.val, k), (exact * k) % Order[point])
     \/ /\ reg.kind = scalar
        /\ Put(point, MulGenerator(reg.val), exact)

Points ==
  \/ PointStep("Secp256k1Point", "Secp256k1Scalar",
               Secp256k1!PlusPoint, Secp256k1!TimesPoint, Secp256k1!MulGenerator)
  \/ PointStep("Secp256r1Point", "Secp256r1Scalar",
               Secp256r1!PlusPoint, Secp256r1!TimesPoint, Secp256r1!MulGenerator)
  \/ PointStep("Curve25519Point", "Curve25519Scalar",
               Curve25519Add, Curve25519Mul, Curve25519MulGenerator)
  \/ PointStep("JubjubPoint", "JubjubScalar", EcAdd, EcMul, EcMulGenerator)
  \/ Idle /\ reg.kind = "JubjubPoint" /\ Put("JubjubPoint", EcNeg(reg.val), (-exact) % Jubjub.order)

(* The coordinates of a point; the identity of a secp curve has none. *)
Coordinates(point, base, Has(_), X(_), Y(_)) ==
  /\ Idle /\ reg.kind = point /\ Has(reg.val)
  /\ \/ Put(base, X(reg.val), Multiple(point, exact).x)
     \/ Put(base, Y(reg.val), Multiple(point, exact).y)

Always(p) == TRUE

ReadCoordinate ==
  \/ Coordinates("Secp256k1Point", "Secp256k1Base",
                 Secp256k1!HasCoordinates, Secp256k1!PointX, Secp256k1!PointY)
  \/ Coordinates("Secp256r1Point", "Secp256r1Base",
                 Secp256r1!HasCoordinates, Secp256r1!PointX, Secp256r1!PointY)
  \/ Coordinates("Curve25519Point", "Curve25519Base", Always, Curve25519PointX, Curve25519PointY)
  \/ Coordinates("JubjubPoint", "Field", Always, JubjubPointX, JubjubPointY)

(* The register is a signing key: a hash z was signed with it and a nonce,
   and the public key is recovered from the signature and the recovery id
   the signer computes from the nonce's point. *)
RecoverKey ==
  /\ Idle /\ reg.kind = "Secp256k1Scalar" /\ reg.val # 0
  /\ \E nonce \in 1 .. K1.order - 1, z \in Operands \cap 0 .. K1.order - 1 :
       LET R  == Multiple("Secp256k1Point", nonce)
           r  == R.x % K1.order
           s  == (InverseMod(nonce, K1.order) * (z + r * reg.val)) % K1.order
           id == (IF R.x >= K1.order THEN 2 ELSE 0) + (R.y % 2)
       IN /\ Secp256k1!CanRecover(Padded(Digits[z], FieldBytes), r, s, id)
          /\ Put("Secp256k1Point", Secp256k1!EcdsaRecover(z, r, s, id), exact)

------------------------------------------------------------------------------
(* Casts.  One that throws ends the circuit, with the bound it enforced. *)
MaxBytes == [i \in 1 .. BytesLength |-> Base - 1]

Refuse(bound) ==
  /\ refused' = bound
  /\ UNCHANGED <<reg, exact, sent, got, wire, harm, threw>>

CastToBytes ==
  /\ Idle /\ reg.kind \in NumberKinds \ {"Enum"}
  /\ IF FitsBytes(BytesLength, reg.val)
       THEN Put("Bytes", ConvertBigintToBytes(BytesLength, reg.val), exact)
       ELSE Refuse(Number(MaxBytes))

CastBytesToUint ==
  /\ Idle /\ reg.kind = "Bytes"
  /\ \E kind \in {"Uint", "Field"} :
       IF FitsUint(Modulus[kind] - 1, reg.val)
         THEN Put(kind, ConvertBytesToUint(reg.val), exact)
         ELSE Refuse(Modulus[kind] - 1)

CastBytesToField ==
  /\ Idle /\ reg.kind = "Bytes"
  /\ \E kind \in NumberKinds \ {"Uint", "Field", "Enum"} :
       Put(kind, ConvertBytesToField(Modulus[kind] - 1, reg.val), exact % Modulus[kind])

CastToJubjubScalar ==
  /\ Idle /\ reg.kind \in {"Field", "Uint"}
  /\ Put("JubjubScalar", ConvertNumericToJubjubScalar(reg.val), exact % JUBJUB_SCALAR_MODULUS)

(* A hash of any value.  Keccak256 and sha512 take no opaque one, and for  *)
(* such persistentHash may throw and promises nothing where it does not.   *)
HashStep ==
  /\ Idle
  /\ LET t == TypeOf[reg.kind]
     IN \/ HasBinaryRepr(t) /\ Put("Hash", PersistentHash(t, reg.val), HashOf(ToValue(t, reg.val)))
        \/ HasBinaryRepr(t) /\ Put("Hash", Keccak256(t, reg.val), HashOf(<<ToBinaryRepr(t, reg.val)>>))
        \/ Put("Field", TransientHash(t, reg.val), HashOf(ToValue(t, reg.val)))
        \/ /\ reg.kind \in ByteKinds
           /\ AcceptsOpening(reg.val)
           /\ Put("Hash", PersistentCommit(t, reg.val, reg.val),
                  HashOf(ToValue(t, reg.val) \o <<Trimmed(reg.val)>>))
        \/ /\ reg.kind = "Field"
           /\ Put("Field", TransientCommit(t, reg.val, 1), HashOf(ToValue(t, reg.val) \o <<<<1>>>>))
        \/ Put("JubjubPoint", HashToCurve(t, reg.val), HashOf(ToValue(t, reg.val)) % Jubjub.order)

(* Between hashes of the two families. *)
ConvertHash ==
  /\ Idle
  /\ \/ reg.kind = "Hash" /\ Put("Field", DegradeToTransient(reg.val), exact % FIELD_MODULUS)
     \/ reg.kind = "Field" /\ Put("Hash", UpgradeFromTransient(reg.val), exact)

------------------------------------------------------------------------------
(* Encoding and decoding. *)
EncodingOf(r) == ToValue(TypeOf[r.kind], r.val)

(* The encoder throws for a value that is not in the range of its type. *)
Encode ==
  /\ Idle
  /\ threw' = ~Accepts(TypeOf[reg.kind], reg.val)
  /\ \/ sent' = <<reg>> /\ wire' = EncodingOf(reg)
     \/ \E kind \in Kinds : \E x \in Samples(kind) :
          LET second == [kind |-> kind, val |-> x]
          IN /\ sent' = <<reg, second>>
             /\ wire' = EncodingOf(reg) \o EncodingOf(second) \o <<Junk>>
  /\ UNCHANGED <<reg, exact, refused, got, harm>>

Damage ==
  /\ Len(sent) = 1 /\ got = <<>> /\ harm = "none" /\ ~threw
  /\ \/ harm' = "cut"  /\ wire' = SubSeq(wire, 1, Len(wire) - 1)
     \/ harm' = "atom" /\ \E i \in DOMAIN wire, a \in Atoms :
                            a # wire[i] /\ wire' = [wire EXCEPT ![i] = a]
  /\ UNCHANGED <<reg, exact, refused, sent, got, threw>>

Decode ==
  /\ Len(got) < Len(sent) /\ ~threw
  /\ LET o == FromValue(TypeOf[sent[Len(got) + 1].kind], wire)
     IN IF o.ok THEN got' = Append(got, o.val) /\ wire' = o.rest /\ UNCHANGED threw
                ELSE threw' = TRUE /\ UNCHANGED <<got, wire>>
  /\ UNCHANGED <<reg, exact, refused, sent, harm>>

(* Everything is decoded: the circuit goes on with the first value. *)
Resume ==
  /\ sent # <<>> /\ Len(got) = Len(sent) /\ harm = "none"
  /\ reg' = [reg EXCEPT !.val = got[1]]
  /\ sent' = <<>> /\ got' = <<>> /\ wire' = <<>>
  /\ UNCHANGED <<exact, refused, harm, threw>>

(* A circuit that threw, or read a damaged value, is over. *)
NewCircuit ==
  /\ threw \/ refused # -1 \/ (harm # "none" /\ Len(got) = Len(sent))
  /\ reg' = [kind |-> "Field", val |-> 0] /\ exact' = 0 /\ refused' = -1
  /\ sent' = <<>> /\ got' = <<>> /\ wire' = <<>>
  /\ harm' = "none" /\ threw' = FALSE

Next == \/ Argument \/ Arithmetic \/ Points \/ ReadCoordinate \/ RecoverKey
        \/ CastToBytes \/ CastBytesToUint \/ CastBytesToField \/ CastToJubjubScalar
        \/ HashStep \/ ConvertHash \/ Encode \/ Damage \/ Decode \/ Resume \/ NewCircuit

Spec == Init /\ [][Next]_vars

------------------------------------------------------------------------------
(* Equality as generated code decides it: two identities are equal. *)
SameSimple(t, a, b) ==
  IF t.tag = "FlaggedPoint" THEN \/ a.identity /\ b.identity
                                 \/ a = b
  ELSE a = b

SameValue(kind, a, b) ==
  IF kind = "Path" THEN SameSimple(TypeOf[kind].leaf, a.leaf, b.leaf) /\ a.path = b.path
  ELSE SameSimple(TypeOf[kind], a, b)

(* In the range of its type, not necessarily a point of the curve. *)
InRange(kind, x) ==
  /\ kind \in NumberKinds =>
       x \in 0 .. (IF kind = "JubjubScalar" THEN MAX_FIELD ELSE Modulus[kind] - 1)
  /\ kind \in PointKinds =>
       {x.x, x.y} \subseteq 0 .. (IF kind = "JubjubPoint" THEN MAX_FIELD ELSE TypeOf[kind].parts[1].max)
  /\ kind \in ByteKinds => x \in Bytes(TypeOf[kind].length)

(* The register holds a value of its type that stands for exact: every
   arithmetic step, cast, coordinate and recovered key returns the residue
   or the point that modular arithmetic and the curve define, so that the
   next one finds its operands in range; and a cast throws only for a value
   that exceeds the bound it enforces. *)
RegisterIsExact ==
  /\ refused # -1 => exact > refused
  /\ reg.kind \in NumberKinds => reg.val = exact /\ exact \in 0 .. Modulus[reg.kind] - 1
  /\ reg.kind \in ByteKinds =>
       reg.val \in Bytes(TypeOf[reg.kind].length) /\ Number(reg.val) = exact
  /\ reg.kind \in PointKinds =>
       SameValue(reg.kind, reg.val, Multiple(reg.kind, exact))

(* The validity checks accept what the built-ins compute, and of all pairs
   of coordinates exactly the points the generator spans, on each curve: the
   pair (0, 0) that stands for the identity of a secp curve is not a point
   of it, and the small-order points of Curve25519 are refused. *)
ValidityIsMembership ==
  LET flagged(x, y) == [x |-> x, y |-> y, identity |-> FALSE]
      plain(x, y)   == [x |-> x, y |-> y]
      multiples(kind) == Range(Multiples[kind])
  IN Idle =>
     /\ reg.kind = "Secp256k1Point" =>
          /\ Secp256k1!IsValidPoint(reg.val)
          /\ \A x, y \in 0 .. K1.p :
               Secp256k1!IsValidPoint(flagged(x, y)) <=> flagged(x, y) \in multiples(reg.kind)
     /\ reg.kind = "Secp256r1Point" =>
          /\ IsValidSecp256r1Point(reg.val)
          /\ \A x, y \in 0 .. R1.p :
               IsValidSecp256r1Point(flagged(x, y)) <=> flagged(x, y) \in multiples(reg.kind)
     /\ reg.kind = "Curve25519Point" =>
          /\ IsValidCurve25519Point(reg.val)
          /\ \A x, y \in 0 .. C25519.p :
               IsValidCurve25519Point(plain(x, y)) <=> plain(x, y) \in multiples(reg.kind)

(* No encoder refuses what the circuit computed, and each decoder takes
   exactly its own atoms off the shared array: whatever follows, the values
   come back in order and what is left is what was not encoded by them. *)
ReadsBackWhatWasWritten ==
  harm = "none" =>
    /\ ~threw
    /\ \A i \in DOMAIN got : SameValue(sent[i].kind, got[i], sent[i].val)
    /\ Len(sent) = 2 => wire = FlattenSeq([i \in 1 .. 2 - Len(got) |-> EncodingOf(sent[i + Len(got)])])
                                 \o <<Junk>>

(* An encoding cut short is never read to its end; what a decoder accepts of
   a damaged one is in the range of its type and is read back from its own
   encoding. *)
DamageIsContained ==
  harm # "none" =>
    /\ harm = "cut" => got = <<>>
    /\ \A i \in DOMAIN got :
         LET t     == TypeOf[sent[i].kind]
             again == FromValue(t, ToValue(t, got[i]))
         IN InRange(sent[i].kind, got[i]) /\ again.ok /\ SameValue(sent[i].kind, again.val, got[i])

(* The bytes that are hashed outside the proof system have the length the
   type fixes and tell apart any two values the language tells apart. *)
ReprSeparates ==
  LET t == TypeOf[reg.kind]
      width(w) == IF w = FieldWidth THEN FieldBytes ELSE w
      end[i \in 0 .. Len(Alignment(t))] == IF i = 0 THEN 0 ELSE end[i - 1] + width(Alignment(t)[i])
  IN (Idle /\ HasBinaryRepr(t)) =>
       /\ Len(ToBinaryRepr(t, reg.val)) = end[Len(Alignment(t))]
       /\ Len(Alignment(t)) = Len(ToValue(t, reg.val))
       /\ \A x \in Values(reg.kind) :
            ToBinaryRepr(t, x) = ToBinaryRepr(t, reg.val) <=> SameValue(reg.kind, x, reg.val)

(* With the register as the signing key, the signature of a message verifies
   under the derived key, and no other response below the order does for the
   same announcement. *)
SignaturesVerify ==
  (Idle /\ reg.kind = "JubjubScalar") =>
    \A msg \in Operands \cap 0 .. MAX_FIELD, nonce \in 0 .. JUBJUB_SCALAR_MODULUS - 1 :
      LET sig == SchnorrSign(CompactTypeField, msg, reg.val, nonce)
          key == SchnorrVerifyingKey(reg.val)
      IN \A s \in 0 .. JUBJUB_SCALAR_MODULUS - 1 :
           SchnorrVerify(CompactTypeField, msg, key, [sig EXCEPT !.response = s])
             <=> s = sig.response
================================================================================
