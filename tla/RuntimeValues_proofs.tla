--------------------------- MODULE RuntimeValues_proofs ---------------------------
(***************************************************************************)
(* The six properties of RuntimeValues.                                    *)
(*   - The values of the kinds, their equality and their binary            *)
(*     representation; the arithmetic of ECDSA and of the fields;          *)
(*   - each step keeps the inductive invariant ValuesInv: the register     *)
(*     holds a value of its type that stands for exact, and the array on   *)
(*     its way is the encoding of the register, whole, cut, altered or     *)
(*     followed by a second value, less what is already read;              *)
(*   - the six properties follow from it.                                  *)
(***************************************************************************)
EXTENDS RuntimeValuesEncoding_proofs

------------------------------------------------------------------------------
(* The values of the kinds. *)

(* The ranges of the kinds.                                                 *)
LEMMA ModulusType ==
  ASSUME NEW kind \in NumberKinds
  PROVE  Modulus[kind] \in Nat \ {0}
<1>1. \A c \in {K1, R1, C25519, Jubjub} : c.p \in Nat /\ c.p > 4 /\ c.order \in Nat /\ c.order > 4
  BY CurveTypes
<1>2. CASE kind \in {"Field", "Uint", "Enum"}
  BY <1>2, ConstantTypes DEF Modulus, FIELD_MODULUS
<1>3. CASE kind \in {"JubjubScalar", "Secp256k1Base", "Secp256k1Scalar"}
  BY <1>1, <1>3 DEF Modulus, JUBJUB_SCALAR_MODULUS, SECP256K1_BASE_MODULUS, SECP256K1_SCALAR_MODULUS
<1>4. CASE kind \in {"Secp256r1Base", "Secp256r1Scalar"}
  BY <1>1, <1>4 DEF Modulus, SECP256R1_BASE_MODULUS, SECP256R1_SCALAR_MODULUS
<1>5. CASE kind \in {"Curve25519Base", "Curve25519Scalar"}
  BY <1>1, <1>5 DEF Modulus, CURVE25519_BASE_MODULUS, CURVE25519_SCALAR_MODULUS
<1> QED BY <1>2, <1>3, <1>4, <1>5, KindSets DEF ForeignKinds

(* Every kind but one has the range of its type: scalars of Jubjub are      *)
(* encoded as elements of the native field.                                 *)
LEMMA NumberRanges ==
  ASSUME NEW kind \in NumberKinds
  PROVE  TypeRange(TypeOf[kind]) = IF kind = "JubjubScalar" THEN 0 .. MAX_FIELD ELSE 0 .. Modulus[kind] - 1
<1>1. CASE kind \in {"Field", "JubjubScalar"}
  <2>1. PICK t : t = CompactTypeField /\ TypeOf[kind] = t
    BY <1>1, TypesOfKinds
  <2>2. t.tag = "Field"
    BY <2>1 DEF CompactTypeField
  <2>3. TypeRange(t) = 0 .. MAX_FIELD
    BY <2>2 DEF TypeRange, SimpleRange, AtomicRange
  <2>4. kind = "Field" => Modulus[kind] - 1 = MAX_FIELD
    BY ConstantTypes DEF Modulus, FIELD_MODULUS
  <2> QED BY <1>1, <2>1, <2>3, <2>4
<1>2. CASE kind \in {"Uint", "Enum"}
  <2>1. PICK t : t = TypeOf[kind]
    OBVIOUS
  <2>2. t.tag \in {"Uint", "Enum"} /\ t.max = Modulus[kind] - 1
    <3>1. CASE kind = "Uint"
      <4>1. t = CompactTypeUnsignedInteger(UintMax, Len(Digits[UintMax]))
        BY <2>1, <3>1, TypesOfKinds
      <4>2. t.tag = "Uint" /\ t.max = UintMax
        BY <4>1 DEF CompactTypeUnsignedInteger
      <4>3. Modulus[kind] = UintMax + 1
        BY <3>1 DEF Modulus
      <4> QED BY <4>2, <4>3, ConstantTypes
    <3>2. CASE kind = "Enum"
      <4>1. t = CompactTypeEnum(EnumMax, Len(Digits[EnumMax]))
        BY <2>1, <3>2, TypesOfKinds
      <4>2. t.tag = "Enum" /\ t.max = EnumMax
        BY <4>1 DEF CompactTypeEnum
      <4>3. Modulus[kind] = EnumMax + 1
        BY <3>2 DEF Modulus
      <4> QED BY <4>2, <4>3, ConstantTypes
    <3> QED BY <1>2, <3>1, <3>2
  <2>3. TypeRange(t) = 0 .. t.max
    <3>1. CASE t.tag = "Uint"
      BY <3>1 DEF TypeRange, SimpleRange, AtomicRange
    <3>2. CASE t.tag = "Enum"
      BY <3>2 DEF TypeRange, SimpleRange, AtomicRange
    <3> QED BY <2>2, <3>1, <3>2
  <2> QED BY <1>2, <2>1, <2>2, <2>3
<1>3. CASE kind \in ForeignKinds
  <2>1. PICK t : t = TypeOf[kind]
    OBVIOUS
  <2>2. t.tag = "Foreign"
    BY <1>3, <2>1, TypesOfKinds, ForeignTypes DEF ForeignKinds, IsForeign
  <2>3. t.max = Modulus[kind] - 1
    BY <1>3, <2>1, TypesOfKinds, ForeignMaxima DEF ForeignKinds, Modulus, SECP256K1_BASE_MODULUS,
       SECP256K1_SCALAR_MODULUS, SECP256R1_BASE_MODULUS, SECP256R1_SCALAR_MODULUS,
       CURVE25519_BASE_MODULUS, CURVE25519_SCALAR_MODULUS
  <2>4. TypeRange(t) = 0 .. t.max
    BY <2>2 DEF TypeRange, SimpleRange, AtomicRange
  <2>5. kind # "JubjubScalar"
    BY <1>3 DEF ForeignKinds
  <2> QED BY <2>1, <2>3, <2>4, <2>5
<1> QED BY <1>1, <1>2, <1>3, KindSets

(* The residues of a kind of numbers are values of its type. *)
LEMMA ModulusInRange ==
  ASSUME NEW kind \in NumberKinds, NEW x \in 0 .. Modulus[kind] - 1
  PROVE  x \in TypeRange(TypeOf[kind])
<1>1. CASE kind = "JubjubScalar"
  <2>1. Modulus[kind] = Jubjub.order
    BY <1>1 DEF Modulus, JUBJUB_SCALAR_MODULUS
  <2>2. Jubjub.order <= Jubjub.p /\ Jubjub.p = MAX_FIELD + 1
    BY CurvesAssumption
  <2>3. Jubjub.order \in Nat
    BY CurveTypes
  <2>4. x \in 0 .. MAX_FIELD
    BY <2>1, <2>2, <2>3, ConstantTypes
  <2> QED BY <1>1, <2>4, NumberRanges
<1>2. CASE kind # "JubjubScalar"
  BY <1>2, NumberRanges
<1> QED BY <1>1, <1>2

(* The kinds of bytes and their lengths. *)
LEMMA ByteRanges ==
  ASSUME NEW kind \in ByteKinds
  PROVE  /\ TypeOf[kind].tag = "Bytes" /\ TypeOf[kind].length \in Nat
         /\ TypeOf[kind].length = IF kind = "Bytes" THEN BytesLength ELSE FieldBytes
         /\ TypeRange(TypeOf[kind]) = Bytes(TypeOf[kind].length)
<1>1. PICK n \in Nat : n = IF kind = "Bytes" THEN BytesLength ELSE FieldBytes
  BY ConstantTypes
<1>2. PICK t : t = TypeOf[kind]
  OBVIOUS
<1>3. t = CompactTypeBytes(n)
  BY <1>1, <1>2, TypesOfKinds DEF ByteKinds, Bytes32Descriptor
<1>4. t.tag = "Bytes" /\ t.length = n
  BY <1>3 DEF CompactTypeBytes
<1>5. TypeRange(t) = Bytes(n)
  BY <1>4 DEF TypeRange, SimpleRange, AtomicRange
<1> QED BY <1>1, <1>2, <1>4, <1>5

(* The greatest coordinate of a kind of point. *)
CoordinateMax(kind) ==
  CASE kind = "Secp256k1Point"  -> K1.p - 1
    [] kind = "Secp256r1Point"  -> R1.p - 1
    [] kind = "Curve25519Point" -> C25519.p - 1
    [] kind = "JubjubPoint"     -> MAX_FIELD

(* The values of the kinds of points with a flag. *)
LEMMA FlaggedRanges ==
  ASSUME NEW kind \in FlaggedKinds
  PROVE  /\ TypeOf[kind].tag = "FlaggedPoint" /\ TypeOf[kind].parts[1].max = CoordinateMax(kind)
         /\ \A v : v \in TypeRange(TypeOf[kind]) <=>
                   v \in [x : 0 .. CoordinateMax(kind), y : 0 .. CoordinateMax(kind), identity : BOOLEAN]
<1>1. PICK t : t = TypeOf[kind]
  OBVIOUS
<1>2. IsFlagged(t)
  BY <1>1, TypesOfKinds, PartedTypes DEF FlaggedKinds
<1>3. t.tag = "FlaggedPoint"
  BY <1>2 DEF IsFlagged
<1>4. PICK b : IsForeign(b) /\ t.parts[1] = b /\ t.parts[2] = b
  BY <1>2, FlaggedParts
<1>5. b.max = CoordinateMax(kind)
  <2>1. CASE kind = "Secp256k1Point"
    <3>1. b = CompactTypeSecp256k1Base
      BY <1>1, <1>4, <2>1, TypesOfKinds DEF CompactTypeSecp256k1Point
    <3> QED BY <2>1, <3>1, ForeignMaxima DEF CoordinateMax
  <2>2. CASE kind = "Secp256r1Point"
    <3>1. b = CompactTypeSecp256r1Base
      BY <1>1, <1>4, <2>2, TypesOfKinds DEF CompactTypeSecp256r1Point
    <3> QED BY <2>2, <3>1, ForeignMaxima DEF CoordinateMax
  <2> QED BY <2>1, <2>2 DEF FlaggedKinds
<1>6. PICK S : S = 0 .. CoordinateMax(kind)
  OBVIOUS
<1>7. AtomicRange(t.parts[1]) = S /\ AtomicRange(t.parts[2]) = S
  <2>1. AtomicRange(b) = 0 .. b.max
    BY <1>4 DEF AtomicRange, IsForeign
  <2> QED BY <1>4, <1>5, <1>6, <2>1
<1>8. ASSUME NEW v
      PROVE  v \in TypeRange(t) <=> v \in [x : S, y : S, identity : BOOLEAN]
  <2>1. TypeRange(t) = SimpleRange(t)
    BY <1>3 DEF TypeRange
  <2>2. v \in SimpleRange(t) <=> v \in [x : S, y : S, identity : BOOLEAN]
    BY <1>3, <1>7 DEF SimpleRange
  <2> QED BY <2>1, <2>2
<1> QED BY <1>1, <1>3, <1>4, <1>5, <1>6, <1>8

(* The values of the kinds of points without a flag. *)
LEMMA PlainRanges ==
  ASSUME NEW kind \in PlainKinds
  PROVE  /\ TypeOf[kind].tag = "Point"
         /\ kind = "Curve25519Point" => TypeOf[kind].parts[1].max = CoordinateMax(kind)
         /\ \A v : v \in TypeRange(TypeOf[kind]) <=>
                   \E a, b \in 0 .. CoordinateMax(kind) : v = [x |-> a, y |-> b]
<1>1. PICK t : t = TypeOf[kind]
  OBVIOUS
<1>2. t.tag = "Point" /\ t.parts[1] = t.parts[2]
  BY <1>1, TypesOfKinds DEF PlainKinds, CompactTypeJubjubPoint, CompactTypeCurve25519Point
<1>3. PICK b : b = t.parts[1]
  OBVIOUS
<1>4. PICK S : S = 0 .. CoordinateMax(kind)
  OBVIOUS
<1>5. AtomicRange(b) = S /\ (kind = "Curve25519Point" => b.max = CoordinateMax(kind))
  <2>1. CASE kind = "JubjubPoint"
    <3>1. b = CompactTypeField
      BY <1>1, <1>3, <2>1, TypesOfKinds DEF CompactTypeJubjubPoint
    <3>2. AtomicRange(b) = 0 .. MAX_FIELD
      BY <3>1 DEF AtomicRange, CompactTypeField
    <3> QED BY <1>4, <2>1, <3>2 DEF CoordinateMax
  <2>2. CASE kind = "Curve25519Point"
    <3>1. b = CompactTypeCurve25519Base
      BY <1>1, <1>3, <2>2, TypesOfKinds DEF CompactTypeCurve25519Point
    <3>2. b.tag = "Foreign" /\ b.max = CoordinateMax(kind)
      BY <2>2, <3>1, ForeignTypes, ForeignMaxima DEF IsForeign, CoordinateMax
    <3>3. AtomicRange(b) = 0 .. b.max
      BY <3>2 DEF AtomicRange
    <3> QED BY <1>4, <3>2, <3>3
  <2> QED BY <2>1, <2>2 DEF PlainKinds
<1>6. ASSUME NEW v
      PROVE  v \in TypeRange(t) <=> \E u, w \in S : v = [x |-> u, y |-> w]
  <2>1. TypeRange(t) = SimpleRange(t)
    BY <1>2 DEF TypeRange
  <2>2. AtomicRange(t.parts[1]) = S /\ AtomicRange(t.parts[2]) = S
    BY <1>2, <1>3, <1>5
  <2>3. v \in SimpleRange(t) <=> \E u, w \in S : v = [x |-> u, y |-> w]
    BY <1>2, <2>2 DEF SimpleRange
  <2> QED BY <2>1, <2>3
<1> QED BY <1>1, <1>2, <1>3, <1>4, <1>5, <1>6

------------------------------------------------------------------------------
(* Points that stand for multiples. *)

(* A point of each kind that stands for a multiple of the generator.        *)
Stands(kind, x, k) ==
  /\ kind = "Secp256k1Point" => StandsFor(K1, x, k)
  /\ kind = "Secp256r1Point" => StandsFor(R1, x, k)
  /\ kind = "Curve25519Point" => IsMultiple(C25519, x, k)
  /\ kind = "JubjubPoint" => IsMultiple(Jubjub, x, k)

(* The orders of the four curves. *)
LEMMA Orders ==
  /\ Order["Secp256k1Point"] = K1.order /\ Order["Secp256r1Point"] = R1.order
  /\ Order["Curve25519Point"] = C25519.order /\ Order["JubjubPoint"] = Jubjub.order
BY DEF Order

(* A kind of points is one of a secp or of an Edwards curve. *)
LEMMA FourPoints ==
  ASSUME NEW kind \in PointKinds
  PROVE  kind \in {"Secp256k1Point", "Secp256r1Point"} \/ kind \in {"Curve25519Point", "JubjubPoint"}
BY KindSets DEF FlaggedKinds, PlainKinds

(* The multiples of each kind, as the runtime's records. *)
LEMMA MultiplesAre ==
  ASSUME NEW kind \in PointKinds, NEW k \in 0 .. Order[kind] - 1
  PROVE  /\ kind = "Secp256k1Point" => Multiple(kind, k) = Flagged(WMul(K1, k))
         /\ kind = "Secp256r1Point" => Multiple(kind, k) = Flagged(WMul(R1, k))
         /\ kind = "Curve25519Point" => Multiple(kind, k) = Plain(EMul(C25519, k))
         /\ kind = "JubjubPoint" => Multiple(kind, k) = Plain(EMul(Jubjub, k))
<1>1. Multiple(kind, k) = MultipleOfGenerator(kind, k)
  <2>1. PICK f : f = [i \in 0 .. Order[kind] - 1 |-> MultipleOfGenerator(kind, i)]
    OBVIOUS
  <2>2. Multiples[kind] = f
    BY <2>1 DEF Multiples
  <2>3. f[k] = MultipleOfGenerator(kind, k)
    BY <2>1
  <2> QED BY <2>2, <2>3 DEF Multiple
<1>2. kind = "Secp256k1Point" => MultipleOfGenerator(kind, k) = Flagged(WMul(K1, k))
  BY DEF MultipleOfGenerator, Flagged, WMul
<1>3. kind = "Secp256r1Point" => MultipleOfGenerator(kind, k) = Flagged(WMul(R1, k))
  BY DEF MultipleOfGenerator, Flagged, WMul
<1>4. kind = "Curve25519Point" => MultipleOfGenerator(kind, k) = Plain(EMul(C25519, k))
  BY DEF MultipleOfGenerator, Plain, EMul
<1>5. kind = "JubjubPoint" => MultipleOfGenerator(kind, k) = Plain(EMul(Jubjub, k))
  BY DEF MultipleOfGenerator, Plain, EMul
<1> QED BY <1>1, <1>2, <1>3, <1>4, <1>5

(* A multiple stands for its number. *)
LEMMA StandsMultiple ==
  ASSUME NEW kind \in PointKinds, NEW k \in 0 .. Order[kind] - 1
  PROVE  Stands(kind, Multiple(kind, k), k)
<1>1. CASE kind \in {"Secp256k1Point", "Secp256r1Point"}
  <2>1. PICK c \in {K1, R1} : /\ c.order = Order[kind] /\ Multiple(kind, k) = Flagged(WMul(c, k))
                              /\ kind = "Secp256k1Point" => c = K1
                              /\ kind = "Secp256r1Point" => c = R1
    BY <1>1, Orders, MultiplesAre
  <2>2. WFrom(WMul(c, k)) = Flagged(WMul(c, k))
    BY <2>1, FlaggedMultiple
  <2>3. PICK x : x = Flagged(WMul(c, k))
    OBVIOUS
  <2>4. StandsFor(c, x, k)
    BY <2>1, <2>2, <2>3, StandsFromProjective
  <2> QED BY <1>1, <2>1, <2>3, <2>4 DEF Stands
<1>2. CASE kind \in {"Curve25519Point", "JubjubPoint"}
  <2>1. PICK c \in {C25519, Jubjub} : /\ c.order = Order[kind] /\ Multiple(kind, k) = Plain(EMul(c, k))
                                      /\ kind = "Curve25519Point" => c = C25519
                                      /\ kind = "JubjubPoint" => c = Jubjub
    BY <1>2, Orders, MultiplesAre
  <2>2. IsMultiple(c, Plain(EMul(c, k)), k)
    BY <2>1, MultipleIs
  <2> QED BY <1>2, <2>1, <2>2 DEF Stands
<1> QED BY <1>1, <1>2, FourPoints

(* Such a point is equal to that multiple as generated code decides it.     *)
LEMMA StandsSame ==
  ASSUME NEW kind \in PointKinds, NEW x, NEW k, Stands(kind, x, k)
  PROVE  /\ k \in 0 .. Order[kind] - 1 /\ x \in TypeRange(TypeOf[kind])
         /\ SameValue(kind, x, Multiple(kind, k))
         /\ kind \in FlaggedKinds => x.identity \in BOOLEAN /\ (~x.identity => x = Multiple(kind, k))
         /\ kind \in PlainKinds => x = Multiple(kind, k)
<1>1. PICK t : t = TypeOf[kind]
  OBVIOUS
<1>2. CASE kind \in {"Secp256k1Point", "Secp256r1Point"}
  <2>1. PICK c \in {K1, R1} : /\ c.order = Order[kind] /\ c.p - 1 = CoordinateMax(kind)
                              /\ kind = "Secp256k1Point" => c = K1
                              /\ kind = "Secp256r1Point" => c = R1
    BY <1>2, Orders DEF CoordinateMax
  <2>2. StandsFor(c, x, k)
    BY <1>2, <2>1 DEF Stands
  <2>3. k \in 0 .. Order[kind] - 1 /\ x \in SecpRange(c)
    BY <2>1, <2>2 DEF StandsFor
  <2>4. Multiple(kind, k) = Flagged(WMul(c, k))
    BY <1>2, <2>1, <2>3, MultiplesAre
  <2>5. x \in [x : 0 .. CoordinateMax(kind), y : 0 .. CoordinateMax(kind), identity : BOOLEAN]
    BY <2>1, <2>3 DEF SecpRange
  <2>6. kind \in FlaggedKinds /\ kind \notin PlainKinds
    BY <1>2 DEF FlaggedKinds, PlainKinds
  <2>7. x \in TypeRange(t) /\ t.tag = "FlaggedPoint"
    BY <1>1, <2>5, <2>6, FlaggedRanges
  <2>8. x.identity \in BOOLEAN
    BY <2>5
  <2>9. ~x.identity => x = Multiple(kind, k)
    BY <2>2, <2>4 DEF StandsFor
  <2>10. x.identity => Multiple(kind, k).identity
    <3>1. HAVE x.identity
    <3>2. x.identity = TRUE /\ k = 0
      BY <2>2, <2>8, <3>1 DEF StandsFor
    <3>3. Flagged(WMul(c, k)).identity = (k = 0)
      BY <2>1, <2>3, FlaggedMultiple
    <3> QED BY <2>4, <3>2, <3>3
  <2>11. SameSimple(t, x, Multiple(kind, k))
    BY <2>7, <2>8, <2>9, <2>10 DEF SameSimple
  <2>12. SameValue(kind, x, Multiple(kind, k))
    BY <1>1, <1>2, <2>11 DEF SameValue
  <2> QED BY <1>1, <2>3, <2>6, <2>7, <2>8, <2>9, <2>12
<1>3. CASE kind \in {"Curve25519Point", "JubjubPoint"}
  <2>1. PICK c \in {C25519, Jubjub} : /\ c.order = Order[kind]
                                      /\ kind = "Curve25519Point" => c = C25519
                                      /\ kind = "JubjubPoint" => c = Jubjub
    BY <1>3, Orders
  <2>2. c.p - 1 = CoordinateMax(kind)
    <3>1. Jubjub.p - 1 = MAX_FIELD
      <4>1. Jubjub.p = MAX_FIELD + 1
        BY CurvesAssumption
      <4> QED BY <4>1, ConstantTypes
    <3> QED BY <1>3, <2>1, <3>1 DEF CoordinateMax
  <2>3. IsMultiple(c, x, k)
    BY <1>3, <2>1 DEF Stands
  <2>4. k \in 0 .. Order[kind] - 1 /\ x \in [x : 0 .. c.p - 1, y : 0 .. c.p - 1]
    BY <2>1, <2>3 DEF IsMultiple
  <2>5. x = Multiple(kind, k)
    <3>1. Multiple(kind, k) = Plain(EMul(c, k))
      BY <1>3, <2>1, <2>4, MultiplesAre
    <3> QED BY <2>3, <3>1 DEF IsMultiple
  <2>6. kind \notin FlaggedKinds /\ kind \in PlainKinds
    BY <1>3 DEF FlaggedKinds, PlainKinds
  <2>7. PICK a \in 0 .. CoordinateMax(kind), b \in 0 .. CoordinateMax(kind) : x = [x |-> a, y |-> b]
    <3>1. PICK S : S = 0 .. CoordinateMax(kind)
      OBVIOUS
    <3>2. x \in [x : S, y : S]
      BY <2>2, <2>4, <3>1
    <3>3. PICK a \in S, b \in S : a = x.x /\ b = x.y
      BY <3>2
    <3>4. x = [x |-> a, y |-> b]
      BY <3>2, <3>3
    <3> QED BY <3>1, <3>4
  <2>8. x \in TypeRange(t) /\ t.tag = "Point"
    BY <1>1, <2>6, <2>7, PlainRanges
  <2>9. SameValue(kind, x, Multiple(kind, k))
    BY <1>1, <1>3, <2>5, <2>8 DEF SameValue, SameSimple
  <2> QED BY <1>1, <2>4, <2>5, <2>6, <2>8, <2>9
<1> QED BY <1>2, <1>3, FourPoints

(* An argument stands for the exact value it arrives with. *)
LEMMA ExactStands ==
  ASSUME NEW kind \in PointKinds, NEW x \in Values(kind)
  PROVE  Stands(kind, x, Exact(kind, x))
<1>1. kind \notin NumberKinds /\ kind \notin ByteKinds /\ kind \notin OtherKinds
  BY KindSets DEF ForeignKinds, ByteKinds, OtherKinds, FlaggedKinds, PlainKinds
<1>2. Exact(kind, x) = IF x = OddIdentity THEN 0
                       ELSE CHOOSE k \in 0 .. Order[kind] - 1 : Multiple(kind, k) = x
  BY <1>1 DEF Exact
<1>3. x \in {Multiple(kind, k) : k \in 0 .. Order[kind] - 1}
             \cup (IF TypeOf[kind].tag = "FlaggedPoint" THEN {OddIdentity} ELSE {})
  <2>1. Values(kind) = PointValues(kind)
    BY <1>1 DEF Values, ByteKinds, OtherKinds
  <2> QED BY <2>1 DEF PointValues
<1>4. CASE x = OddIdentity
  <2>1. Exact(kind, x) = 0
    BY <1>2, <1>4
  <2>2. x.identity = TRUE /\ x.x = 1 /\ x.y = 2
    BY <1>4 DEF OddIdentity
  <2>3. kind \in {"Secp256k1Point", "Secp256r1Point"}
    <3>1. SUFFICES ASSUME kind \in {"Curve25519Point", "JubjubPoint"} PROVE FALSE
      BY FourPoints
    <3>2. TypeOf[kind].tag = "Point"
      BY <3>1, PlainRanges DEF PlainKinds
    <3>3. PICK k \in 0 .. Order[kind] - 1 : x = Multiple(kind, k)
      BY <1>3, <3>2
    <3>4. Stands(kind, x, k)
      BY <3>3, StandsMultiple
    <3>5. x \in TypeRange(TypeOf[kind])
      BY <3>4, StandsSame
    <3>6. PICK a \in 0 .. CoordinateMax(kind), b \in 0 .. CoordinateMax(kind) : x = [x |-> a, y |-> b]
      BY <3>1, <3>5, PlainRanges DEF PlainKinds
    <3>7. DOMAIN x = {"x", "y"}
      BY <3>6
    <3>8. DOMAIN x = {"x", "y", "identity"}
      BY <1>4 DEF OddIdentity
    <3> QED BY <3>7, <3>8
  <2>4. PICK c \in {K1, R1} : /\ kind = "Secp256k1Point" => c = K1
                              /\ kind = "Secp256r1Point" => c = R1
    BY <2>3
  <2>5. PICK p \in Nat, o \in Nat : p = c.p /\ o = c.order /\ p > 4 /\ o > 4
    BY CurveTypes
  <2>6. 1 \in 0 .. c.p - 1 /\ 2 \in 0 .. c.p - 1 /\ 0 \in 0 .. c.order - 1
    BY <2>5
  <2>7. x \in SecpRange(c)
    BY <1>4, <2>6 DEF SecpRange, OddIdentity
  <2>8. StandsFor(c, x, 0)
    BY <2>2, <2>6, <2>7 DEF StandsFor
  <2> QED BY <2>1, <2>3, <2>4, <2>8 DEF Stands
<1>5. CASE x # OddIdentity
  <2>1. \E k \in 0 .. Order[kind] - 1 : Multiple(kind, k) = x
    BY <1>3, <1>5
  <2>2. PICK k \in 0 .. Order[kind] - 1 : k = Exact(kind, x) /\ Multiple(kind, k) = x
    <3>1. PICK k : k = CHOOSE i \in 0 .. Order[kind] - 1 : Multiple(kind, i) = x
      OBVIOUS
    <3>2. k \in 0 .. Order[kind] - 1 /\ Multiple(kind, k) = x
      BY <2>1, <3>1
    <3> QED BY <1>2, <1>5, <3>1, <3>2
  <2> QED BY <2>2, StandsMultiple
<1> QED BY <1>4, <1>5

------------------------------------------------------------------------------
(* The arguments and samples are values of their types. *)

(* A struct of two or three parts.                                          *)
LEMMA TwoFill ==
  ASSUME NEW p, NEW A, NEW B, p = <<A, B>>, NEW a \in AtomicRange(A), NEW b \in AtomicRange(B),
         NEW t, t.tag = "Struct", t.parts = p
  PROVE  <<a, b>> \in TypeRange(t)
<1>1. PICK s : s = <<a, b>>
  OBVIOUS
<1>2. Len(p) = 2 /\ p[1] = A /\ p[2] = B
  OBVIOUS
<1>3. s[1] = a /\ s[2] = b /\ DOMAIN s = 1 .. 2
  BY <1>1
<1>4. \A i \in 1 .. 2 : s[i] \in AtomicRange(p[i])
  <2>1. \A i \in 1 .. 2 : i = 1 \/ i = 2
    OBVIOUS
  <2> QED BY <1>2, <1>3, <2>1
<1>5. PICK S : S = PartValues(p)
  OBVIOUS
<1>6. \A i \in 1 .. 2 : s[i] \in S
  BY <1>2, <1>4, <1>5 DEF PartValues
<1>7. s = [i \in 1 .. 2 |-> s[i]]
  BY <1>1
<1>8. s \in [1 .. 2 -> S]
  BY <1>6, <1>7
<1>9. Fills(s, p)
  BY <1>2, <1>3, <1>4, <1>7 DEF Fills
<1>10. s \in SimpleRange(t)
  BY <1>2, <1>5, <1>8, <1>9 DEF SimpleRange
<1> QED BY <1>1, <1>10 DEF TypeRange

(* A struct of three values of its parts' types is a value of the type. *)
LEMMA ThreeFill ==
  ASSUME NEW p, NEW A, NEW B, NEW C, p = <<A, B, C>>,
         NEW a \in AtomicRange(A), NEW b \in AtomicRange(B), NEW c \in AtomicRange(C),
         NEW t, t.tag = "Struct", t.parts = p
  PROVE  <<a, b, c>> \in TypeRange(t)
<1>1. PICK s : s = <<a, b, c>>
  OBVIOUS
<1>2. Len(p) = 3 /\ p[1] = A /\ p[2] = B /\ p[3] = C
  OBVIOUS
<1>3. s[1] = a /\ s[2] = b /\ s[3] = c /\ DOMAIN s = 1 .. 3
  BY <1>1
<1>4. \A i \in 1 .. 3 : s[i] \in AtomicRange(p[i])
  <2>1. \A i \in 1 .. 3 : i = 1 \/ i = 2 \/ i = 3
    OBVIOUS
  <2> QED BY <1>2, <1>3, <2>1
<1>5. PICK S : S = PartValues(p)
  OBVIOUS
<1>6. \A i \in 1 .. 3 : s[i] \in S
  BY <1>2, <1>4, <1>5 DEF PartValues
<1>7. s = [i \in 1 .. 3 |-> s[i]]
  BY <1>1
<1>8. s \in [1 .. 3 -> S]
  BY <1>6, <1>7
<1>9. Fills(s, p)
  BY <1>2, <1>3, <1>4, <1>7 DEF Fills
<1>10. s \in SimpleRange(t)
  BY <1>2, <1>5, <1>8, <1>9 DEF SimpleRange
<1> QED BY <1>1, <1>10 DEF TypeRange

(* The values of some atomic types. *)
LEMMA AtomicRanges ==
  /\ AtomicRange(CompactTypeField) = 0 .. MAX_FIELD
  /\ AtomicRange(CompactTypeBoolean) = BOOLEAN
  /\ AtomicRange(Bytes32Descriptor) = Bytes(FieldBytes)
  /\ AtomicRange(MaxUint8Descriptor) = 0 .. Base - 1
<1>1. AtomicRange(CompactTypeField) = 0 .. MAX_FIELD
  BY DEF AtomicRange, CompactTypeField
<1>2. AtomicRange(CompactTypeBoolean) = BOOLEAN
  BY DEF AtomicRange, CompactTypeBoolean
<1>3. AtomicRange(Bytes32Descriptor) = Bytes(FieldBytes)
  <2>1. PICK t : t = Bytes32Descriptor
    OBVIOUS
  <2>2. t.tag = "Bytes" /\ t.length = FieldBytes
    BY <2>1 DEF Bytes32Descriptor, CompactTypeBytes
  <2> QED BY <2>1, <2>2 DEF AtomicRange
<1>4. AtomicRange(MaxUint8Descriptor) = 0 .. Base - 1
  <2>1. PICK t : t = MaxUint8Descriptor
    OBVIOUS
  <2>2. t.tag = "Uint" /\ t.max = Base - 1
    BY <2>1 DEF MaxUint8Descriptor, CompactTypeUnsignedInteger
  <2> QED BY <2>1, <2>2 DEF AtomicRange
<1> QED BY <1>1, <1>2, <1>3, <1>4

(* The two hashes the circuits start with are byte arrays. *)
LEMMA HashBytes == SomeHash \in Bytes(FieldBytes) /\ Padded(<<>>, FieldBytes) \in Bytes(FieldBytes)
<1>1. FieldBytes \in Nat /\ {0, 1, 2} \subseteq Byte
  BY ConstantTypes DEF Byte
<1>2. PICK S : S = Byte /\ {0, 1, 2} \subseteq S
  BY <1>1
<1>3. <<1, 0, 2>> \in Seq(S) /\ <<>> \in Seq(S)
  BY <1>2
<1>4. PICK a \in Atom, e \in Atom : a = <<1, 0, 2>> /\ e = <<>>
  BY <1>2, <1>3 DEF Atom
<1> QED BY <1>1, <1>4, PaddedType DEF SomeHash

(* Every argument of a circuit is in the range of its type.                 *)
LEMMA ValuesInRange ==
  ASSUME NEW kind \in Kinds, NEW x \in Values(kind)
  PROVE  x \in TypeRange(TypeOf[kind])
<1>1. PICK t : t = TypeOf[kind]
  OBVIOUS
<1>2. CASE kind \in NumberKinds
  <2>1. x \in 0 .. Modulus[kind] - 1
    <3>1. kind \notin PointKinds /\ kind \notin ByteKinds /\ kind \notin OtherKinds
      BY <1>2, KindSets DEF ForeignKinds, ByteKinds, OtherKinds, FlaggedKinds, PlainKinds
    <3> QED BY <1>2, <3>1 DEF Values, ByteKinds, OtherKinds
  <2> QED BY <1>2, <2>1, ModulusInRange
<1>3. CASE kind \in PointKinds
  BY <1>3, ExactStands, StandsSame
<1>4. CASE kind \in ByteKinds
  <2>1. kind \notin PointKinds /\ kind \notin NumberKinds
    BY <1>4, KindSets DEF ForeignKinds, ByteKinds, OtherKinds, FlaggedKinds, PlainKinds
  <2>2. CASE kind = "Bytes"
    <3>1. x \in Bytes(BytesLength)
      BY <2>1, <2>2 DEF Values
    <3> QED BY <1>4, <2>2, <3>1, ByteRanges
  <2>3. CASE kind = "Hash"
    <3>1. x \in {Padded(<<>>, FieldBytes), SomeHash}
      BY <2>1, <2>3 DEF Values
    <3>2. x \in Bytes(FieldBytes)
      BY <3>1, HashBytes
    <3> QED BY <1>4, <2>3, <3>2, ByteRanges
  <2> QED BY <1>4, <2>2, <2>3 DEF ByteKinds
<1>5. CASE kind \in OtherKinds
  <2>1. kind \notin PointKinds /\ kind \notin NumberKinds
    BY <1>5, KindSets DEF ForeignKinds, ByteKinds, OtherKinds, FlaggedKinds, PlainKinds
  <2>2. CASE kind = "Boolean"
    <3>1. x \in BOOLEAN
      BY <2>1, <2>2 DEF Values
    <3>2. t = CompactTypeBoolean
      BY <1>1, <2>2, TypesOfKinds
    <3>3. t.tag = "Boolean"
      BY <3>2 DEF CompactTypeBoolean
    <3>4. TypeRange(t) = BOOLEAN
      BY <3>3 DEF TypeRange, SimpleRange, AtomicRange
    <3> QED BY <1>1, <3>1, <3>4
  <2>3. CASE kind = "Opaque"
    <3>1. x \in {<<>>, <<0>>, <<1, 0>>}
      BY <2>1, <2>3 DEF Values
    <3>2. PICK S : S = Byte /\ {0, 1} \subseteq S
      BY ConstantTypes DEF Byte
    <3>3. <<>> \in Seq(S) /\ <<0>> \in Seq(S) /\ <<1, 0>> \in Seq(S)
      BY <3>2
    <3>4. x \in Atom
      BY <3>1, <3>2, <3>3 DEF Atom
    <3>5. t = CompactTypeOpaque
      BY <1>1, <2>3, TypesOfKinds
    <3>6. t.tag = "Opaque"
      BY <3>5 DEF CompactTypeOpaque
    <3>7. TypeRange(t) = Atom
      BY <3>6 DEF TypeRange, SimpleRange, AtomicRange
    <3> QED BY <1>1, <3>4, <3>7
  <2>4. CASE kind = "PathEntry"
    <3>1. PICK d \in {0, MAX_FIELD}, b \in BOOLEAN : x = <<d, b>>
      BY <2>1, <2>4 DEF Values
    <3>2. t = CompactTypeMerkleTreePathEntry
      BY <1>1, <2>4, TypesOfKinds
    <3>3. t.tag = "Struct" /\ t.parts = <<CompactTypeField, CompactTypeBoolean>>
      BY <3>2 DEF CompactTypeMerkleTreePathEntry, CompactTypeMerkleTreeDigest
    <3>4. d \in AtomicRange(CompactTypeField) /\ b \in AtomicRange(CompactTypeBoolean)
      BY <3>1, AtomicRanges, ConstantTypes
    <3> QED BY <1>1, <3>1, <3>3, <3>4, TwoFill
  <2>5. CASE kind = "Path"
    <3>1. PICK p \in {Multiple("Secp256k1Point", k) : k \in 0 .. 1}, b \in BOOLEAN :
             x = [leaf |-> p, path |-> <<<<3, b>>>>]
      BY <2>1, <2>5 DEF Values
    <3>2. p \in TypeRange(TypeOf["Secp256k1Point"])
      <4>1. PICK k \in 0 .. 1 : p = Multiple("Secp256k1Point", k)
        BY <3>1
      <4>2. k \in 0 .. Order["Secp256k1Point"] - 1
        <5>1. K1.order \in Nat /\ K1.order > 4
          BY CurveTypes
        <5> QED BY <5>1, Orders
      <4>3. "Secp256k1Point" \in PointKinds
        BY KindSets DEF FlaggedKinds
      <4>4. Stands("Secp256k1Point", p, k)
        BY <4>1, <4>2, <4>3, StandsMultiple
      <4> QED BY <4>3, <4>4, StandsSame
    <3>3. PICK q, e, l : q = CompactTypeSecp256k1Point /\ e = CompactTypeMerkleTreePathEntry
             /\ l = CompactTypeVector(1, e)
      OBVIOUS
    <3>4. t = CompactTypeMerkleTreePath(1, q)
      BY <1>1, <2>5, <3>3, TypesOfKinds
    <3>5. t.tag = "MerkleTreePath" /\ t.leaf = q /\ t.path = l
      BY <3>3, <3>4 DEF CompactTypeMerkleTreePath
    <3>6. p \in SimpleRange(q)
      <4>1. q.tag = "FlaggedPoint"
        BY <3>3 DEF CompactTypeSecp256k1Point
      <4>2. TypeOf["Secp256k1Point"] = q
        BY <3>3, TypesOfKinds
      <4> QED BY <3>2, <4>1, <4>2 DEF TypeRange
    <3>7. <<3, b>> \in SimpleRange(e)
      <4>1. e.tag = "Struct" /\ e.parts = <<CompactTypeField, CompactTypeBoolean>>
        BY <3>3 DEF CompactTypeMerkleTreePathEntry, CompactTypeMerkleTreeDigest
      <4>2. PICK d \in AtomicRange(CompactTypeField), v \in AtomicRange(CompactTypeBoolean) : d = 3 /\ v = b
        <5>1. 3 \in 0 .. MAX_FIELD
          BY ConstantTypes
        <5> QED BY <3>1, <5>1, AtomicRanges
      <4>3. <<d, v>> \in TypeRange(e)
        BY <4>1, TwoFill
      <4> QED BY <4>1, <4>2, <4>3 DEF TypeRange
    <3>8. PICK w : w = <<3, b>> /\ w \in SimpleRange(e)
      BY <3>7
    <3>9. l.length = 1 /\ l.type = e
      BY <3>3 DEF CompactTypeVector
    <3>10. <<w>> \in VectorRange(l)
      <4>1. PICK S : S = SimpleRange(e)
        OBVIOUS
      <4>2. <<w>> \in [1 .. 1 -> S]
        BY <3>8, <4>1
      <4> QED BY <3>9, <4>1, <4>2 DEF VectorRange
    <3>11. x = [leaf |-> p, path |-> <<w>>]
      BY <3>1, <3>8
    <3>12. x \in PathRange(t)
      BY <3>5, <3>6, <3>10, <3>11 DEF PathRange
    <3> QED BY <1>1, <3>5, <3>12 DEF TypeRange
  <2>6. CASE kind = "Vector"
    <3>1. PICK a, b : a \in {0, 1, Modulus["Secp256k1Scalar"] - 1} /\ b \in {0, 1,
             Modulus["Secp256k1Scalar"] - 1}
                      /\ x = <<a, b>>
      BY <2>1, <2>6 DEF Values
    <3>2. PICK q : q = CompactTypeSecp256k1Scalar
      OBVIOUS
    <3>3. t = CompactTypeVector(2, q)
      BY <1>1, <2>6, <3>2, TypesOfKinds
    <3>4. t.tag = "Vector" /\ t.length = 2 /\ t.type = q
      BY <3>3 DEF CompactTypeVector
    <3>5. q.tag = "Foreign" /\ q.max = K1.order - 1
      BY <3>2, ForeignTypes, ForeignMaxima DEF IsForeign
    <3>6. SimpleRange(q) = 0 .. K1.order - 1
      BY <3>5 DEF SimpleRange, AtomicRange
    <3>7. a \in SimpleRange(q) /\ b \in SimpleRange(q)
      <4>1. Modulus["Secp256k1Scalar"] = K1.order
        BY DEF Modulus, SECP256K1_SCALAR_MODULUS
      <4>2. K1.order \in Nat /\ K1.order > 4
        BY CurveTypes
      <4> QED BY <3>1, <3>6, <4>1, <4>2
    <3>8. PICK S : S = SimpleRange(q)
      OBVIOUS
    <3>9. x \in [1 .. 2 -> S]
      BY <3>1, <3>7, <3>8
    <3>10. x \in VectorRange(t)
      BY <3>4, <3>8, <3>9 DEF VectorRange
    <3> QED BY <1>1, <3>4, <3>10 DEF TypeRange
  <2>7. CASE kind = "CoinInfo"
    <3>1. PICK h \in {SomeHash, Padded(<<>>, FieldBytes)}, n \in 0 .. Base - 1 : x = <<SomeHash, h, n>>
      BY <2>1, <2>7 DEF Values
    <3>2. t = ShieldedCoinInfoDescriptor
      BY <1>1, <2>7, TypesOfKinds
    <3>3. t.tag = "Struct" /\ t.parts = <<Bytes32Descriptor, Bytes32Descriptor, MaxUint8Descriptor>>
      BY <3>2 DEF ShieldedCoinInfoDescriptor
    <3>4. SomeHash \in AtomicRange(Bytes32Descriptor) /\ h \in AtomicRange(Bytes32Descriptor)
          /\ n \in AtomicRange(MaxUint8Descriptor)
      BY <3>1, AtomicRanges, HashBytes
    <3> QED BY <1>1, <3>1, <3>3, <3>4, ThreeFill
  <2>8. CASE kind = "Recipient"
    <3>1. PICK b \in BOOLEAN : x = <<b, SomeHash, Padded(<<>>, FieldBytes)>>
      BY <2>1, <2>8 DEF Values
    <3>2. t = ShieldedCoinRecipientDescriptor
      BY <1>1, <2>8, TypesOfKinds
    <3>3. t.tag = "Struct" /\ t.parts = <<CompactTypeBoolean, Bytes32Descriptor, Bytes32Descriptor>>
      BY <3>2 DEF ShieldedCoinRecipientDescriptor, ZswapCoinPublicKeyDescriptor, ContractAddressDescriptor
    <3>4. b \in AtomicRange(CompactTypeBoolean) /\ SomeHash \in AtomicRange(Bytes32Descriptor)
          /\ Padded(<<>>, FieldBytes) \in AtomicRange(Bytes32Descriptor)
      BY <3>1, AtomicRanges, HashBytes
    <3> QED BY <1>1, <3>1, <3>3, <3>4, ThreeFill
  <2> QED BY <1>5, <2>2, <2>3, <2>4, <2>5, <2>6, <2>7, <2>8 DEF OtherKinds
<1> QED BY <1>2, <1>3, <1>4, <1>5, KindSets

------------------------------------------------------------------------------
(* Equality, and what a value reads back as. *)

(* The tags of the kinds that equality tells apart. *)
LEMMA KindTags ==
  /\ \A kind \in Kinds : kind # "Path" => TypeOf[kind].tag # "MerkleTreePath"
  /\ TypeOf["Path"].tag = "MerkleTreePath"
  /\ \A kind \in NumberKinds \cup ByteKinds : TypeOf[kind].tag # "FlaggedPoint"
<1>1. \A kind \in NumberKinds : TypeOf[kind].tag # "MerkleTreePath" /\ TypeOf[kind].tag # "FlaggedPoint"
  <2>1. TAKE kind \in NumberKinds
  <2>2. CASE kind \in {"Field", "JubjubScalar"}
    BY <2>2, TypesOfKinds DEF CompactTypeField
  <2>3. CASE kind = "Uint"
    <3>1. PICK t : t = CompactTypeUnsignedInteger(UintMax, Len(Digits[UintMax]))
      OBVIOUS
    <3>2. t.tag = "Uint" /\ TypeOf[kind] = t
      BY <2>3, <3>1, TypesOfKinds DEF CompactTypeUnsignedInteger
    <3> QED BY <3>2
  <2>4. CASE kind = "Enum"
    <3>1. PICK t : t = CompactTypeEnum(EnumMax, Len(Digits[EnumMax]))
      OBVIOUS
    <3>2. t.tag = "Enum" /\ TypeOf[kind] = t
      BY <2>4, <3>1, TypesOfKinds DEF CompactTypeEnum
    <3> QED BY <3>2
  <2>5. CASE kind \in ForeignKinds
    BY <2>5, TypesOfKinds, ForeignTypes DEF ForeignKinds, IsForeign
  <2> QED BY <2>2, <2>3, <2>4, <2>5, KindSets
<1>2. \A kind \in PointKinds : TypeOf[kind].tag # "MerkleTreePath"
  BY FlaggedRanges, PlainRanges, KindSets
<1>3. \A kind \in ByteKinds : TypeOf[kind].tag # "MerkleTreePath" /\ TypeOf[kind].tag # "FlaggedPoint"
  BY ByteRanges
<1>4. \A kind \in OtherKinds : kind # "Path" => TypeOf[kind].tag # "MerkleTreePath"
  <2>1. TypeOf["Boolean"].tag = "Boolean" /\ TypeOf["Opaque"].tag = "Opaque"
    BY TypesOfKinds DEF CompactTypeBoolean, CompactTypeOpaque
  <2>2. TypeOf["PathEntry"].tag = "Struct" /\ TypeOf["CoinInfo"].tag = "Struct"
           /\ TypeOf["Recipient"].tag = "Struct"
    BY TypesOfKinds DEF CompactTypeMerkleTreePathEntry, ShieldedCoinInfoDescriptor,
             ShieldedCoinRecipientDescriptor
  <2>3. TypeOf["Vector"].tag = "Vector"
    BY TypesOfKinds DEF CompactTypeVector
  <2> QED BY <2>1, <2>2, <2>3 DEF OtherKinds
<1>5. TypeOf["Path"].tag = "MerkleTreePath"
  BY TypesOfKinds DEF CompactTypeMerkleTreePath
<1> QED BY <1>1, <1>2, <1>3, <1>4, <1>5, KindSets

(* What is read back is in range, and equal to what was written.            *)
LEMMA NormInRange ==
  ASSUME NEW t, IsType(t), NEW x \in TypeRange(t)
  PROVE  TypeNorm(t, x) \in TypeRange(t)
<1>1. PICK r \in Seq(Atom) : r = <<>>
  <2>1. \A S : <<>> \in Seq(S)
    OBVIOUS
  <2> QED BY <2>1
<1>2. PICK e : e = ToValue(t, x) /\ e \in Seq(Atom)
  BY TypeEncodes DEF Encodes
<1>3. PICK v \in Seq(Atom) : v = e \o r
  BY <1>1, <1>2
<1>4. PICK o : o = FromValue(t, v)
  OBVIOUS
<1>5. o = Take(TypeNorm(t, x), r)
  BY <1>2, <1>3, <1>4, TypeReads
<1>6. o.ok /\ o.val = TypeNorm(t, x)
  BY <1>5, TakeFacts
<1>7. Takes(o, Len(Alignment(t)), v, TypeRange(t))
  BY <1>4, <1>6, TypeSound
<1> QED BY <1>6, <1>7 DEF Takes

(* What a value reads back as is the same value for the language. *)
LEMMA NormSame ==
  ASSUME NEW kind \in Kinds, NEW x \in TypeRange(TypeOf[kind])
  PROVE  SameValue(kind, TypeNorm(TypeOf[kind], x), x)
<1>1. PICK t : t = TypeOf[kind]
  OBVIOUS
<1>2. ASSUME NEW u, NEW a
      PROVE  SameSimple(u, Norm(u, a), a)
  <2>1. CASE u.tag = "FlaggedPoint" /\ a.identity
    <3>1. Norm(u, a) = Identity
      BY <2>1 DEF Norm
    <3>2. Identity.identity = TRUE
      BY DEF Identity
    <3> QED BY <2>1, <3>1, <3>2 DEF SameSimple
  <2>2. CASE ~(u.tag = "FlaggedPoint" /\ a.identity)
    <3>1. Norm(u, a) = a
      BY <2>2 DEF Norm
    <3> QED BY <3>1 DEF SameSimple
  <2> QED BY <2>1, <2>2
<1>3. CASE kind = "Path"
  <2>1. PICK n : n = TypeNorm(t, x)
    OBVIOUS
  <2>2. n = [leaf |-> Norm(t.leaf, x.leaf), path |-> x.path]
    BY <1>1, <1>3, <2>1, KindTags DEF TypeNorm
  <2>3. n.leaf = Norm(t.leaf, x.leaf) /\ n.path = x.path
    BY <2>2
  <2>4. SameSimple(t.leaf, n.leaf, x.leaf)
    BY <1>2, <2>3
  <2> QED BY <1>1, <1>3, <2>1, <2>3, <2>4 DEF SameValue
<1>4. CASE kind # "Path"
  <2>1. TypeNorm(t, x) = Norm(t, x)
    BY <1>1, <1>4, KindTags DEF TypeNorm
  <2>2. SameSimple(t, Norm(t, x), x)
    BY <1>2
  <2> QED BY <1>1, <1>4, <2>1, <2>2 DEF SameValue
<1> QED BY <1>3, <1>4

(* The numbers and the bytes come back as they are.                         *)
LEMMA NormIdentity ==
  ASSUME NEW kind \in NumberKinds \cup ByteKinds, NEW x
  PROVE  TypeNorm(TypeOf[kind], x) = x
<1>1. kind \in Kinds /\ kind # "Path"
  BY KindSets DEF ForeignKinds, ByteKinds
<1>2. TypeOf[kind].tag # "FlaggedPoint" /\ TypeOf[kind].tag # "MerkleTreePath"
  BY <1>1, KindTags
<1> QED BY <1>2 DEF TypeNorm, Norm

(* What a point reads back as stands for the same multiple. *)
LEMMA StandsNorm ==
  ASSUME NEW kind \in PointKinds, NEW x, NEW k, Stands(kind, x, k)
  PROVE  Stands(kind, TypeNorm(TypeOf[kind], x), k)
<1>1. PICK t, n : t = TypeOf[kind] /\ n = TypeNorm(t, x)
  OBVIOUS
<1>2. kind \in Kinds /\ kind # "Path"
  BY KindSets DEF FlaggedKinds, PlainKinds
<1>3. n = Norm(t, x)
  BY <1>1, <1>2, KindTags DEF TypeNorm
<1>4. CASE t.tag = "FlaggedPoint" /\ x.identity
  <2>1. n = Identity
    BY <1>3, <1>4 DEF Norm
  <2>2. kind \in {"Secp256k1Point", "Secp256r1Point"}
    BY <1>1, <1>4, FourPoints, PlainRanges DEF PlainKinds
  <2>3. PICK c \in {K1, R1} : /\ kind = "Secp256k1Point" => c = K1
                              /\ kind = "Secp256r1Point" => c = R1
    BY <2>2
  <2>4. StandsFor(c, x, k)
    BY <2>2, <2>3 DEF Stands
  <2>5. x.identity \in BOOLEAN
    BY <2>4 DEF StandsFor, SecpRange
  <2>6. k = 0 /\ k \in 0 .. c.order - 1
    BY <1>4, <2>4, <2>5 DEF StandsFor
  <2>7. PICK p \in Nat : p = c.p /\ p > 4
    BY CurveTypes
  <2>8. 0 \in 0 .. c.p - 1
    BY <2>7
  <2>9. n \in SecpRange(c) /\ n.identity = TRUE
    BY <2>1, <2>8 DEF Identity, SecpRange
  <2>10. StandsFor(c, n, k)
    BY <2>6, <2>9 DEF StandsFor
  <2> QED BY <1>1, <2>2, <2>3, <2>10 DEF Stands
<1>5. CASE ~(t.tag = "FlaggedPoint" /\ x.identity)
  BY <1>1, <1>3, <1>5 DEF Norm
<1> QED BY <1>4, <1>5

(* The values of a type are in range. *)
LEMMA RangeIn ==
  ASSUME NEW kind \in Kinds, NEW x \in TypeRange(TypeOf[kind])
  PROVE  InRange(kind, x)
<1>1. kind \in NumberKinds => x \in 0 .. (IF kind = "JubjubScalar" THEN MAX_FIELD ELSE Modulus[kind] - 1)
  BY NumberRanges
<1>2. kind \in ByteKinds => x \in Bytes(TypeOf[kind].length)
  BY ByteRanges
<1>3. kind \in FlaggedKinds => {x.x, x.y} \subseteq 0 .. TypeOf[kind].parts[1].max /\ kind # "JubjubPoint"
  <2>1. HAVE kind \in FlaggedKinds
  <2>2. x \in [x : 0 .. CoordinateMax(kind), y : 0 .. CoordinateMax(kind), identity : BOOLEAN]
        /\ TypeOf[kind].parts[1].max = CoordinateMax(kind)
    BY <2>1, FlaggedRanges
  <2> QED BY <2>1, <2>2 DEF FlaggedKinds
<1>4. kind \in PlainKinds => {x.x,
         x.y} \subseteq 0 .. (IF kind = "JubjubPoint" THEN MAX_FIELD ELSE TypeOf[kind].parts[1].max)
  <2>1. HAVE kind \in PlainKinds
  <2>2. PICK a \in 0 .. CoordinateMax(kind), b \in 0 .. CoordinateMax(kind) : x = [x |-> a, y |-> b]
    BY <2>1, PlainRanges
  <2>3. x.x = a /\ x.y = b
    BY <2>2
  <2>4. kind = "Curve25519Point" => TypeOf[kind].parts[1].max = CoordinateMax(kind)
    BY <2>1, PlainRanges
  <2>5. kind = "JubjubPoint" => CoordinateMax(kind) = MAX_FIELD
    BY DEF CoordinateMax
  <2> QED BY <2>1, <2>2, <2>3, <2>4, <2>5 DEF PlainKinds
<1> QED BY <1>1, <1>2, <1>3, <1>4, KindSets DEF InRange

------------------------------------------------------------------------------
(* The binary representation. *)

(* Equal values have equal normal forms, and these the same encoding.       *)
LEMMA SimpleSame ==
  ASSUME NEW t, IsSimple(t), NEW a \in SimpleRange(t), NEW b \in SimpleRange(t)
  PROVE  /\ SameSimple(t, a, b) <=> Norm(t, a) = Norm(t, b)
         /\ SimpleToValue(t, Norm(t, a)) = SimpleToValue(t, a)
<1>1. CASE t.tag = "FlaggedPoint"
  <2>1. a.identity \in BOOLEAN /\ b.identity \in BOOLEAN
    BY <1>1 DEF SimpleRange
  <2>2. Identity.identity = TRUE /\ Norm(t, a) = (IF a.identity THEN Identity ELSE a)
        /\ Norm(t, b) = (IF b.identity THEN Identity ELSE b)
    BY <1>1 DEF Identity, Norm
  <2>3. SameSimple(t, a, b) <=> ((a.identity /\ b.identity) \/ a = b)
    BY <1>1 DEF SameSimple
  <2>4. SameSimple(t, a, b) <=> Norm(t, a) = Norm(t, b)
    BY <2>1, <2>2, <2>3
  <2>5. PartsOf(t, Norm(t, a)) = PartsOf(t, a)
    <3>1. \A x : PartsOf(t, x) = FlaggedPointParts(x)
      BY <1>1 DEF PartsOf
    <3>2. a.identity => FlaggedPointParts(Identity) = FlaggedPointParts(a)
      BY <2>2 DEF FlaggedPointParts
    <3> QED BY <2>1, <2>2, <3>1, <3>2
  <2>6. SimpleToValue(t, Norm(t, a)) = SimpleToValue(t, a)
    <3>1. PICK n, u, v : n = Norm(t, a) /\ u = PartsOf(t, n) /\ v = PartsOf(t, a)
      OBVIOUS
    <3>2. u = v
      BY <2>5, <3>1
    <3>3. \A x : SimpleToValue(t, x) = FlattenSeq([i \in 1 .. Len(t.parts) |-> AtomicToValue(t.parts[i],
             PartsOf(t, x)[i])])
      BY <1>1 DEF SimpleToValue
    <3>4. SimpleToValue(t, n) = FlattenSeq([i \in 1 .. Len(t.parts) |-> AtomicToValue(t.parts[i], u[i])])
      BY <3>1, <3>3
    <3>5. SimpleToValue(t, a) = FlattenSeq([i \in 1 .. Len(t.parts) |-> AtomicToValue(t.parts[i], v[i])])
      BY <3>1, <3>3
    <3> QED BY <3>1, <3>2, <3>4, <3>5
  <2> QED BY <2>4, <2>6
<1>2. CASE t.tag # "FlaggedPoint"
  <2>1. Norm(t, a) = a /\ Norm(t, b) = b
    BY <1>2 DEF Norm
  <2> QED BY <1>2, <2>1 DEF SameSimple
<1> QED BY <1>1, <1>2

(* Values are the same for the language when they read back as the same, and
   that one has the same encoding. *)
LEMMA SameNorm ==
  ASSUME NEW kind \in Kinds, NEW a \in TypeRange(TypeOf[kind]), NEW b \in TypeRange(TypeOf[kind])
  PROVE  /\ SameValue(kind, a, b) <=> TypeNorm(TypeOf[kind], a) = TypeNorm(TypeOf[kind], b)
         /\ ToValue(TypeOf[kind], TypeNorm(TypeOf[kind], a)) = ToValue(TypeOf[kind], a)
<1>1. PICK t : t = TypeOf[kind] /\ IsType(t) /\ a \in TypeRange(t) /\ b \in TypeRange(t)
  BY KindTypes
<1>2. CASE kind = "Path"
  <2>1. t.tag = "MerkleTreePath"
    BY <1>1, <1>2, KindTags
  <2>2. IsPath(t)
    BY <1>1, <2>1, SimpleTag DEF IsType, IsVector
  <2>3. IsSimple(t.leaf)
    BY <2>2 DEF IsPath
  <2>4. a \in PathRange(t) /\ b \in PathRange(t)
    BY <1>1, <2>1 DEF TypeRange
  <2>5. a.leaf \in SimpleRange(t.leaf) /\ b.leaf \in SimpleRange(t.leaf)
    BY <2>4 DEF PathRange
  <2>6. PICK u, v : /\ u = TypeNorm(t, a) /\ v = TypeNorm(t, b)
    OBVIOUS
  <2>7. u = [leaf |-> Norm(t.leaf, a.leaf), path |-> a.path] /\ v = [leaf |-> Norm(t.leaf, b.leaf),
           path |-> b.path]
    BY <2>1, <2>6 DEF TypeNorm
  <2>8. u.leaf = Norm(t.leaf, a.leaf) /\ u.path = a.path /\ v.leaf = Norm(t.leaf, b.leaf) /\ v.path = b.path
    BY <2>7
  <2>9. SameSimple(t.leaf, a.leaf, b.leaf) <=> u.leaf = v.leaf
    BY <2>3, <2>5, <2>8, SimpleSame
  <2>10. SameValue(kind, a, b) <=> u.leaf = v.leaf /\ u.path = v.path
    BY <1>1, <1>2, <2>8, <2>9 DEF SameValue
  <2>11. u = v <=> u.leaf = v.leaf /\ u.path = v.path
    BY <2>7, <2>8
  <2>12. ToValue(t, u) = ToValue(t, a)
    <3>1. \A x : ToValue(t, x) = SimpleToValue(t.leaf, x.leaf) \o VectorToValue(t.path, x.path)
      BY <2>1 DEF ToValue
    <3>2. SimpleToValue(t.leaf, u.leaf) = SimpleToValue(t.leaf, a.leaf)
      BY <2>3, <2>5, <2>8, SimpleSame
    <3> QED BY <2>8, <3>1, <3>2
  <2> QED BY <1>1, <2>6, <2>10, <2>11, <2>12
<1>3. CASE kind # "Path"
  <2>1. t.tag # "MerkleTreePath"
    BY <1>1, <1>3, KindTags
  <2>2. TypeNorm(t, a) = Norm(t, a) /\ TypeNorm(t, b) = Norm(t, b)
    BY <2>1 DEF TypeNorm
  <2>3. SameValue(kind, a, b) <=> SameSimple(t, a, b)
    BY <1>1, <1>3 DEF SameValue
  <2>4. CASE t.tag = "Vector"
    <3>1. Norm(t, a) = a /\ Norm(t, b) = b
      BY <2>4 DEF Norm
    <3>2. SameSimple(t, a, b) <=> a = b
      BY <2>4 DEF SameSimple
    <3> QED BY <1>1, <2>2, <2>3, <3>1, <3>2
  <2>5. CASE t.tag # "Vector"
    <3>1. IsSimple(t)
      BY <1>1, <2>1, <2>5 DEF IsType, IsVector, IsPath
    <3>2. a \in SimpleRange(t) /\ b \in SimpleRange(t)
      BY <1>1, <2>1, <2>5 DEF TypeRange
    <3>3. \A x : ToValue(t, x) = SimpleToValue(t, x)
      BY <2>1, <2>5 DEF ToValue
    <3> QED BY <1>1, <2>2, <2>3, <3>1, <3>2, <3>3, SimpleSame
  <2> QED BY <2>4, <2>5
<1> QED BY <1>2, <1>3

(* The encoding tells apart what the language tells apart, and no more.     *)
LEMMA EncodingSeparates ==
  ASSUME NEW kind \in Kinds, NEW a \in TypeRange(TypeOf[kind]), NEW b \in TypeRange(TypeOf[kind])
  PROVE  ToValue(TypeOf[kind], a) = ToValue(TypeOf[kind], b) <=> SameValue(kind, a, b)
<1>1. PICK t : t = TypeOf[kind] /\ IsType(t) /\ a \in TypeRange(t) /\ b \in TypeRange(t)
  BY KindTypes
<1>2. PICK u, v : u = TypeNorm(t, a) /\ v = TypeNorm(t, b)
  OBVIOUS
<1>3. ToValue(t, u) = ToValue(t, a) /\ ToValue(t, v) = ToValue(t, b) /\ (SameValue(kind, a, b) <=> u = v)
  BY <1>1, <1>2, SameNorm
<1>4. ToValue(t, a) = ToValue(t, b) => u = v
  <2>1. HAVE ToValue(t, a) = ToValue(t, b)
  <2>2. PICK r \in Seq(Atom) : r = <<>>
    <3>1. \A S : <<>> \in Seq(S)
      OBVIOUS
    <3> QED BY <3>1
  <2>3. PICK f, g : f = FromValue(t, ToValue(t, a) \o r) /\ g = FromValue(t, ToValue(t, b) \o r)
    OBVIOUS
  <2>4. f = Take(u, r) /\ g = Take(v, r)
    BY <1>1, <1>2, <2>3, TypeReads
  <2>5. f.val = u /\ g.val = v
    BY <2>4, TakeFacts
  <2>6. f = g
    BY <2>1, <2>3
  <2> QED BY <2>5, <2>6
<1> QED BY <1>1, <1>3, <1>4

(* The padded atoms of an encoding.                                         *)
Padding(e, al) == [i \in 1 .. Len(al) |-> Padded(e[i], Width(al[i]))]
(* No width of the alignment is that of a compressed atom. *)
Uncompressed(al) == \A i \in 1 .. Len(al) : al[i] # CompressWidth

(* Each atom of an encoding, padded to its width. *)
LEMMA PaddingType ==
  ASSUME NEW e, NEW al, Encodes(e, al), Uncompressed(al), NEW ps, ps = Padding(e, al)
  PROVE  /\ Len(al) \in Nat /\ ps \in Seq(Seq(Byte)) /\ Len(ps) = Len(al) /\ Len(e) = Len(al)
         /\ \A i \in 1 .. Len(al) : /\ e[i] \in Atom /\ Trim(e[i]) /\ Len(e[i]) <= Width(al[i])
                                    /\ Width(al[i]) \in Nat
                                    /\ ps[i] = Padded(e[i], Width(al[i])) /\ Len(ps[i]) = Width(al[i])
<1>1. PICK n \in Nat : n = Len(al) /\ n = Len(e)
  BY LenProperties DEF Encodes
<1>2. ASSUME NEW i \in 1 .. n
      PROVE  e[i] \in Atom /\ Trim(e[i]) /\ Len(e[i]) <= Width(al[i]) /\ Width(al[i]) \in Nat
  <2>1. <<e[i], al[i]>> \in Fitting
    BY <1>1 DEF Encodes, Related
  <2>2. PICK p : p = <<e[i], al[i]>>
    OBVIOUS
  <2>3. p[1] = e[i] /\ p[2] = al[i]
    BY <2>2
  <2>4. al[i] # CompressWidth
    BY <1>1 DEF Uncompressed
  <2>5. p \in Atom \X Int /\ Trim(p[1]) /\ Len(p[1]) <= Width(p[2]) /\ Width(p[2]) \in Nat
    BY <2>1, <2>2, <2>3, <2>4 DEF Fitting
  <2> QED BY <2>3, <2>5
<1>3. ps = [i \in 1 .. n |-> Padded(e[i], Width(al[i]))]
  BY <1>1 DEF Padding
<1>4. ASSUME NEW i \in 1 .. n
      PROVE  ps[i] = Padded(e[i], Width(al[i])) /\ ps[i] \in Atom /\ Len(ps[i]) = Width(al[i])
  <2>1. PICK a \in Atom, w \in Nat : a = e[i] /\ w = Width(al[i])
    BY <1>2
  <2>2. Padded(a, w) \in Atom /\ Len(Padded(a, w)) = w
    BY PaddedType
  <2> QED BY <1>3, <2>1, <2>2
<1>5. PICK S : S = Atom
  OBVIOUS
<1>6. ps \in [1 .. n -> S]
  BY <1>3, <1>4, <1>5
<1>7. ps \in Seq(S) /\ Len(ps) = n
  BY <1>6, SequenceOf
<1> QED BY <1>1, <1>2, <1>4, <1>5, <1>7 DEF Atom

(* Its length is the sum of the widths.                                     *)
EndAt(al, g, i) == IF i = 0 THEN 0 ELSE g[i - 1] + Width(al[i])
(* g is the table of the ends of the padded atoms. *)
EndTable(al, g) == g = [i \in 0 .. Len(al) |-> EndAt(al, g, i)]

(* Padded atoms are as long, joined, as their widths are together. *)
LEMMA PaddingLength ==
  ASSUME NEW e, NEW al, Encodes(e, al), Uncompressed(al), NEW ps, ps = Padding(e, al)
  PROVE  \E f : EndTable(al, f) /\ \A g : EndTable(al, g) => Len(FlattenSeq(ps)) = g[Len(al)]
<1>1. PICK n \in Nat : n = Len(al) /\ ps \in Seq(Seq(Byte)) /\ Len(ps) = n
  BY PaddingType
<1>2. \A i \in 1 .. n : Len(ps[i]) = Width(al[i]) /\ Width(al[i]) \in Nat
  BY <1>1, PaddingType
<1>3. PICK S : S = Byte
  OBVIOUS
<1>4. ps \in Seq(Seq(S))
  BY <1>1, <1>3
<1>5. PICK h : Joined(S, ps, h)
  BY <1>4, FlattenJoins
<1>6. PICK f : f = [i \in 0 .. n |-> Len(h[i])]
  OBVIOUS
<1>7. ASSUME NEW i \in 1 .. n
      PROVE  i - 1 \in 0 .. n /\ f[i] = f[i - 1] + Width(al[i])
  <2>1. JoinStep(S, ps, h, i)
    BY <1>1, <1>4, <1>5, JoinedStep
  <2>2. i - 1 \in 0 .. n /\ i \in 0 .. n /\ Len(h[i]) = Len(h[i - 1]) + Len(ps[i])
    BY <1>1, <2>1 DEF JoinStep
  <2> QED BY <1>2, <1>6, <2>2
<1>8. f[0] = 0
  BY <1>1, <1>5, <1>6 DEF Joined
<1>9. ASSUME NEW i \in 0 .. n
      PROVE  f[i] = EndAt(al, f, i)
  <2>1. CASE i = 0
    BY <1>8, <2>1 DEF EndAt
  <2>2. CASE i # 0
    <3>1. i \in 1 .. n
      BY <2>2
    <3> QED BY <1>7, <2>2, <3>1 DEF EndAt
  <2> QED BY <2>1, <2>2
<1>10. EndTable(al, f)
  <2>1. f = [i \in 0 .. n |-> f[i]]
    BY <1>6
  <2>2. [i \in 0 .. n |-> f[i]] = [i \in 0 .. n |-> EndAt(al, f, i)]
    BY <1>9
  <2> QED BY <1>1, <2>1, <2>2 DEF EndTable
<1>11. ASSUME NEW g, EndTable(al, g)
       PROVE  g[n] = f[n]
  <2> DEFINE Z == {i \in 0 .. n : g[i] = f[i]}
  <2>1. \A i \in 0 .. n : g[i] = EndAt(al, g, i)
    BY <1>1, <1>11 DEF EndTable
  <2>2. 0 \in Z
    BY <1>8, <2>1 DEF EndAt
  <2>3. \A i \in 0 .. n - 1 : i \in Z => i + 1 \in Z
    <3>1. TAKE i \in 0 .. n - 1
    <3>2. HAVE i \in Z
    <3>3. PICK j \in 1 .. n : j = i + 1 /\ j - 1 = i /\ j \in 0 .. n /\ j # 0
      OBVIOUS
    <3>4. g[j] = g[i] + Width(al[j])
      BY <2>1, <3>3 DEF EndAt
    <3>5. f[j] = f[i] + Width(al[j])
      BY <1>7, <3>3
    <3> QED BY <3>2, <3>3, <3>4, <3>5
  <2> HIDE DEF Z
  <2>4. \A i \in 0 .. n : i \in Z
    BY <2>2, <2>3, Upward
  <2>5. n \in Z
    BY <2>4
  <2> QED BY <2>5 DEF Z
<1>12. FlattenSeq(ps) = h[n] /\ n \in 0 .. n
  BY <1>1, <1>5 DEF Joined
<1>13. Len(FlattenSeq(ps)) = f[n]
  BY <1>6, <1>12
<1> QED BY <1>1, <1>10, <1>11, <1>13

(* The bytes tell the encodings apart.                                      *)
LEMMA PaddingSeparates ==
  ASSUME NEW d, NEW e, NEW al, Encodes(d, al), Encodes(e, al), Uncompressed(al),
         FlattenSeq(Padding(d, al)) = FlattenSeq(Padding(e, al))
  PROVE  d = e
<1>1. PICK ps, qs : ps = Padding(d, al) /\ qs = Padding(e, al)
  OBVIOUS
<1>2. PICK n \in Nat : n = Len(al)
  BY <1>1, PaddingType
<1>3. /\ ps \in Seq(Seq(Byte)) /\ Len(ps) = n /\ Len(d) = n
      /\ qs \in Seq(Seq(Byte)) /\ Len(qs) = n /\ Len(e) = n
  BY <1>1, <1>2, PaddingType
<1>4. \A i \in 1 .. n : /\ d[i] \in Atom /\ Trim(d[i]) /\ Len(d[i]) <= Width(al[i]) /\ Width(al[i]) \in Nat
                        /\ ps[i] = Padded(d[i], Width(al[i])) /\ Len(ps[i]) = Width(al[i])
  BY <1>1, <1>2, PaddingType
<1>5. \A i \in 1 .. n : /\ e[i] \in Atom /\ Trim(e[i]) /\ Len(e[i]) <= Width(al[i])
                        /\ qs[i] = Padded(e[i], Width(al[i])) /\ Len(qs[i]) = Width(al[i])
  BY <1>1, <1>2, PaddingType
<1>6. SameLengths(ps, qs)
  BY <1>3, <1>4, <1>5 DEF SameLengths
<1>7. ps = qs
  <2>1. PICK S : S = Byte
    OBVIOUS
  <2>2. ps \in Seq(Seq(S)) /\ qs \in Seq(Seq(S)) /\ FlattenSeq(ps) = FlattenSeq(qs)
    BY <1>1, <1>3, <2>1
  <2> QED BY <1>6, <2>2, FlattenInjective
<1>8. ASSUME NEW i \in 1 .. n
      PROVE  d[i] = e[i]
  <2>1. PICK a \in Atom, b \in Atom, w \in Nat : a = d[i] /\ b = e[i] /\ w = Width(al[i])
    BY <1>4, <1>5
  <2>2. Padded(a, w) = Padded(b, w) /\ Trim(a) /\ Trim(b) /\ Len(a) <= w /\ Len(b) <= w
    BY <1>4, <1>5, <1>7, <2>1
  <2> QED BY <2>1, <2>2, PaddedInjective
<1>9. PICK S : S = Atom
  OBVIOUS
<1>10. d \in Seq(S) /\ e \in Seq(S)
  BY <1>9 DEF Encodes
<1> QED BY <1>3, <1>8, <1>10, SeqEqual

(* The binary representation is the padded atoms, joined. *)
LEMMA ReprIs ==
  ASSUME NEW t, NEW x, Encodes(ToValue(t, x), Alignment(t))
  PROVE  /\ ToBinaryRepr(t, x) = FlattenSeq(Padding(ToValue(t, x), Alignment(t)))
         /\ HasBinaryRepr(t) => Uncompressed(Alignment(t))
<1>1. PICK al \in Seq(Int) : al = Alignment(t)
  BY DEF Encodes
<1>2. PICK e : e = ToValue(t, x)
  OBVIOUS
<1>3. DOMAIN al = 1 .. Len(al)
  BY LenProperties
<1>4. ToBinaryRepr(t, x) = FlattenSeq([i \in DOMAIN al |-> Padded(e[i],
         IF al[i] = FieldWidth THEN FieldBytes ELSE al[i])])
  BY <1>1, <1>2 DEF ToBinaryRepr
<1>5. Padding(e, al) = [i \in DOMAIN al |-> Padded(e[i], IF al[i] = FieldWidth THEN FieldBytes ELSE al[i])]
  BY <1>3 DEF Padding, Width
<1>6. HasBinaryRepr(t) => Uncompressed(al)
  BY <1>1, <1>3 DEF HasBinaryRepr, Uncompressed
<1> QED BY <1>1, <1>2, <1>4, <1>5, <1>6

(* The bytes that are hashed outside the proof system are an atom.          *)
LEMMA ReprType ==
  ASSUME NEW kind \in Kinds, NEW x \in TypeRange(TypeOf[kind]), HasBinaryRepr(TypeOf[kind])
  PROVE  ToBinaryRepr(TypeOf[kind], x) \in Atom
<1>1. PICK t : t = TypeOf[kind] /\ IsType(t) /\ x \in TypeRange(t) /\ HasBinaryRepr(t)
  BY KindTypes
<1>2. PICK e, al : e = ToValue(t, x) /\ al = Alignment(t)
  OBVIOUS
<1>3. Encodes(e, al)
  BY <1>1, <1>2, TypeEncodes
<1>4. Uncompressed(al) /\ ToBinaryRepr(t, x) = FlattenSeq(Padding(e, al))
  BY <1>1, <1>2, <1>3, ReprIs
<1>5. PICK ps, S : ps = Padding(e, al) /\ S = Byte
  OBVIOUS
<1>6. ps \in Seq(Seq(S))
  BY <1>3, <1>4, <1>5, PaddingType
<1>7. FlattenSeq(ps) \in Seq(S)
  BY <1>6, FlattenType
<1> QED BY <1>1, <1>4, <1>5, <1>7 DEF Atom

------------------------------------------------------------------------------
(* The arithmetic of ECDSA. *)

(* Inverses mod a prime.                                                    *)
LEMMA InverseFacts ==
  ASSUME NEW m \in Nat \ {0}, IsField(m), NEW x \in 1 .. m - 1
  PROVE  InverseMod(x, m) \in 1 .. m - 1 /\ (x * InverseMod(x, m)) % m = 1
<1>1. \E y \in 1 .. m - 1 : (x * y) % m = 1
  BY DEF IsField
<1> QED BY <1>1 DEF InverseMod

(* The inverse of a number of a field. *)
LEMMA InverseSame ==
  ASSUME NEW m \in Nat \ {0}, IsField(m), NEW x \in 1 .. m - 1, NEW y, y = InverseMod(x, m)
  PROVE  y \in Int /\ Same(x * y, 1, m)
<1>1. y \in 1 .. m - 1 /\ (x * y) % m = 1
  BY InverseFacts
<1>2. x \in Int /\ y \in Int
  BY <1>1
<1>3. 1 % m = 1
  BY <1>1
<1>4. PICK z \in Int : z = x * y
  BY <1>2
<1>5. PICK one \in Int : one = 1
  OBVIOUS
<1>6. z % m = one % m
  BY <1>1, <1>3, <1>4, <1>5
<1>7. Same(z, one, m)
  BY <1>6, SameIs
<1> QED BY <1>2, <1>4, <1>5, <1>7

(* Such a ring has no divisors of zero.                                     *)
LEMMA NoDivisors ==
  ASSUME NEW m \in Nat \ {0}, IsField(m), NEW a \in Int, NEW b \in Int, Same(a * b, 0, m)
  PROVE  Same(a, 0, m) \/ Same(b, 0, m)
<1>1. SUFFICES ASSUME ~Same(a, 0, m) PROVE Same(b, 0, m)
  OBVIOUS
<1>2. PICK x \in 0 .. m - 1 : x = a % m /\ Same(x, a, m) /\ Same(a, x, m)
  BY SameRefl
<1>3. x \in 1 .. m - 1
  <2>1. x # 0
    BY <1>1, <1>2
  <2> QED BY <2>1
<1>4. PICK y \in Int : Same(x * y, 1, m)
  BY <1>3, InverseSame
<1>5. Same(x * b, 0, m)
  <2>1. PICK p \in Int, q \in Int : p = x * b /\ q = a * b
    BY <1>3
  <2>5. Same(x * b, a * b, m)
    <3>1. x \in Int
      BY <1>3
    <3> QED BY <1>2, <3>1, SameProduct
  <2>2. Same(p, q, m)
    BY <2>1, <2>5
  <2>3. Same(q, 0, m)
    BY <2>1
  <2>4. Same(p, 0, m)
    BY <2>1, <2>2, <2>3, SameTrans
  <2> QED BY <2>1, <2>4
<1>6. PICK u \in Int, v \in Int, w \in Int : u = x * y /\ v = x * b /\ w = u * b /\ w = v * y
  <2>1. (x * y) * b = (x * b) * y
    BY <1>3
  <2>2. x * y \in Int /\ x * b \in Int /\ (x * y) * b \in Int
    BY <1>3
  <2> QED BY <2>1, <2>2
<1>7. Same(w, b, m)
  <2>1. PICK one \in Int : one = 1
    OBVIOUS
  <2>2. Same(u, one, m)
    BY <1>4, <1>6, <2>1
  <2>3. Same(u * b, one * b, m)
    BY <2>2, SameProduct
  <2>4. one * b = b
    BY <2>1
  <2> QED BY <1>6, <2>3, <2>4
<1>8. Same(w, 0, m)
  <2>1. PICK none \in Int : none = 0
    OBVIOUS
  <2>2. Same(v, none, m)
    BY <1>5, <1>6, <2>1
  <2>3. Same(v * y, none * y, m)
    BY <2>2, SameProduct
  <2>4. none * y = 0
    BY <2>1
  <2> QED BY <1>6, <2>3, <2>4
<1>9. Same(b, w, m)
  BY <1>7, SameSym
<1> QED BY <1>8, <1>9, SameTrans

(* The two square roots of a residue differ in parity.                      *)
LEMMA OneRoot ==
  ASSUME NEW m \in Nat \ {0}, IsField(m), m % 2 = 1, NEW a \in 0 .. m - 1, NEW b \in 0 .. m - 1,
         (a * a) % m = (b * b) % m, a % 2 = b % 2
  PROVE  a = b
<1>1. a \in Int /\ b \in Int
  OBVIOUS
<1>2. PICK s \in Int, t \in Int, d \in Int, e \in Int : s = a * a /\ t = b * b /\ d = a - b /\ e = a + b
  BY <1>1
<1>3. Same(s, t, m)
  BY <1>2, SameIs
<1>4. Same(d * e, 0, m)
  <2>1. Same(s - t, t - t, m)
    BY <1>3, SameRefl, SameSum
  <2>2. s - t = d * e
    BY <1>1, <1>2
  <2>3. t - t = 0
    BY <1>2
  <2> QED BY <2>1, <2>2, <2>3
<1>5. CASE Same(d, 0, m)
  <2>1. PICK none \in Int : none = 0
    OBVIOUS
  <2>2. d + b = a /\ none + b = b
    BY <1>1, <1>2, <2>1
  <2>4. Same(d, none, m) /\ Same(b, b, m)
    BY <1>1, <1>5, <2>1, SameRefl
  <2>5. Same(d + b, none + b, m)
    BY <1>1, <2>4, SameSum
  <2>3. Same(a, b, m)
    BY <2>2, <2>5
  <2> QED BY <2>3, SameInRange
<1>6. CASE Same(e, 0, m)
  <2>1. PICK q \in Int : e = q * m + 0
    BY <1>6 DEF Same
  <2>2. e = 0 \/ e = m
    <3>1. e \in 0 .. 2 * m - 2
      BY <1>2
    <3>2. CASE q <= -1
      <4>1. q * m <= -m
        BY <3>2
      <4> QED BY <2>1, <3>1, <4>1
    <3>3. CASE q >= 2
      <4>1. q * m >= 2 * m
        BY <3>3
      <4> QED BY <2>1, <3>1, <4>1
    <3>4. CASE q = 0
      BY <2>1, <3>4
    <3>5. CASE q = 1
      BY <2>1, <3>5
    <3>6. q <= -1 \/ q = 0 \/ q = 1 \/ q >= 2
      OBVIOUS
    <3> QED BY <3>2, <3>3, <3>4, <3>5, <3>6
  <2>3. CASE e = 0
    BY <1>2, <2>3
  <2>4. CASE e = m
    <3>1. e = a + b /\ m % 2 = 1 /\ a % 2 = b % 2
      BY <1>2
    <3>2. PICK i \in Int, j \in Int, r \in 0 .. 1 : a = i * 2 + r /\ b = j * 2 + r
      <4>1. PICK i \in Int, r \in 0 .. 2 - 1 : a = i * 2 + r /\ a % 2 = r
        BY <1>1, Division
      <4>2. PICK j \in Int, v \in 0 .. 2 - 1 : b = j * 2 + v /\ b % 2 = v
        BY <1>1, Division
      <4> QED BY <3>1, <4>1, <4>2
    <3>3. e = (i + j + r) * 2
      BY <3>1, <3>2
    <3>4. e % 2 = 0
      BY <3>3
    <3> QED BY <2>4, <3>1, <3>4
  <2> QED BY <2>2, <2>3, <2>4
<1> QED BY <1>2, <1>4, <1>5, <1>6, NoDivisors

(* What is recovered from a signature is the signing key's multiple.        *)
Recovery(m, k, e, z, r, s, ki, ri, a, b) ==
  /\ k \in 1 .. m - 1 /\ e \in 0 .. m - 1 /\ z \in Int /\ r \in 1 .. m - 1 /\ s \in Int
  /\ ki = InverseMod(k, m) /\ s = (ki * (z + r * e)) % m
  /\ ri = InverseMod(r, m) /\ a = (-(z * ri)) % m /\ b = (s * ri) % m

(* The discrete logarithm of the recovered key is the signing key: the
   equation of ECDSA recovery. *)
LEMMA RecoveredScalar ==
  ASSUME NEW m \in Nat \ {0}, IsField(m), NEW k, NEW e, NEW z, NEW r, NEW s, NEW ki, NEW ri, NEW a, NEW b,
         Recovery(m, k, e, z, r, s, ki, ri, a, b)
  PROVE  a \in 0 .. m - 1 /\ b \in 0 .. m - 1 /\ (a + ((b * k) % m)) % m = e
<1> k \in 1 .. m - 1 /\ e \in 0 .. m - 1 /\ z \in Int /\ r \in 1 .. m - 1 /\ s \in Int
  BY DEF Recovery
<1> /\ ki = InverseMod(k, m) /\ s = (ki * (z + r * e)) % m
    /\ ri = InverseMod(r, m) /\ a = (-(z * ri)) % m /\ b = (s * ri) % m
  BY DEF Recovery
<1>1. ki \in Int /\ ri \in Int /\ Same(k * ki, 1, m) /\ Same(r * ri, 1, m)
  BY InverseSame
<1>2. k \in Int /\ e \in Int /\ r \in Int
  OBVIOUS
<1>3. PICK g \in Int, h \in Int, y \in Int, c \in Int, f \in Int :
         g = z + r * e /\ h = ki * g /\ y = z * ri /\ c = -y /\ f = s * ri
  <2>1. PICK g \in Int : g = z + r * e
    BY <1>2
  <2>2. PICK h \in Int, y \in Int : h = ki * g /\ y = z * ri
    BY <1>1
  <2>3. PICK c \in Int, f \in Int : c = -y /\ f = s * ri
    BY <1>1
  <2> QED BY <2>1, <2>2, <2>3
<1>4. s = h % m /\ a = c % m /\ b = f % m
  BY <1>3
<1>5. a \in 0 .. m - 1 /\ b \in 0 .. m - 1 /\ Same(s, h, m) /\ Same(a, c, m) /\ Same(b, f, m)
  BY <1>4, SameRefl
<1>6. Same(s * k, g, m)
  <2>1. PICK p \in Int, q \in Int, u \in Int, v \in Int : p = s * k /\ q = h * k /\ u = k * ki /\ v = u * g
    <3>1. PICK u \in Int : u = k * ki
      BY <1>1, <1>2
    <3>2. s * k \in Int /\ h * k \in Int /\ u * g \in Int
      BY <1>2
    <3> QED BY <3>1, <3>2
  <2>2. Same(p, q, m)
    BY <1>2, <1>5, <2>1, SameProduct
  <2>3. q = v
    BY <1>1, <1>2, <1>3, <2>1
  <2>4. Same(v, g, m)
    <3>1. PICK one \in Int : one = 1
      OBVIOUS
    <3>2. Same(u, one, m)
      BY <1>1, <2>1, <3>1
    <3>3. Same(u * g, one * g, m)
      BY <3>2, SameProduct
    <3>4. one * g = g
      BY <3>1
    <3> QED BY <2>1, <3>3, <3>4
  <2>5. Same(p, g, m)
    BY <2>2, <2>3, <2>4, SameTrans
  <2> QED BY <2>1, <2>5
<1>7. PICK p \in Int, o \in Int, n \in Int : p = s * k /\ o = p * ri /\ n = g * ri
  <2>1. PICK p \in Int : p = s * k
    BY <1>2
  <2>2. p * ri \in Int /\ g * ri \in Int
    BY <1>1
  <2> QED BY <2>1, <2>2
<1>8. Same(o, n, m)
  BY <1>1, <1>6, <1>7, SameProduct
<1>9. PICK t \in Int, w \in Int : t = b * k /\ w = t % m
  <2>1. b \in Int
    BY <1>5
  <2>2. PICK t \in Int : t = b * k
    BY <1>2, <2>1
  <2>3. t % m \in 0 .. m - 1
    BY SameRefl
  <2> QED BY <2>2, <2>3
<1>10. Same(w, n, m)
  <2>1. b \in Int
    BY <1>5
  <2>2. Same(w, t, m)
    BY <1>9, SameRefl
  <2>3. Same(t, f * k, m)
    BY <1>2, <1>5, <1>9, <2>1, SameProduct
  <2>4. f * k = o
    BY <1>1, <1>2, <1>3, <1>7
  <2>5. Same(t, o, m)
    BY <2>3, <2>4
  <2>6. Same(w, o, m)
    BY <2>2, <2>5, SameTrans
  <2> QED BY <1>8, <2>6, SameTrans
<1>11. PICK l \in Int, i \in Int, j \in Int : l = a + w /\ i = r * ri /\ j = i * e
  <2>1. a \in Int
    BY <1>5
  <2>2. PICK i \in Int : i = r * ri
    BY <1>1, <1>2
  <2>3. a + w \in Int /\ i * e \in Int
    BY <1>2, <2>1
  <2> QED BY <2>2, <2>3
<1>12. Same(l, j, m)
  <2>1. a \in Int
    BY <1>5
  <2>2. Same(a + w, c + n, m)
    BY <1>5, <1>10, <2>1, SameSum
  <2>3. c + n = j
    <3>1. c + n = -(z * ri) + (z + r * e) * ri
      BY <1>3, <1>7
    <3>2. -(z * ri) + (z + r * e) * ri = (r * ri) * e
      BY <1>1, <1>2
    <3> QED BY <1>11, <3>1, <3>2
  <2> QED BY <1>11, <2>2, <2>3
<1>13. Same(j, e, m)
  <2>1. PICK one \in Int : one = 1
    OBVIOUS
  <2>2. Same(i, one, m)
    BY <1>1, <1>11, <2>1
  <2>3. Same(i * e, one * e, m)
    BY <1>2, <2>2, SameProduct
  <2>4. one * e = e
    BY <1>2, <2>1
  <2> QED BY <1>11, <2>3, <2>4
<1>14. Same(l, e, m)
  BY <1>2, <1>12, <1>13, SameTrans
<1>15. l % m = e % m /\ e % m = e
  BY <1>2, <1>14, SameIs, SmallRemainder
<1> QED BY <1>5, <1>9, <1>11, <1>15

------------------------------------------------------------------------------
(* The recovered key. *)

(* What the curve's assumption says of a secp curve's fields.               *)
LEMMA SecpFields ==
  ASSUME NEW c \in {K1, R1}
  PROVE  /\ c.p \in Nat \ {0} /\ c.order \in Nat \ {0} /\ c.order > 4 /\ c.p % 2 = 1 /\ c.p < 2 * c.order
         /\ IsField(c.p) /\ IsField(c.order)
<1>1. c.p \in Nat /\ c.p > 4 /\ c.order \in Nat /\ c.order > 4
  BY CurveTypes
<1>2. c \in {K1, R1, C25519}
  OBVIOUS
<1>3. IsField(c.p) /\ IsField(c.order)
  BY <1>2, CurvesAssumption
<1>4. c.p % 2 = 1 /\ c.p < 2 * c.order
  BY CurvesAssumption
<1> QED BY <1>1, <1>3, <1>4

(* The x-coordinate and the parity in a recovery id tell one point.         *)
LEMMA OneCandidate ==
  ASSUME NEW c \in {K1, R1}, NEW X \in 0 .. c.p - 1, NEW Y \in 0 .. c.p - 1, OnWeierstrass(c, X, Y),
         NEW y \in 0 .. c.p - 1, OnWeierstrass(c, X, y), y % 2 = Y % 2
  PROVE  y = Y
<1>1. PICK m \in Nat \ {0} : m = c.p /\ IsField(m) /\ m % 2 = 1
  BY SecpFields
<1>2. (y * y) % m = (Y * Y) % m
  BY <1>1 DEF OnWeierstrass
<1>3. y \in 0 .. m - 1 /\ Y \in 0 .. m - 1
  BY <1>1
<1> QED BY <1>1, <1>2, <1>3, OneRoot

(* The candidate's x-coordinate is the one the recovery id was computed     *)
(* from.                                                                    *)
NonceId(n, X, b, r, id) == r = X % n /\ id = IF X >= n THEN 2 + b ELSE b

(* The recovery id tells the x-coordinate of the nonce's point from its
   residue. *)
LEMMA CandidateX ==
  ASSUME NEW n \in Nat \ {0}, n > 1, NEW X \in Nat, X < 2 * n, NEW b \in 0 .. 1, NEW r, NEW id,
         NonceId(n, X, b, r, id)
  PROVE  X = (IF id >= 2 THEN r + n ELSE r) /\ id % 2 = b
<1> r = X % n /\ id = IF X >= n THEN 2 + b ELSE b
  BY DEF NonceId
<1>1. CASE X >= n
  <2>1. X - n \in 0 .. n - 1 /\ X \in Int
    BY <1>1
  <2>2. PICK d \in 0 .. n - 1, one \in Int : d = X - n /\ one = 1
    BY <2>1
  <2>3. X = one * n + d
    BY <2>1, <2>2
  <2>4. r = d
    BY <2>1, <2>2, <2>3, RemainderIs
  <2> QED BY <1>1, <2>1, <2>2, <2>4
<1>2. CASE X < n
  <2>1. r = X
    BY <1>2, SmallRemainder
  <2> QED BY <1>2, <2>1
<1> QED BY <1>1, <1>2

(* The candidate of a signature is the nonce's point.                       *)
LEMMA CandidateIs ==
  ASSUME NEW X \in 0 .. K1.p - 1, NEW Y \in 0 .. K1.p - 1, OnWeierstrass(K1, X, Y),
         NEW r, r = X % K1.order, NEW id, id = (IF X >= K1.order THEN 2 ELSE 0) + (Y % 2),
         NEW R \in Secp256k1!Candidates(r, id)
  PROVE  R = Lift(X, Y)
<1>1. PICK c \in {K1, R1} : c = K1
  OBVIOUS
<1>2. PICK n \in Nat \ {0} : n = c.order /\ n > 1 /\ c.p \in Nat /\ c.p < 2 * n
  BY SecpFields
<1>3. X \in Nat /\ X < 2 * n /\ Y \in Int
  BY <1>1, <1>2
<1>4. PICK b \in 0 .. 1 : b = Y % 2
  BY <1>3
<1>5. X = (IF id >= 2 THEN r + n ELSE r) /\ id % 2 = b
  <2>1. NonceId(n, X, b, r, id)
    BY <1>1, <1>2, <1>4 DEF NonceId
  <2> QED BY <1>2, <1>3, <2>1, CandidateX
<1>6. PICK y \in 0 .. c.p - 1 : R = Lift(X, y) /\ OnWeierstrass(c, X, R[2]) /\ R[2] % 2 = b
  <2>1. PICK x : x = IF id >= 2 THEN r + K1.order ELSE r
    OBVIOUS
  <2>2. /\ R \in {Secp256k1!Lift(x, y) : y \in 0 .. K1.p - 1}
        /\ Secp256k1!OnWeierstrass(K1, x, R[2]) /\ R[2] % 2 = id % 2
    BY <2>1 DEF Secp256k1!Candidates
  <2>3. PICK y \in 0 .. K1.p - 1 : R = Secp256k1!Lift(x, y)
    BY <2>2
  <2>4. x = X
    BY <1>1, <1>2, <1>5, <2>1
  <2>5. R = Lift(X, y) /\ OnWeierstrass(K1, X, R[2])
    BY <2>2, <2>3, <2>4, Secp256k1Groups
  <2> QED BY <1>1, <1>5, <2>2, <2>5
<1>7. R[2] = y
  BY <1>6 DEF Lift
<1>8. OnWeierstrass(c, X, y) /\ y % 2 = Y % 2
  BY <1>4, <1>6, <1>7
<1>9. y = Y
  BY <1>1, <1>8, OneCandidate
<1> QED BY <1>6, <1>9

(* A recovered key is the signing key's multiple of the generator.          *)
LEMMA RecoveredKey ==
  ASSUME NEW key \in 1 .. K1.order - 1, NEW nonce \in 1 .. K1.order - 1, NEW z \in Int, NEW h,
         NEW R, R = Multiple("Secp256k1Point", nonce), NEW r, r = R.x % K1.order,
         NEW s, s = (InverseMod(nonce, K1.order) * (z + r * key)) % K1.order,
         NEW id, id = (IF R.x >= K1.order THEN 2 ELSE 0) + (R.y % 2),
         Secp256k1!CanRecover(h, r, s, id)
  PROVE  StandsFor(K1, Secp256k1!EcdsaRecover(z, r, s, id), key)
<1>1. PICK c \in {K1, R1} : c = K1
  OBVIOUS
<1>2. PICK n \in Nat \ {0} : n = c.order /\ n > 4 /\ IsField(n)
  BY SecpFields
<1>3. key \in 1 .. n - 1 /\ nonce \in 1 .. n - 1 /\ key \in 0 .. n - 1 /\ nonce \in 0 .. n - 1
  BY <1>1, <1>2
<1>4. PICK P \in WeierstrassPoints(c) : P = WMul(c, nonce)
  BY <1>2, <1>3, SecpGroup
<1>5. PICK X \in 0 .. c.p - 1, Y \in 0 .. c.p - 1 :
         P = Lift(X, Y) /\ OnWeierstrass(c, X, Y) /\ ToAffine(P) = <<X, Y>>
  BY SecpPoint
<1>6. R.x = X /\ R.y = Y
  <2>1. Order["Secp256k1Point"] = n /\ "Secp256k1Point" \in PointKinds
    BY <1>1, <1>2, Orders DEF PointKinds, Order
  <2>2. nonce \in 0 .. Order["Secp256k1Point"] - 1
    BY <1>3, <2>1
  <2>3. R = Flagged(WMul(K1, nonce))
    BY <2>1, <2>2, MultiplesAre
  <2> QED BY <1>1, <1>4, <1>5, <2>3 DEF Flagged
<1>7. r \in 1 .. n - 1 /\ Secp256k1!Candidates(r, id) # {}
  BY <1>1, <1>2 DEF Secp256k1!CanRecover
<1>8. PICK C \in Secp256k1!Candidates(r, id) : C = CHOOSE d \in Secp256k1!Candidates(r, id) : TRUE
  BY <1>7
<1>9. C = P
  <2>1. r = X % K1.order /\ id = (IF X >= K1.order THEN 2 ELSE 0) + (Y % 2)
    BY <1>6
  <2>2. C = Lift(X, Y)
    BY <1>1, <1>5, <2>1, CandidateIs
  <2> QED BY <1>5, <2>2
<1>10. PICK ri : ri = InverseMod(r, n)
  OBVIOUS
<1>11. PICK ki : ki = InverseMod(nonce, n)
  OBVIOUS
<1>12. PICK a, b : a = (-(z * ri)) % n /\ b = (s * ri) % n
  OBVIOUS
<1>13. s \in Int
  <2>1. ki \in Int
    BY <1>2, <1>3, <1>11, InverseSame
  <2>2. PICK g \in Int : g = ki * (z + r * key)
    BY <1>3, <1>7, <2>1
  <2>3. s = g % n
    BY <1>1, <1>2, <1>11, <2>2
  <2> QED BY <2>3
<1>14. a \in 0 .. n - 1 /\ b \in 0 .. n - 1 /\ (a + ((b * nonce) % n)) % n = key
  <2>1. s = (ki * (z + r * key)) % n
    BY <1>1, <1>2, <1>11
  <2>2. n \in Nat \ {0} /\ IsField(n) /\ nonce \in 1 .. n - 1 /\ key \in 0 .. n - 1 /\ r \in 1 .. n - 1
    BY <1>2, <1>3, <1>7
  <2>3. Recovery(n, nonce, key, z, r, s, ki, ri, a, b)
    BY <1>10, <1>11, <1>12, <1>13, <2>1, <2>2 DEF Recovery
  <2> QED BY <2>2, <2>3, RecoveredScalar
<1>15. PICK v \in 0 .. n - 1 : v = (b * nonce) % n
  <2>1. b * nonce \in Int
    BY <1>3, <1>14
  <2> QED BY <2>1
<1>16. WeierstrassTimes(c, b, P) = WMul(c, v)
  BY <1>2, <1>3, <1>4, <1>14, <1>15, SecpTimes
<1>17. WeierstrassPlus(c, WMul(c, a), WMul(c, v)) = WMul(c, key)
  <2>1. WeierstrassPlus(c, WMul(c, a), WMul(c, v)) = WMul(c, (a + v) % c.order)
    BY <1>2, <1>14, SecpGroup
  <2> QED BY <1>2, <1>14, <1>15, <2>1
<1>18. Secp256k1!EcdsaRecover(z, r, s, id) = WFrom(WMul(c, key))
  <2>1. Secp256k1!InverseMod(r, K1.order) = ri
    BY <1>1, <1>2, <1>10, Secp256k1Groups
  <2>2. (-(z * Secp256k1!InverseMod(r, K1.order))) % K1.order = a
    BY <1>1, <1>2, <1>12, <2>1
  <2>3. (s * Secp256k1!InverseMod(r, K1.order)) % K1.order = b
    BY <1>1, <1>2, <1>12, <2>1
  <2>4. Secp256k1!EcdsaRecover(z, r, s, id) =
          Secp256k1!FromProjective(Secp256k1!WeierstrassPlus(K1,
            Secp256k1!WeierstrassTimes(K1, a, Secp256k1!Lift(K1.gen[1], K1.gen[2])),
            Secp256k1!WeierstrassTimes(K1, b, C)))
    BY <1>8, <2>2, <2>3 DEF Secp256k1!EcdsaRecover
  <2>5. Secp256k1!WeierstrassTimes(K1, a, Secp256k1!Lift(K1.gen[1], K1.gen[2])) = WMul(c, a)
    BY <1>1, Secp256k1Groups DEF WMul
  <2>6. Secp256k1!WeierstrassTimes(K1, b, C) = WMul(c, v)
    BY <1>1, <1>9, <1>16, Secp256k1Groups
  <2>7. Secp256k1!WeierstrassPlus(K1, WMul(c, a), WMul(c, v)) = WMul(c, key)
    BY <1>1, <1>17, Secp256k1Groups
  <2> QED BY <2>4, <2>5, <2>6, <2>7, Secp256k1BuiltIns
<1> QED BY <1>1, <1>2, <1>3, <1>18, StandsFromProjective

------------------------------------------------------------------------------
(* The arithmetic of the fields. *)

(* A comparison brings sums and differences of operands in range back into  *)
(* range, as a remainder would.                                             *)
LEMMA ComparisonReduces ==
  ASSUME NEW m \in Nat \ {0}, NEW x \in 0 .. m - 1, NEW y \in 0 .. m - 1
  PROVE  /\ (x + y) % m = IF x + y < m THEN x + y ELSE x + y - m
         /\ (x - y) % m = IF x - y >= 0 THEN x - y ELSE x - y + m
<1>1. x \in Int /\ y \in Int
  OBVIOUS
<1>2. PICK s \in Int, d \in Int, one \in Int, less \in Int : s = x + y /\ d = x - y /\ one = 1 /\ less = -1
  BY <1>1
<1>3. CASE s < m
  <2>1. s \in 0 .. m - 1
    BY <1>2, <1>3
  <2>2. s % m = s
    BY <2>1, SmallRemainder
  <2> QED BY <1>2, <1>3, <2>2
<1>4. CASE ~(s < m)
  <2>1. PICK r \in 0 .. m - 1 : r = s - m
    BY <1>2, <1>4
  <2>2. s = one * m + r
    BY <1>2, <2>1
  <2>3. s % m = r
    BY <2>2, RemainderIs
  <2> QED BY <1>2, <1>4, <2>1, <2>3
<1>5. CASE d >= 0
  <2>1. d \in 0 .. m - 1
    BY <1>2, <1>5
  <2>2. d % m = d
    BY <2>1, SmallRemainder
  <2> QED BY <1>2, <1>5, <2>2
<1>6. CASE ~(d >= 0)
  <2>1. PICK r \in 0 .. m - 1 : r = d + m
    BY <1>2, <1>6
  <2>2. d = less * m + r
    BY <1>2, <2>1
  <2>3. d % m = r
    BY <2>2, RemainderIs
  <2> QED BY <1>2, <1>6, <2>1, <2>3
<1>7. (x + y) % m = IF x + y < m THEN x + y ELSE x + y - m
  BY <1>2, <1>3, <1>4
<1>8. (x - y) % m = IF x - y >= 0 THEN x - y ELSE x - y + m
  BY <1>2, <1>5, <1>6
<1> QED BY <1>7, <1>8

(* So does the negation.                                                    *)
LEMMA NegationReduces ==
  ASSUME NEW m \in Nat \ {0}, NEW x \in 0 .. m - 1
  PROVE  (-x) % m = IF x = 0 THEN x ELSE m - x
<1>1. PICK z \in 0 .. m - 1 : z = 0
  OBVIOUS
<1>2. (z - x) % m = IF z - x >= 0 THEN z - x ELSE z - x + m
  BY ComparisonReduces
<1>3. x \in Int /\ z - x = -x
  BY <1>1
<1> QED BY <1>1, <1>2, <1>3

(* A remainder is in range.                                                 *)
LEMMA ResidueInRange ==
  ASSUME NEW m \in Nat \ {0}, NEW x \in Int
  PROVE  x % m \in 0 .. m - 1
BY SameRefl

(* Sums, differences and products of the instance Native.                   *)
LEMMA NativeReduces ==
  ASSUME NEW x \in 0 .. Modulus["Field"] - 1, NEW y \in 0 .. Modulus["Field"] - 1
  PROVE  /\ Native!Add(x, y) = (x + y) % Modulus["Field"]
         /\ Native!Sub(x, y) = (x - y) % Modulus["Field"]
         /\ Native!Mul(x, y) = (x * y) % Modulus["Field"]
<1>1. "Field" \in NumberKinds /\ Modulus["Field"] = FIELD_MODULUS
  BY DEF NumberKinds, Modulus
<1>2. PICK m \in Nat \ {0} : m = FIELD_MODULUS
  BY <1>1, ModulusType
<1>3. x \in 0 .. m - 1 /\ y \in 0 .. m - 1
  BY <1>1, <1>2
<1>4. /\ (x + y) % m = IF x + y < m THEN x + y ELSE x + y - m
      /\ (x - y) % m = IF x - y >= 0 THEN x - y ELSE x - y + m
  BY <1>3, ComparisonReduces
<1>5. /\ Native!Add(x, y) = IF x + y < m THEN x + y ELSE x + y - m
      /\ Native!Sub(x, y) = IF x - y >= 0 THEN x - y ELSE x - y + m
      /\ Native!Mul(x, y) = (x * y) % m
  BY <1>2 DEF Native!Add, Native!Sub, Native!Mul
<1> QED BY <1>1, <1>2, <1>4, <1>5

(* Sums, differences and products of the instance Secp256k1Base.            *)
LEMMA Secp256k1BaseReduces ==
  ASSUME NEW x \in 0 .. Modulus["Secp256k1Base"] - 1, NEW y \in 0 .. Modulus["Secp256k1Base"] - 1
  PROVE  /\ Secp256k1Base!Add(x, y) = (x + y) % Modulus["Secp256k1Base"]
         /\ Secp256k1Base!Sub(x, y) = (x - y) % Modulus["Secp256k1Base"]
         /\ Secp256k1Base!Mul(x, y) = (x * y) % Modulus["Secp256k1Base"]
<1>1. "Secp256k1Base" \in NumberKinds /\ Modulus["Secp256k1Base"] = SECP256K1_BASE_MODULUS
  BY DEF NumberKinds, Modulus
<1>2. PICK m \in Nat \ {0} : m = SECP256K1_BASE_MODULUS
  BY <1>1, ModulusType
<1>3. x \in 0 .. m - 1 /\ y \in 0 .. m - 1
  BY <1>1, <1>2
<1>4. /\ (x + y) % m = IF x + y < m THEN x + y ELSE x + y - m
      /\ (x - y) % m = IF x - y >= 0 THEN x - y ELSE x - y + m
  BY <1>3, ComparisonReduces
<1>5. /\ Secp256k1Base!Add(x, y) = IF x + y < m THEN x + y ELSE x + y - m
      /\ Secp256k1Base!Sub(x, y) = IF x - y >= 0 THEN x - y ELSE x - y + m
      /\ Secp256k1Base!Mul(x, y) = (x * y) % m
  BY <1>2 DEF Secp256k1Base!Add, Secp256k1Base!Sub, Secp256k1Base!Mul
<1> QED BY <1>1, <1>2, <1>4, <1>5

(* Negation and inverse of the instance Secp256k1Base.                      *)
LEMMA Secp256k1BaseInverts ==
  ASSUME NEW x \in 0 .. Modulus["Secp256k1Base"] - 1
  PROVE  /\ Secp256k1Base!Neg(x) = (-x) % Modulus["Secp256k1Base"]
         /\ x # 0 => /\ Secp256k1Base!Inv(x) = InverseMod(x, Modulus["Secp256k1Base"])
                      /\ InverseMod(x, Modulus["Secp256k1Base"]) \in 0 .. Modulus["Secp256k1Base"] - 1
<1>1. "Secp256k1Base" \in NumberKinds /\ Modulus["Secp256k1Base"] = SECP256K1_BASE_MODULUS
  BY DEF NumberKinds, Modulus
<1>2. PICK m \in Nat \ {0} : m = SECP256K1_BASE_MODULUS
  BY <1>1, ModulusType
<1>3. x \in 0 .. m - 1
  BY <1>1, <1>2
<1>4. (-x) % m = Secp256k1Base!Neg(x)
  BY <1>2, <1>3, NegationReduces DEF Secp256k1Base!Neg
<1>5. IsField(m)
  BY <1>2, CurvesAssumption DEF SECP256K1_BASE_MODULUS
<1>6. ASSUME x # 0 PROVE Secp256k1Base!Inv(x) = InverseMod(x, m) /\ InverseMod(x, m) \in 0 .. m - 1
  <2>1. x \in 1 .. m - 1
    BY <1>3, <1>6
  <2>2. InverseMod(x, m) \in 1 .. m - 1
    BY <1>5, <2>1, InverseFacts
  <2>3. Secp256k1Base!Inv(x) = InverseMod(x, m)
    BY <1>2 DEF Secp256k1Base!Inv, InverseMod
  <2> QED BY <2>2, <2>3
<1> QED BY <1>1, <1>2, <1>4, <1>6

(* Sums, differences and products of the instance Secp256k1Scalar.          *)
LEMMA Secp256k1ScalarReduces ==
  ASSUME NEW x \in 0 .. Modulus["Secp256k1Scalar"] - 1, NEW y \in 0 .. Modulus["Secp256k1Scalar"] - 1
  PROVE  /\ Secp256k1Scalar!Add(x, y) = (x + y) % Modulus["Secp256k1Scalar"]
         /\ Secp256k1Scalar!Sub(x, y) = (x - y) % Modulus["Secp256k1Scalar"]
         /\ Secp256k1Scalar!Mul(x, y) = (x * y) % Modulus["Secp256k1Scalar"]
<1>1. "Secp256k1Scalar" \in NumberKinds /\ Modulus["Secp256k1Scalar"] = SECP256K1_SCALAR_MODULUS
  BY DEF NumberKinds, Modulus
<1>2. PICK m \in Nat \ {0} : m = SECP256K1_SCALAR_MODULUS
  BY <1>1, ModulusType
<1>3. x \in 0 .. m - 1 /\ y \in 0 .. m - 1
  BY <1>1, <1>2
<1>4. /\ (x + y) % m = IF x + y < m THEN x + y ELSE x + y - m
      /\ (x - y) % m = IF x - y >= 0 THEN x - y ELSE x - y + m
  BY <1>3, ComparisonReduces
<1>5. /\ Secp256k1Scalar!Add(x, y) = IF x + y < m THEN x + y ELSE x + y - m
      /\ Secp256k1Scalar!Sub(x, y) = IF x - y >= 0 THEN x - y ELSE x - y + m
      /\ Secp256k1Scalar!Mul(x, y) = (x * y) % m
  BY <1>2 DEF Secp256k1Scalar!Add, Secp256k1Scalar!Sub, Secp256k1Scalar!Mul
<1> QED BY <1>1, <1>2, <1>4, <1>5

(* Negation and inverse of the instance Secp256k1Scalar.                    *)
LEMMA Secp256k1ScalarInverts ==
  ASSUME NEW x \in 0 .. Modulus["Secp256k1Scalar"] - 1
  PROVE  /\ Secp256k1Scalar!Neg(x) = (-x) % Modulus["Secp256k1Scalar"]
         /\ x # 0 => /\ Secp256k1Scalar!Inv(x) = InverseMod(x, Modulus["Secp256k1Scalar"])
                      /\ InverseMod(x, Modulus["Secp256k1Scalar"]) \in 0 .. Modulus["Secp256k1Scalar"] - 1
<1>1. "Secp256k1Scalar" \in NumberKinds /\ Modulus["Secp256k1Scalar"] = SECP256K1_SCALAR_MODULUS
  BY DEF NumberKinds, Modulus
<1>2. PICK m \in Nat \ {0} : m = SECP256K1_SCALAR_MODULUS
  BY <1>1, ModulusType
<1>3. x \in 0 .. m - 1
  BY <1>1, <1>2
<1>4. (-x) % m = Secp256k1Scalar!Neg(x)
  BY <1>2, <1>3, NegationReduces DEF Secp256k1Scalar!Neg
<1>5. IsField(m)
  BY <1>2, CurvesAssumption DEF SECP256K1_SCALAR_MODULUS
<1>6. ASSUME x # 0 PROVE Secp256k1Scalar!Inv(x) = InverseMod(x, m) /\ InverseMod(x, m) \in 0 .. m - 1
  <2>1. x \in 1 .. m - 1
    BY <1>3, <1>6
  <2>2. InverseMod(x, m) \in 1 .. m - 1
    BY <1>5, <2>1, InverseFacts
  <2>3. Secp256k1Scalar!Inv(x) = InverseMod(x, m)
    BY <1>2 DEF Secp256k1Scalar!Inv, InverseMod
  <2> QED BY <2>2, <2>3
<1> QED BY <1>1, <1>2, <1>4, <1>6

(* Sums, differences and products of the instance Secp256r1Base.            *)
LEMMA Secp256r1BaseReduces ==
  ASSUME NEW x \in 0 .. Modulus["Secp256r1Base"] - 1, NEW y \in 0 .. Modulus["Secp256r1Base"] - 1
  PROVE  /\ Secp256r1Base!Add(x, y) = (x + y) % Modulus["Secp256r1Base"]
         /\ Secp256r1Base!Sub(x, y) = (x - y) % Modulus["Secp256r1Base"]
         /\ Secp256r1Base!Mul(x, y) = (x * y) % Modulus["Secp256r1Base"]
<1>1. "Secp256r1Base" \in NumberKinds /\ Modulus["Secp256r1Base"] = SECP256R1_BASE_MODULUS
  BY DEF NumberKinds, Modulus
<1>2. PICK m \in Nat \ {0} : m = SECP256R1_BASE_MODULUS
  BY <1>1, ModulusType
<1>3. x \in 0 .. m - 1 /\ y \in 0 .. m - 1
  BY <1>1, <1>2
<1>4. /\ (x + y) % m = IF x + y < m THEN x + y ELSE x + y - m
      /\ (x - y) % m = IF x - y >= 0 THEN x - y ELSE x - y + m
  BY <1>3, ComparisonReduces
<1>5. /\ Secp256r1Base!Add(x, y) = IF x + y < m THEN x + y ELSE x + y - m
      /\ Secp256r1Base!Sub(x, y) = IF x - y >= 0 THEN x - y ELSE x - y + m
      /\ Secp256r1Base!Mul(x, y) = (x * y) % m
  BY <1>2 DEF Secp256r1Base!Add, Secp256r1Base!Sub, Secp256r1Base!Mul
<1> QED BY <1>1, <1>2, <1>4, <1>5

(* Negation and inverse of the instance Secp256r1Base.                      *)
LEMMA Secp256r1BaseInverts ==
  ASSUME NEW x \in 0 .. Modulus["Secp256r1Base"] - 1
  PROVE  /\ Secp256r1Base!Neg(x) = (-x) % Modulus["Secp256r1Base"]
         /\ x # 0 => /\ Secp256r1Base!Inv(x) = InverseMod(x, Modulus["Secp256r1Base"])
                      /\ InverseMod(x, Modulus["Secp256r1Base"]) \in 0 .. Modulus["Secp256r1Base"] - 1
<1>1. "Secp256r1Base" \in NumberKinds /\ Modulus["Secp256r1Base"] = SECP256R1_BASE_MODULUS
  BY DEF NumberKinds, Modulus
<1>2. PICK m \in Nat \ {0} : m = SECP256R1_BASE_MODULUS
  BY <1>1, ModulusType
<1>3. x \in 0 .. m - 1
  BY <1>1, <1>2
<1>4. (-x) % m = Secp256r1Base!Neg(x)
  BY <1>2, <1>3, NegationReduces DEF Secp256r1Base!Neg
<1>5. IsField(m)
  BY <1>2, CurvesAssumption DEF SECP256R1_BASE_MODULUS
<1>6. ASSUME x # 0 PROVE Secp256r1Base!Inv(x) = InverseMod(x, m) /\ InverseMod(x, m) \in 0 .. m - 1
  <2>1. x \in 1 .. m - 1
    BY <1>3, <1>6
  <2>2. InverseMod(x, m) \in 1 .. m - 1
    BY <1>5, <2>1, InverseFacts
  <2>3. Secp256r1Base!Inv(x) = InverseMod(x, m)
    BY <1>2 DEF Secp256r1Base!Inv, InverseMod
  <2> QED BY <2>2, <2>3
<1> QED BY <1>1, <1>2, <1>4, <1>6

(* Sums, differences and products of the instance Secp256r1Scalar.          *)
LEMMA Secp256r1ScalarReduces ==
  ASSUME NEW x \in 0 .. Modulus["Secp256r1Scalar"] - 1, NEW y \in 0 .. Modulus["Secp256r1Scalar"] - 1
  PROVE  /\ Secp256r1Scalar!Add(x, y) = (x + y) % Modulus["Secp256r1Scalar"]
         /\ Secp256r1Scalar!Sub(x, y) = (x - y) % Modulus["Secp256r1Scalar"]
         /\ Secp256r1Scalar!Mul(x, y) = (x * y) % Modulus["Secp256r1Scalar"]
<1>1. "Secp256r1Scalar" \in NumberKinds /\ Modulus["Secp256r1Scalar"] = SECP256R1_SCALAR_MODULUS
  BY DEF NumberKinds, Modulus
<1>2. PICK m \in Nat \ {0} : m = SECP256R1_SCALAR_MODULUS
  BY <1>1, ModulusType
<1>3. x \in 0 .. m - 1 /\ y \in 0 .. m - 1
  BY <1>1, <1>2
<1>4. /\ (x + y) % m = IF x + y < m THEN x + y ELSE x + y - m
      /\ (x - y) % m = IF x - y >= 0 THEN x - y ELSE x - y + m
  BY <1>3, ComparisonReduces
<1>5. /\ Secp256r1Scalar!Add(x, y) = IF x + y < m THEN x + y ELSE x + y - m
      /\ Secp256r1Scalar!Sub(x, y) = IF x - y >= 0 THEN x - y ELSE x - y + m
      /\ Secp256r1Scalar!Mul(x, y) = (x * y) % m
  BY <1>2 DEF Secp256r1Scalar!Add, Secp256r1Scalar!Sub, Secp256r1Scalar!Mul
<1> QED BY <1>1, <1>2, <1>4, <1>5

(* Negation and inverse of the instance Secp256r1Scalar.                    *)
LEMMA Secp256r1ScalarInverts ==
  ASSUME NEW x \in 0 .. Modulus["Secp256r1Scalar"] - 1
  PROVE  /\ Secp256r1Scalar!Neg(x) = (-x) % Modulus["Secp256r1Scalar"]
         /\ x # 0 => /\ Secp256r1Scalar!Inv(x) = InverseMod(x, Modulus["Secp256r1Scalar"])
                      /\ InverseMod(x, Modulus["Secp256r1Scalar"]) \in 0 .. Modulus["Secp256r1Scalar"] - 1
<1>1. "Secp256r1Scalar" \in NumberKinds /\ Modulus["Secp256r1Scalar"] = SECP256R1_SCALAR_MODULUS
  BY DEF NumberKinds, Modulus
<1>2. PICK m \in Nat \ {0} : m = SECP256R1_SCALAR_MODULUS
  BY <1>1, ModulusType
<1>3. x \in 0 .. m - 1
  BY <1>1, <1>2
<1>4. (-x) % m = Secp256r1Scalar!Neg(x)
  BY <1>2, <1>3, NegationReduces DEF Secp256r1Scalar!Neg
<1>5. IsField(m)
  BY <1>2, CurvesAssumption DEF SECP256R1_SCALAR_MODULUS
<1>6. ASSUME x # 0 PROVE Secp256r1Scalar!Inv(x) = InverseMod(x, m) /\ InverseMod(x, m) \in 0 .. m - 1
  <2>1. x \in 1 .. m - 1
    BY <1>3, <1>6
  <2>2. InverseMod(x, m) \in 1 .. m - 1
    BY <1>5, <2>1, InverseFacts
  <2>3. Secp256r1Scalar!Inv(x) = InverseMod(x, m)
    BY <1>2 DEF Secp256r1Scalar!Inv, InverseMod
  <2> QED BY <2>2, <2>3
<1> QED BY <1>1, <1>2, <1>4, <1>6

(* Sums, differences and products of the instance Curve25519Base.           *)
LEMMA Curve25519BaseReduces ==
  ASSUME NEW x \in 0 .. Modulus["Curve25519Base"] - 1, NEW y \in 0 .. Modulus["Curve25519Base"] - 1
  PROVE  /\ Curve25519Base!Add(x, y) = (x + y) % Modulus["Curve25519Base"]
         /\ Curve25519Base!Sub(x, y) = (x - y) % Modulus["Curve25519Base"]
         /\ Curve25519Base!Mul(x, y) = (x * y) % Modulus["Curve25519Base"]
<1>1. "Curve25519Base" \in NumberKinds /\ Modulus["Curve25519Base"] = CURVE25519_BASE_MODULUS
  BY DEF NumberKinds, Modulus
<1>2. PICK m \in Nat \ {0} : m = CURVE25519_BASE_MODULUS
  BY <1>1, ModulusType
<1>3. x \in 0 .. m - 1 /\ y \in 0 .. m - 1
  BY <1>1, <1>2
<1>4. /\ (x + y) % m = IF x + y < m THEN x + y ELSE x + y - m
      /\ (x - y) % m = IF x - y >= 0 THEN x - y ELSE x - y + m
  BY <1>3, ComparisonReduces
<1>5. /\ Curve25519Base!Add(x, y) = IF x + y < m THEN x + y ELSE x + y - m
      /\ Curve25519Base!Sub(x, y) = IF x - y >= 0 THEN x - y ELSE x - y + m
      /\ Curve25519Base!Mul(x, y) = (x * y) % m
  BY <1>2 DEF Curve25519Base!Add, Curve25519Base!Sub, Curve25519Base!Mul
<1> QED BY <1>1, <1>2, <1>4, <1>5

(* Negation and inverse of the instance Curve25519Base.                     *)
LEMMA Curve25519BaseInverts ==
  ASSUME NEW x \in 0 .. Modulus["Curve25519Base"] - 1
  PROVE  /\ Curve25519Base!Neg(x) = (-x) % Modulus["Curve25519Base"]
         /\ x # 0 => /\ Curve25519Base!Inv(x) = InverseMod(x, Modulus["Curve25519Base"])
                      /\ InverseMod(x, Modulus["Curve25519Base"]) \in 0 .. Modulus["Curve25519Base"] - 1
<1>1. "Curve25519Base" \in NumberKinds /\ Modulus["Curve25519Base"] = CURVE25519_BASE_MODULUS
  BY DEF NumberKinds, Modulus
<1>2. PICK m \in Nat \ {0} : m = CURVE25519_BASE_MODULUS
  BY <1>1, ModulusType
<1>3. x \in 0 .. m - 1
  BY <1>1, <1>2
<1>4. (-x) % m = Curve25519Base!Neg(x)
  BY <1>2, <1>3, NegationReduces DEF Curve25519Base!Neg
<1>5. IsField(m)
  BY <1>2, CurvesAssumption DEF CURVE25519_BASE_MODULUS
<1>6. ASSUME x # 0 PROVE Curve25519Base!Inv(x) = InverseMod(x, m) /\ InverseMod(x, m) \in 0 .. m - 1
  <2>1. x \in 1 .. m - 1
    BY <1>3, <1>6
  <2>2. InverseMod(x, m) \in 1 .. m - 1
    BY <1>5, <2>1, InverseFacts
  <2>3. Curve25519Base!Inv(x) = InverseMod(x, m)
    BY <1>2 DEF Curve25519Base!Inv, InverseMod
  <2> QED BY <2>2, <2>3
<1> QED BY <1>1, <1>2, <1>4, <1>6

(* Sums, differences and products of the instance Curve25519Scalar.         *)
LEMMA Curve25519ScalarReduces ==
  ASSUME NEW x \in 0 .. Modulus["Curve25519Scalar"] - 1, NEW y \in 0 .. Modulus["Curve25519Scalar"] - 1
  PROVE  /\ Curve25519Scalar!Add(x, y) = (x + y) % Modulus["Curve25519Scalar"]
         /\ Curve25519Scalar!Sub(x, y) = (x - y) % Modulus["Curve25519Scalar"]
         /\ Curve25519Scalar!Mul(x, y) = (x * y) % Modulus["Curve25519Scalar"]
<1>1. "Curve25519Scalar" \in NumberKinds /\ Modulus["Curve25519Scalar"] = CURVE25519_SCALAR_MODULUS
  BY DEF NumberKinds, Modulus
<1>2. PICK m \in Nat \ {0} : m = CURVE25519_SCALAR_MODULUS
  BY <1>1, ModulusType
<1>3. x \in 0 .. m - 1 /\ y \in 0 .. m - 1
  BY <1>1, <1>2
<1>4. /\ (x + y) % m = IF x + y < m THEN x + y ELSE x + y - m
      /\ (x - y) % m = IF x - y >= 0 THEN x - y ELSE x - y + m
  BY <1>3, ComparisonReduces
<1>5. /\ Curve25519Scalar!Add(x, y) = IF x + y < m THEN x + y ELSE x + y - m
      /\ Curve25519Scalar!Sub(x, y) = IF x - y >= 0 THEN x - y ELSE x - y + m
      /\ Curve25519Scalar!Mul(x, y) = (x * y) % m
  BY <1>2 DEF Curve25519Scalar!Add, Curve25519Scalar!Sub, Curve25519Scalar!Mul
<1> QED BY <1>1, <1>2, <1>4, <1>5

(* Negation and inverse of the instance Curve25519Scalar.                   *)
LEMMA Curve25519ScalarInverts ==
  ASSUME NEW x \in 0 .. Modulus["Curve25519Scalar"] - 1
  PROVE  /\ Curve25519Scalar!Neg(x) = (-x) % Modulus["Curve25519Scalar"]
         /\ x # 0 => /\ Curve25519Scalar!Inv(x) = InverseMod(x, Modulus["Curve25519Scalar"])
                      /\ InverseMod(x, Modulus["Curve25519Scalar"]) \in 0 .. Modulus["Curve25519Scalar"] - 1
<1>1. "Curve25519Scalar" \in NumberKinds /\ Modulus["Curve25519Scalar"] = CURVE25519_SCALAR_MODULUS
  BY DEF NumberKinds, Modulus
<1>2. PICK m \in Nat \ {0} : m = CURVE25519_SCALAR_MODULUS
  BY <1>1, ModulusType
<1>3. x \in 0 .. m - 1
  BY <1>1, <1>2
<1>4. (-x) % m = Curve25519Scalar!Neg(x)
  BY <1>2, <1>3, NegationReduces DEF Curve25519Scalar!Neg
<1>5. IsField(m)
  BY <1>2, CurvesAssumption DEF CURVE25519_SCALAR_MODULUS
<1>6. ASSUME x # 0 PROVE Curve25519Scalar!Inv(x) = InverseMod(x, m) /\ InverseMod(x, m) \in 0 .. m - 1
  <2>1. x \in 1 .. m - 1
    BY <1>3, <1>6
  <2>2. InverseMod(x, m) \in 1 .. m - 1
    BY <1>5, <2>1, InverseFacts
  <2>3. Curve25519Scalar!Inv(x) = InverseMod(x, m)
    BY <1>2 DEF Curve25519Scalar!Inv, InverseMod
  <2> QED BY <2>2, <2>3
<1> QED BY <1>1, <1>2, <1>4, <1>6

------------------------------------------------------------------------------
(* No encoder refuses a value of its type. *)

(* The encoders accept every value of their type.                           *)
LEMMA AtomicAccepted ==
  ASSUME NEW t, IsAtomic(t), NEW x \in AtomicRange(t)
  PROVE  AtomicAccepts(t, x)
<1>1. CASE t.tag = "Field"
  <2>1. x \in 0 .. MAX_FIELD
    BY <1>1 DEF AtomicRange
  <2>2. 0 <= x /\ x <= MAX_FIELD
    BY <2>1, ConstantTypes
  <2> QED BY <1>1, <2>2 DEF AtomicAccepts
<1>2. CASE t.tag \in {"Foreign", "Enum", "Uint"}
  <2>1. t.max \in Nat
    BY <1>2 DEF IsAtomic, IsForeign, IsUint
  <2>2. x \in 0 .. t.max
    BY <1>2 DEF AtomicRange
  <2>3. 0 <= x /\ x <= t.max
    BY <2>1, <2>2
  <2> QED BY <1>2, <2>3 DEF AtomicAccepts
<1>3. CASE t.tag = "Bytes"
  <2>1. PICK n \in Nat : n = t.length
    BY <1>3 DEF IsAtomic, IsForeign
  <2>2. x \in Bytes(n)
    BY <1>3, <2>1 DEF AtomicRange
  <2>3. Len(x) = n
    BY <2>1, <2>2, BytesAreAtoms
  <2>4. Len(x) <= t.length
    BY <2>1, <2>3
  <2> QED BY <1>3, <2>4 DEF AtomicAccepts
<1>4. CASE t.tag \in {"Boolean", "Opaque"}
  BY <1>4 DEF AtomicAccepts
<1> QED BY <1>1, <1>2, <1>3, <1>4 DEF IsAtomic, IsForeign

(* The encoder of a simple type throws for none of the type's values. *)
LEMMA SimpleAccepted ==
  ASSUME NEW t, IsSimple(t), NEW x \in SimpleRange(t)
  PROVE  SimpleAccepts(t, x)
<1>1. CASE t.tag \in PartTags
  <2>1. PICK p, v : p = t.parts /\ v = PartsOf(t, x)
    OBVIOUS
  <2>2. IsParts(p) /\ Fills(v, p)
    BY <1>1, <2>1, PartsFill
  <2>3. \A i \in DOMAIN p : AtomicAccepts(p[i], v[i])
    <3>1. DOMAIN p = 1 .. Len(p) /\ \A i \in 1 .. Len(p) : IsAtomic(p[i]) /\ v[i] \in AtomicRange(p[i])
      BY <2>2 DEF IsParts, Fills
    <3> QED BY <3>1, AtomicAccepted
  <2> QED BY <1>1, <2>1, <2>3 DEF SimpleAccepts, PartTags
<1>2. CASE t.tag \notin PartTags
  <2>1. IsAtomic(t) /\ x \in AtomicRange(t)
    BY <1>2, Unparted
  <2>2. AtomicAccepts(t, x)
    BY <2>1, AtomicAccepted
  <2> QED BY <1>2, <2>2 DEF SimpleAccepts, PartTags
<1> QED BY <1>1, <1>2

(* The encoder of a vector throws for none of the type's values. *)
LEMMA VectorAccepted ==
  ASSUME NEW t, IsVector(t), NEW x \in VectorRange(t)
  PROVE  DOMAIN x = 1 .. t.length /\ \A i \in 1 .. t.length : SimpleAccepts(t.type, x[i])
<1>1. DOMAIN x = 1 .. t.length /\ \A i \in 1 .. t.length : x[i] \in SimpleRange(t.type)
  BY DEF VectorRange
<1>2. IsSimple(t.type)
  BY DEF IsVector
<1> QED BY <1>1, <1>2, SimpleAccepted

(* The encoder of any type throws for none of the type's values. *)
LEMMA TypeAccepted ==
  ASSUME NEW t, IsType(t), NEW x \in TypeRange(t)
  PROVE  Accepts(t, x)
<1>1. CASE IsSimple(t)
  <2>1. t.tag # "Vector" /\ t.tag # "MerkleTreePath"
    BY <1>1, SimpleTag
  <2>2. x \in SimpleRange(t)
    BY <2>1 DEF TypeRange
  <2>3. SimpleAccepts(t, x)
    BY <1>1, <2>2, SimpleAccepted
  <2> QED BY <2>1, <2>3 DEF Accepts
<1>2. CASE IsVector(t)
  <2>1. t.tag = "Vector"
    BY <1>2 DEF IsVector
  <2>2. x \in VectorRange(t)
    BY <2>1 DEF TypeRange
  <2>3. \A i \in 1 .. t.length : SimpleAccepts(t.type, x[i])
    BY <1>2, <2>2, VectorAccepted
  <2> QED BY <2>1, <2>3 DEF Accepts
<1>3. CASE IsPath(t)
  <2>1. t.tag = "MerkleTreePath" /\ IsSimple(t.leaf) /\ IsVector(t.path)
    BY <1>3 DEF IsPath
  <2>2. x \in PathRange(t)
    BY <2>1 DEF TypeRange
  <2>3. x.leaf \in SimpleRange(t.leaf) /\ x.path \in VectorRange(t.path)
    BY <2>2 DEF PathRange
  <2>4. SimpleAccepts(t.leaf, x.leaf)
    BY <2>1, <2>3, SimpleAccepted
  <2>5. \A i \in DOMAIN x.path : SimpleAccepts(t.path.type, x.path[i])
    <3>1. PICK p, v : p = t.path /\ v = x.path
      OBVIOUS
    <3>2. DOMAIN v = 1 .. p.length /\ \A i \in 1 .. p.length : SimpleAccepts(p.type, v[i])
      BY <2>1, <2>3, <3>1, VectorAccepted
    <3> QED BY <3>1, <3>2
  <2> QED BY <2>1, <2>4, <2>5 DEF Accepts
<1> QED BY <1>1, <1>2, <1>3 DEF IsType

------------------------------------------------------------------------------
(* The register: what it holds. *)

(* The register holds a value of its type that stands for e.                *)
Holds(kind, v, e) ==
  /\ kind \in Kinds /\ v \in TypeRange(TypeOf[kind])
  /\ kind \in NumberKinds => v = e /\ e \in 0 .. Modulus[kind] - 1
  /\ kind \in ByteKinds => Number(v) = e
  /\ kind \in PointKinds => Stands(kind, v, e)

(* The register holds a value of its kind that stands for exact. *)
RegisterHolds == reg = [kind |-> reg.kind, val |-> reg.val] /\ Holds(reg.kind, reg.val, exact)

(* The kinds of one sort are not of another.                                *)
LEMMA SortsDiffer ==
  /\ \A k \in NumberKinds : k \notin PointKinds /\ k \notin ByteKinds /\ k \in Kinds
  /\ \A k \in PointKinds : k \notin NumberKinds /\ k \notin ByteKinds /\ k \in Kinds
  /\ \A k \in ByteKinds : k \notin NumberKinds /\ k \notin PointKinds /\ k \in Kinds
BY KindSets DEF FlaggedKinds, PlainKinds, ForeignKinds, ByteKinds

(* What makes a number, a hash or a point the register's value.             *)
LEMMA HoldsNumber ==
  ASSUME NEW kind \in NumberKinds, NEW x \in 0 .. Modulus[kind] - 1
  PROVE  Holds(kind, x, x)
<1>1. x \in TypeRange(TypeOf[kind])
  BY ModulusInRange
<1> QED BY <1>1, SortsDiffer DEF Holds

(* A byte array is a register's value that stands for its number. *)
LEMMA HoldsBytes ==
  ASSUME NEW kind \in ByteKinds, NEW n, n = TypeOf[kind].length, NEW b \in Bytes(n)
  PROVE  Holds(kind, b, Number(b))
<1>1. b \in TypeRange(TypeOf[kind])
  BY ByteRanges
<1> QED BY <1>1, SortsDiffer DEF Holds

(* A point is a register's value that stands for its multiple. *)
LEMMA HoldsPoint ==
  ASSUME NEW kind \in PointKinds, NEW x, NEW k, Stands(kind, x, k)
  PROVE  Holds(kind, x, k)
<1>1. x \in TypeRange(TypeOf[kind])
  BY StandsSame
<1> QED BY <1>1, SortsDiffer DEF Holds

(* The same for each of the four curves. *)
LEMMA HoldsFlagged ==
  ASSUME NEW x, NEW k
  PROVE  /\ StandsFor(K1, x, k) => Holds("Secp256k1Point", x, k)
         /\ StandsFor(R1, x, k) => Holds("Secp256r1Point", x, k)
         /\ IsMultiple(C25519, x, k) => Holds("Curve25519Point", x, k)
         /\ IsMultiple(Jubjub, x, k) => Holds("JubjubPoint", x, k)
<1>1. {"Secp256k1Point", "Secp256r1Point", "Curve25519Point", "JubjubPoint"} \subseteq PointKinds
  BY KindSets DEF FlaggedKinds, PlainKinds
<1>2. StandsFor(K1, x, k) => Stands("Secp256k1Point", x, k)
  BY DEF Stands
<1>3. StandsFor(R1, x, k) => Stands("Secp256r1Point", x, k)
  BY DEF Stands
<1>4. IsMultiple(C25519, x, k) => Stands("Curve25519Point", x, k)
  BY DEF Stands
<1>5. IsMultiple(Jubjub, x, k) => Stands("JubjubPoint", x, k)
  BY DEF Stands
<1> QED BY <1>1, <1>2, <1>3, <1>4, <1>5, HoldsPoint

(* An argument.                                                             *)
LEMMA HoldsArgument ==
  ASSUME NEW kind \in Kinds, NEW x \in Values(kind)
  PROVE  Holds(kind, x, Exact(kind, x))
<1>1. x \in TypeRange(TypeOf[kind])
  BY ValuesInRange
<1>2. CASE kind \in NumberKinds
  <2>1. x \in 0 .. Modulus[kind] - 1
    <3>1. kind \in {"Field", "JubjubScalar", "Uint", "Enum"} \cup ForeignKinds
      BY <1>2, KindSets
    <3> QED BY <1>2, <3>1, SortsDiffer DEF Values, ForeignKinds
  <2>2. Exact(kind, x) = x
    BY <1>2, SortsDiffer DEF Exact
  <2> QED BY <1>2, <2>1, <2>2, HoldsNumber
<1>3. CASE kind \in ByteKinds
  <2>1. Exact(kind, x) = Number(x)
    BY <1>3, SortsDiffer DEF Exact
  <2> QED BY <1>1, <1>3, <2>1, SortsDiffer DEF Holds
<1>4. CASE kind \in PointKinds
  BY <1>4, ExactStands, HoldsPoint
<1>5. CASE kind \notin NumberKinds /\ kind \notin ByteKinds /\ kind \notin PointKinds
  BY <1>1, <1>5 DEF Holds
<1> QED BY <1>2, <1>3, <1>4, <1>5

(* What the steps on the register are.                                      *)
LEMMA PutHolds ==
  ASSUME NEW kind, NEW x, NEW e, Put(kind, x, e), Holds(kind, x, e)
  PROVE  RegisterHolds'
<1>1. reg' = [kind |-> kind, val |-> x] /\ exact' = e
  BY DEF Put
<1>2. reg'.kind = kind /\ reg'.val = x
  BY <1>1
<1> QED BY <1>1, <1>2 DEF RegisterHolds

(* Sums, differences and products.                                          *)
LEMMA SumsHold ==
  ASSUME NEW kind \in NumberKinds, NEW e \in 0 .. Modulus[kind] - 1, NEW y \in 0 .. Modulus[kind] - 1,
         NEW s, s = (e + y) % Modulus[kind], NEW d, d = (e - y) % Modulus[kind], NEW p,
                  p = (e * y) % Modulus[kind]
  PROVE  Holds(kind, s, s) /\ Holds(kind, d, d) /\ Holds(kind, p, p)
<1>1. PICK m \in Nat \ {0} : m = Modulus[kind]
  BY ModulusType
<1>2. e \in 0 .. m - 1 /\ y \in 0 .. m - 1
  BY <1>1
<1>3. s = (e + y) % m /\ d = (e - y) % m /\ p = (e * y) % m
  BY <1>1, <1>2
<1>4. s \in 0 .. m - 1 /\ d \in 0 .. m - 1 /\ p \in 0 .. m - 1
  <2>1. PICK i \in Int, j \in Int, l \in Int : i = e + y /\ j = e - y /\ l = e * y
    BY <1>2
  <2>2. i % m \in 0 .. m - 1 /\ j % m \in 0 .. m - 1 /\ l % m \in 0 .. m - 1
    BY ResidueInRange
  <2> QED BY <1>3, <2>1, <2>2
<1> QED BY <1>1, <1>4, HoldsNumber

------------------------------------------------------------------------------
(* The arithmetic steps keep it. *)

(* The sums of the field Field.                                             *)
LEMMA FieldSums ==
  ASSUME RegisterHolds, Sums("Field", Native!Add, Native!Sub, Native!Mul)
  PROVE  RegisterHolds'
<1>1. PICK m \in Nat \ {0} : m = Modulus["Field"] /\ "Field" \in NumberKinds
  BY ModulusType, KindSets DEF ForeignKinds
<1>2. PICK y \in 0 .. m - 1 :
         \/ Put("Field", Native!Add(reg.val, y), (exact + y) % m)
         \/ Put("Field", Native!Sub(reg.val, y), (exact - y) % m)
         \/ Put("Field", Native!Mul(reg.val, y), (exact * y) % m)
  BY <1>1 DEF Sums
<1>3. PICK e \in 0 .. m - 1 : reg.val = e /\ exact = e
  <2>1. reg.kind = "Field"
    BY DEF Sums
  <2> QED BY <1>1, <2>1 DEF RegisterHolds, Holds
<1>4. PICK s, d, p : s = (e + y) % m /\ d = (e - y) % m /\ p = (e * y) % m
  OBVIOUS
<1>5. Native!Add(e, y) = s /\ Native!Sub(e, y) = d /\ Native!Mul(e, y) = p
  BY <1>1, <1>4, NativeReduces
<1>6. Holds("Field", s, s) /\ Holds("Field", d, d) /\ Holds("Field", p, p)
  BY <1>1, <1>4, SumsHold
<1>7. Put("Field", s, s) \/ Put("Field", d, d) \/ Put("Field", p, p)
  BY <1>2, <1>3, <1>4, <1>5
<1> QED BY <1>6, <1>7, PutHolds

(* The sums of the field Secp256k1Base.                                     *)
LEMMA Secp256k1BaseSums ==
  ASSUME RegisterHolds, Sums("Secp256k1Base", Secp256k1Base!Add, Secp256k1Base!Sub, Secp256k1Base!Mul)
  PROVE  RegisterHolds'
<1>1. PICK m \in Nat \ {0} : m = Modulus["Secp256k1Base"] /\ "Secp256k1Base" \in NumberKinds
  BY ModulusType, KindSets DEF ForeignKinds
<1>2. PICK y \in 0 .. m - 1 :
         \/ Put("Secp256k1Base", Secp256k1Base!Add(reg.val, y), (exact + y) % m)
         \/ Put("Secp256k1Base", Secp256k1Base!Sub(reg.val, y), (exact - y) % m)
         \/ Put("Secp256k1Base", Secp256k1Base!Mul(reg.val, y), (exact * y) % m)
  BY <1>1 DEF Sums
<1>3. PICK e \in 0 .. m - 1 : reg.val = e /\ exact = e
  <2>1. reg.kind = "Secp256k1Base"
    BY DEF Sums
  <2> QED BY <1>1, <2>1 DEF RegisterHolds, Holds
<1>4. PICK s, d, p : s = (e + y) % m /\ d = (e - y) % m /\ p = (e * y) % m
  OBVIOUS
<1>5. Secp256k1Base!Add(e, y) = s /\ Secp256k1Base!Sub(e, y) = d /\ Secp256k1Base!Mul(e, y) = p
  BY <1>1, <1>4, Secp256k1BaseReduces
<1>6. Holds("Secp256k1Base", s, s) /\ Holds("Secp256k1Base", d, d) /\ Holds("Secp256k1Base", p, p)
  BY <1>1, <1>4, SumsHold
<1>7. Put("Secp256k1Base", s, s) \/ Put("Secp256k1Base", d, d) \/ Put("Secp256k1Base", p, p)
  BY <1>2, <1>3, <1>4, <1>5
<1> QED BY <1>6, <1>7, PutHolds

(* Its negation and its inverse.                                            *)
LEMMA Secp256k1BaseInverses ==
  ASSUME RegisterHolds, Inverses("Secp256k1Base", Secp256k1Base!Neg, Secp256k1Base!Invertible,
           Secp256k1Base!Inv)
  PROVE  RegisterHolds'
<1>1. PICK m \in Nat \ {0} : m = Modulus["Secp256k1Base"] /\ "Secp256k1Base" \in NumberKinds
  BY ModulusType, KindSets DEF ForeignKinds
<1>2. PICK e \in 0 .. m - 1 : reg.val = e /\ exact = e
  <2>1. reg.kind = "Secp256k1Base"
    BY DEF Inverses
  <2> QED BY <1>1, <2>1 DEF RegisterHolds, Holds
<1>3. PICK n, i : n = (-e) % m /\ i = InverseMod(e, m)
  OBVIOUS
<1>4. Secp256k1Base!Neg(e) = n /\ n \in 0 .. m - 1
  <2>1. PICK d \in Int : d = -e
    BY <1>2
  <2>2. d % m \in 0 .. m - 1
    BY ResidueInRange
  <2> QED BY <1>1, <1>3, <2>1, <2>2, Secp256k1BaseInverts
<1>5. e # 0 => Secp256k1Base!Inv(e) = i /\ i \in 0 .. m - 1
  BY <1>1, <1>3, Secp256k1BaseInverts
<1>6. Put("Secp256k1Base", n, n) \/ (e # 0 /\ Put("Secp256k1Base", i, i))
  <2>1. \/ Put("Secp256k1Base", Secp256k1Base!Neg(reg.val), (-exact) % m)
        \/ reg.val # 0 /\ Put("Secp256k1Base", Secp256k1Base!Inv(reg.val), InverseMod(exact, m))
    BY <1>1 DEF Inverses, Secp256k1Base!Invertible
  <2> QED BY <1>2, <1>3, <1>4, <1>5, <2>1
<1>7. Holds("Secp256k1Base", n, n) /\ (e # 0 => Holds("Secp256k1Base", i, i))
  BY <1>1, <1>4, <1>5, HoldsNumber
<1> QED BY <1>6, <1>7, PutHolds

(* The sums of the field Secp256k1Scalar.                                   *)
LEMMA Secp256k1ScalarSums ==
  ASSUME RegisterHolds, Sums("Secp256k1Scalar", Secp256k1Scalar!Add, Secp256k1Scalar!Sub, Secp256k1Scalar!Mul)
  PROVE  RegisterHolds'
<1>1. PICK m \in Nat \ {0} : m = Modulus["Secp256k1Scalar"] /\ "Secp256k1Scalar" \in NumberKinds
  BY ModulusType, KindSets DEF ForeignKinds
<1>2. PICK y \in 0 .. m - 1 :
         \/ Put("Secp256k1Scalar", Secp256k1Scalar!Add(reg.val, y), (exact + y) % m)
         \/ Put("Secp256k1Scalar", Secp256k1Scalar!Sub(reg.val, y), (exact - y) % m)
         \/ Put("Secp256k1Scalar", Secp256k1Scalar!Mul(reg.val, y), (exact * y) % m)
  BY <1>1 DEF Sums
<1>3. PICK e \in 0 .. m - 1 : reg.val = e /\ exact = e
  <2>1. reg.kind = "Secp256k1Scalar"
    BY DEF Sums
  <2> QED BY <1>1, <2>1 DEF RegisterHolds, Holds
<1>4. PICK s, d, p : s = (e + y) % m /\ d = (e - y) % m /\ p = (e * y) % m
  OBVIOUS
<1>5. Secp256k1Scalar!Add(e, y) = s /\ Secp256k1Scalar!Sub(e, y) = d /\ Secp256k1Scalar!Mul(e, y) = p
  BY <1>1, <1>4, Secp256k1ScalarReduces
<1>6. Holds("Secp256k1Scalar", s, s) /\ Holds("Secp256k1Scalar", d, d) /\ Holds("Secp256k1Scalar", p, p)
  BY <1>1, <1>4, SumsHold
<1>7. Put("Secp256k1Scalar", s, s) \/ Put("Secp256k1Scalar", d, d) \/ Put("Secp256k1Scalar", p, p)
  BY <1>2, <1>3, <1>4, <1>5
<1> QED BY <1>6, <1>7, PutHolds

(* Its negation and its inverse.                                            *)
LEMMA Secp256k1ScalarInverses ==
  ASSUME RegisterHolds, Inverses("Secp256k1Scalar", Secp256k1Scalar!Neg, Secp256k1Scalar!Invertible,
           Secp256k1Scalar!Inv)
  PROVE  RegisterHolds'
<1>1. PICK m \in Nat \ {0} : m = Modulus["Secp256k1Scalar"] /\ "Secp256k1Scalar" \in NumberKinds
  BY ModulusType, KindSets DEF ForeignKinds
<1>2. PICK e \in 0 .. m - 1 : reg.val = e /\ exact = e
  <2>1. reg.kind = "Secp256k1Scalar"
    BY DEF Inverses
  <2> QED BY <1>1, <2>1 DEF RegisterHolds, Holds
<1>3. PICK n, i : n = (-e) % m /\ i = InverseMod(e, m)
  OBVIOUS
<1>4. Secp256k1Scalar!Neg(e) = n /\ n \in 0 .. m - 1
  <2>1. PICK d \in Int : d = -e
    BY <1>2
  <2>2. d % m \in 0 .. m - 1
    BY ResidueInRange
  <2> QED BY <1>1, <1>3, <2>1, <2>2, Secp256k1ScalarInverts
<1>5. e # 0 => Secp256k1Scalar!Inv(e) = i /\ i \in 0 .. m - 1
  BY <1>1, <1>3, Secp256k1ScalarInverts
<1>6. Put("Secp256k1Scalar", n, n) \/ (e # 0 /\ Put("Secp256k1Scalar", i, i))
  <2>1. \/ Put("Secp256k1Scalar", Secp256k1Scalar!Neg(reg.val), (-exact) % m)
        \/ reg.val # 0 /\ Put("Secp256k1Scalar", Secp256k1Scalar!Inv(reg.val), InverseMod(exact, m))
    BY <1>1 DEF Inverses, Secp256k1Scalar!Invertible
  <2> QED BY <1>2, <1>3, <1>4, <1>5, <2>1
<1>7. Holds("Secp256k1Scalar", n, n) /\ (e # 0 => Holds("Secp256k1Scalar", i, i))
  BY <1>1, <1>4, <1>5, HoldsNumber
<1> QED BY <1>6, <1>7, PutHolds

(* The sums of the field Secp256r1Base.                                     *)
LEMMA Secp256r1BaseSums ==
  ASSUME RegisterHolds, Sums("Secp256r1Base", Secp256r1Base!Add, Secp256r1Base!Sub, Secp256r1Base!Mul)
  PROVE  RegisterHolds'
<1>1. PICK m \in Nat \ {0} : m = Modulus["Secp256r1Base"] /\ "Secp256r1Base" \in NumberKinds
  BY ModulusType, KindSets DEF ForeignKinds
<1>2. PICK y \in 0 .. m - 1 :
         \/ Put("Secp256r1Base", Secp256r1Base!Add(reg.val, y), (exact + y) % m)
         \/ Put("Secp256r1Base", Secp256r1Base!Sub(reg.val, y), (exact - y) % m)
         \/ Put("Secp256r1Base", Secp256r1Base!Mul(reg.val, y), (exact * y) % m)
  BY <1>1 DEF Sums
<1>3. PICK e \in 0 .. m - 1 : reg.val = e /\ exact = e
  <2>1. reg.kind = "Secp256r1Base"
    BY DEF Sums
  <2> QED BY <1>1, <2>1 DEF RegisterHolds, Holds
<1>4. PICK s, d, p : s = (e + y) % m /\ d = (e - y) % m /\ p = (e * y) % m
  OBVIOUS
<1>5. Secp256r1Base!Add(e, y) = s /\ Secp256r1Base!Sub(e, y) = d /\ Secp256r1Base!Mul(e, y) = p
  BY <1>1, <1>4, Secp256r1BaseReduces
<1>6. Holds("Secp256r1Base", s, s) /\ Holds("Secp256r1Base", d, d) /\ Holds("Secp256r1Base", p, p)
  BY <1>1, <1>4, SumsHold
<1>7. Put("Secp256r1Base", s, s) \/ Put("Secp256r1Base", d, d) \/ Put("Secp256r1Base", p, p)
  BY <1>2, <1>3, <1>4, <1>5
<1> QED BY <1>6, <1>7, PutHolds

(* Its negation and its inverse.                                            *)
LEMMA Secp256r1BaseInverses ==
  ASSUME RegisterHolds, Inverses("Secp256r1Base", Secp256r1Base!Neg, Secp256r1Base!Invertible,
           Secp256r1Base!Inv)
  PROVE  RegisterHolds'
<1>1. PICK m \in Nat \ {0} : m = Modulus["Secp256r1Base"] /\ "Secp256r1Base" \in NumberKinds
  BY ModulusType, KindSets DEF ForeignKinds
<1>2. PICK e \in 0 .. m - 1 : reg.val = e /\ exact = e
  <2>1. reg.kind = "Secp256r1Base"
    BY DEF Inverses
  <2> QED BY <1>1, <2>1 DEF RegisterHolds, Holds
<1>3. PICK n, i : n = (-e) % m /\ i = InverseMod(e, m)
  OBVIOUS
<1>4. Secp256r1Base!Neg(e) = n /\ n \in 0 .. m - 1
  <2>1. PICK d \in Int : d = -e
    BY <1>2
  <2>2. d % m \in 0 .. m - 1
    BY ResidueInRange
  <2> QED BY <1>1, <1>3, <2>1, <2>2, Secp256r1BaseInverts
<1>5. e # 0 => Secp256r1Base!Inv(e) = i /\ i \in 0 .. m - 1
  BY <1>1, <1>3, Secp256r1BaseInverts
<1>6. Put("Secp256r1Base", n, n) \/ (e # 0 /\ Put("Secp256r1Base", i, i))
  <2>1. \/ Put("Secp256r1Base", Secp256r1Base!Neg(reg.val), (-exact) % m)
        \/ reg.val # 0 /\ Put("Secp256r1Base", Secp256r1Base!Inv(reg.val), InverseMod(exact, m))
    BY <1>1 DEF Inverses, Secp256r1Base!Invertible
  <2> QED BY <1>2, <1>3, <1>4, <1>5, <2>1
<1>7. Holds("Secp256r1Base", n, n) /\ (e # 0 => Holds("Secp256r1Base", i, i))
  BY <1>1, <1>4, <1>5, HoldsNumber
<1> QED BY <1>6, <1>7, PutHolds

(* The sums of the field Secp256r1Scalar.                                   *)
LEMMA Secp256r1ScalarSums ==
  ASSUME RegisterHolds, Sums("Secp256r1Scalar", Secp256r1Scalar!Add, Secp256r1Scalar!Sub, Secp256r1Scalar!Mul)
  PROVE  RegisterHolds'
<1>1. PICK m \in Nat \ {0} : m = Modulus["Secp256r1Scalar"] /\ "Secp256r1Scalar" \in NumberKinds
  BY ModulusType, KindSets DEF ForeignKinds
<1>2. PICK y \in 0 .. m - 1 :
         \/ Put("Secp256r1Scalar", Secp256r1Scalar!Add(reg.val, y), (exact + y) % m)
         \/ Put("Secp256r1Scalar", Secp256r1Scalar!Sub(reg.val, y), (exact - y) % m)
         \/ Put("Secp256r1Scalar", Secp256r1Scalar!Mul(reg.val, y), (exact * y) % m)
  BY <1>1 DEF Sums
<1>3. PICK e \in 0 .. m - 1 : reg.val = e /\ exact = e
  <2>1. reg.kind = "Secp256r1Scalar"
    BY DEF Sums
  <2> QED BY <1>1, <2>1 DEF RegisterHolds, Holds
<1>4. PICK s, d, p : s = (e + y) % m /\ d = (e - y) % m /\ p = (e * y) % m
  OBVIOUS
<1>5. Secp256r1Scalar!Add(e, y) = s /\ Secp256r1Scalar!Sub(e, y) = d /\ Secp256r1Scalar!Mul(e, y) = p
  BY <1>1, <1>4, Secp256r1ScalarReduces
<1>6. Holds("Secp256r1Scalar", s, s) /\ Holds("Secp256r1Scalar", d, d) /\ Holds("Secp256r1Scalar", p, p)
  BY <1>1, <1>4, SumsHold
<1>7. Put("Secp256r1Scalar", s, s) \/ Put("Secp256r1Scalar", d, d) \/ Put("Secp256r1Scalar", p, p)
  BY <1>2, <1>3, <1>4, <1>5
<1> QED BY <1>6, <1>7, PutHolds

(* Its negation and its inverse.                                            *)
LEMMA Secp256r1ScalarInverses ==
  ASSUME RegisterHolds, Inverses("Secp256r1Scalar", Secp256r1Scalar!Neg, Secp256r1Scalar!Invertible,
           Secp256r1Scalar!Inv)
  PROVE  RegisterHolds'
<1>1. PICK m \in Nat \ {0} : m = Modulus["Secp256r1Scalar"] /\ "Secp256r1Scalar" \in NumberKinds
  BY ModulusType, KindSets DEF ForeignKinds
<1>2. PICK e \in 0 .. m - 1 : reg.val = e /\ exact = e
  <2>1. reg.kind = "Secp256r1Scalar"
    BY DEF Inverses
  <2> QED BY <1>1, <2>1 DEF RegisterHolds, Holds
<1>3. PICK n, i : n = (-e) % m /\ i = InverseMod(e, m)
  OBVIOUS
<1>4. Secp256r1Scalar!Neg(e) = n /\ n \in 0 .. m - 1
  <2>1. PICK d \in Int : d = -e
    BY <1>2
  <2>2. d % m \in 0 .. m - 1
    BY ResidueInRange
  <2> QED BY <1>1, <1>3, <2>1, <2>2, Secp256r1ScalarInverts
<1>5. e # 0 => Secp256r1Scalar!Inv(e) = i /\ i \in 0 .. m - 1
  BY <1>1, <1>3, Secp256r1ScalarInverts
<1>6. Put("Secp256r1Scalar", n, n) \/ (e # 0 /\ Put("Secp256r1Scalar", i, i))
  <2>1. \/ Put("Secp256r1Scalar", Secp256r1Scalar!Neg(reg.val), (-exact) % m)
        \/ reg.val # 0 /\ Put("Secp256r1Scalar", Secp256r1Scalar!Inv(reg.val), InverseMod(exact, m))
    BY <1>1 DEF Inverses, Secp256r1Scalar!Invertible
  <2> QED BY <1>2, <1>3, <1>4, <1>5, <2>1
<1>7. Holds("Secp256r1Scalar", n, n) /\ (e # 0 => Holds("Secp256r1Scalar", i, i))
  BY <1>1, <1>4, <1>5, HoldsNumber
<1> QED BY <1>6, <1>7, PutHolds

(* The sums of the field Curve25519Base.                                    *)
LEMMA Curve25519BaseSums ==
  ASSUME RegisterHolds, Sums("Curve25519Base", Curve25519Base!Add, Curve25519Base!Sub, Curve25519Base!Mul)
  PROVE  RegisterHolds'
<1>1. PICK m \in Nat \ {0} : m = Modulus["Curve25519Base"] /\ "Curve25519Base" \in NumberKinds
  BY ModulusType, KindSets DEF ForeignKinds
<1>2. PICK y \in 0 .. m - 1 :
         \/ Put("Curve25519Base", Curve25519Base!Add(reg.val, y), (exact + y) % m)
         \/ Put("Curve25519Base", Curve25519Base!Sub(reg.val, y), (exact - y) % m)
         \/ Put("Curve25519Base", Curve25519Base!Mul(reg.val, y), (exact * y) % m)
  BY <1>1 DEF Sums
<1>3. PICK e \in 0 .. m - 1 : reg.val = e /\ exact = e
  <2>1. reg.kind = "Curve25519Base"
    BY DEF Sums
  <2> QED BY <1>1, <2>1 DEF RegisterHolds, Holds
<1>4. PICK s, d, p : s = (e + y) % m /\ d = (e - y) % m /\ p = (e * y) % m
  OBVIOUS
<1>5. Curve25519Base!Add(e, y) = s /\ Curve25519Base!Sub(e, y) = d /\ Curve25519Base!Mul(e, y) = p
  BY <1>1, <1>4, Curve25519BaseReduces
<1>6. Holds("Curve25519Base", s, s) /\ Holds("Curve25519Base", d, d) /\ Holds("Curve25519Base", p, p)
  BY <1>1, <1>4, SumsHold
<1>7. Put("Curve25519Base", s, s) \/ Put("Curve25519Base", d, d) \/ Put("Curve25519Base", p, p)
  BY <1>2, <1>3, <1>4, <1>5
<1> QED BY <1>6, <1>7, PutHolds

(* Its negation and its inverse.                                            *)
LEMMA Curve25519BaseInverses ==
  ASSUME RegisterHolds, Inverses("Curve25519Base", Curve25519Base!Neg, Curve25519Base!Invertible,
           Curve25519Base!Inv)
  PROVE  RegisterHolds'
<1>1. PICK m \in Nat \ {0} : m = Modulus["Curve25519Base"] /\ "Curve25519Base" \in NumberKinds
  BY ModulusType, KindSets DEF ForeignKinds
<1>2. PICK e \in 0 .. m - 1 : reg.val = e /\ exact = e
  <2>1. reg.kind = "Curve25519Base"
    BY DEF Inverses
  <2> QED BY <1>1, <2>1 DEF RegisterHolds, Holds
<1>3. PICK n, i : n = (-e) % m /\ i = InverseMod(e, m)
  OBVIOUS
<1>4. Curve25519Base!Neg(e) = n /\ n \in 0 .. m - 1
  <2>1. PICK d \in Int : d = -e
    BY <1>2
  <2>2. d % m \in 0 .. m - 1
    BY ResidueInRange
  <2> QED BY <1>1, <1>3, <2>1, <2>2, Curve25519BaseInverts
<1>5. e # 0 => Curve25519Base!Inv(e) = i /\ i \in 0 .. m - 1
  BY <1>1, <1>3, Curve25519BaseInverts
<1>6. Put("Curve25519Base", n, n) \/ (e # 0 /\ Put("Curve25519Base", i, i))
  <2>1. \/ Put("Curve25519Base", Curve25519Base!Neg(reg.val), (-exact) % m)
        \/ reg.val # 0 /\ Put("Curve25519Base", Curve25519Base!Inv(reg.val), InverseMod(exact, m))
    BY <1>1 DEF Inverses, Curve25519Base!Invertible
  <2> QED BY <1>2, <1>3, <1>4, <1>5, <2>1
<1>7. Holds("Curve25519Base", n, n) /\ (e # 0 => Holds("Curve25519Base", i, i))
  BY <1>1, <1>4, <1>5, HoldsNumber
<1> QED BY <1>6, <1>7, PutHolds

(* The sums of the field Curve25519Scalar.                                  *)
LEMMA Curve25519ScalarSums ==
  ASSUME RegisterHolds, Sums("Curve25519Scalar", Curve25519Scalar!Add, Curve25519Scalar!Sub,
           Curve25519Scalar!Mul)
  PROVE  RegisterHolds'
<1>1. PICK m \in Nat \ {0} : m = Modulus["Curve25519Scalar"] /\ "Curve25519Scalar" \in NumberKinds
  BY ModulusType, KindSets DEF ForeignKinds
<1>2. PICK y \in 0 .. m - 1 :
         \/ Put("Curve25519Scalar", Curve25519Scalar!Add(reg.val, y), (exact + y) % m)
         \/ Put("Curve25519Scalar", Curve25519Scalar!Sub(reg.val, y), (exact - y) % m)
         \/ Put("Curve25519Scalar", Curve25519Scalar!Mul(reg.val, y), (exact * y) % m)
  BY <1>1 DEF Sums
<1>3. PICK e \in 0 .. m - 1 : reg.val = e /\ exact = e
  <2>1. reg.kind = "Curve25519Scalar"
    BY DEF Sums
  <2> QED BY <1>1, <2>1 DEF RegisterHolds, Holds
<1>4. PICK s, d, p : s = (e + y) % m /\ d = (e - y) % m /\ p = (e * y) % m
  OBVIOUS
<1>5. Curve25519Scalar!Add(e, y) = s /\ Curve25519Scalar!Sub(e, y) = d /\ Curve25519Scalar!Mul(e, y) = p
  BY <1>1, <1>4, Curve25519ScalarReduces
<1>6. Holds("Curve25519Scalar", s, s) /\ Holds("Curve25519Scalar", d, d) /\ Holds("Curve25519Scalar", p, p)
  BY <1>1, <1>4, SumsHold
<1>7. Put("Curve25519Scalar", s, s) \/ Put("Curve25519Scalar", d, d) \/ Put("Curve25519Scalar", p, p)
  BY <1>2, <1>3, <1>4, <1>5
<1> QED BY <1>6, <1>7, PutHolds

(* Its negation and its inverse.                                            *)
LEMMA Curve25519ScalarInverses ==
  ASSUME RegisterHolds, Inverses("Curve25519Scalar", Curve25519Scalar!Neg, Curve25519Scalar!Invertible,
           Curve25519Scalar!Inv)
  PROVE  RegisterHolds'
<1>1. PICK m \in Nat \ {0} : m = Modulus["Curve25519Scalar"] /\ "Curve25519Scalar" \in NumberKinds
  BY ModulusType, KindSets DEF ForeignKinds
<1>2. PICK e \in 0 .. m - 1 : reg.val = e /\ exact = e
  <2>1. reg.kind = "Curve25519Scalar"
    BY DEF Inverses
  <2> QED BY <1>1, <2>1 DEF RegisterHolds, Holds
<1>3. PICK n, i : n = (-e) % m /\ i = InverseMod(e, m)
  OBVIOUS
<1>4. Curve25519Scalar!Neg(e) = n /\ n \in 0 .. m - 1
  <2>1. PICK d \in Int : d = -e
    BY <1>2
  <2>2. d % m \in 0 .. m - 1
    BY ResidueInRange
  <2> QED BY <1>1, <1>3, <2>1, <2>2, Curve25519ScalarInverts
<1>5. e # 0 => Curve25519Scalar!Inv(e) = i /\ i \in 0 .. m - 1
  BY <1>1, <1>3, Curve25519ScalarInverts
<1>6. Put("Curve25519Scalar", n, n) \/ (e # 0 /\ Put("Curve25519Scalar", i, i))
  <2>1. \/ Put("Curve25519Scalar", Curve25519Scalar!Neg(reg.val), (-exact) % m)
        \/ reg.val # 0 /\ Put("Curve25519Scalar", Curve25519Scalar!Inv(reg.val), InverseMod(exact, m))
    BY <1>1 DEF Inverses, Curve25519Scalar!Invertible
  <2> QED BY <1>2, <1>3, <1>4, <1>5, <2>1
<1>7. Holds("Curve25519Scalar", n, n) /\ (e # 0 => Holds("Curve25519Scalar", i, i))
  BY <1>1, <1>4, <1>5, HoldsNumber
<1> QED BY <1>6, <1>7, PutHolds

(* Every step of a field's arithmetic.                                      *)
LEMMA ArithmeticHolds ==
  ASSUME RegisterHolds, Arithmetic
  PROVE  RegisterHolds'
BY FieldSums, Secp256k1BaseSums, Secp256k1ScalarSums, Secp256r1BaseSums, Secp256r1ScalarSums,
         Curve25519BaseSums, Curve25519ScalarSums,
   Secp256k1BaseInverses, Secp256k1ScalarInverses, Secp256r1BaseInverses, Secp256r1ScalarInverses,
            Curve25519BaseInverses, Curve25519ScalarInverses DEF Arithmetic

------------------------------------------------------------------------------
(* The steps on points keep it. *)

(* The points of Secp256k1.                                                 *)
LEMMA Secp256k1Steps ==
  ASSUME RegisterHolds, PointStep("Secp256k1Point", "Secp256k1Scalar", Secp256k1!PlusPoint,
           Secp256k1!TimesPoint, Secp256k1!MulGenerator)
  PROVE  RegisterHolds'
<1>1. Order["Secp256k1Point"] = K1.order /\ Modulus["Secp256k1Scalar"] = K1.order
         /\ "Secp256k1Scalar" \in NumberKinds /\ "Secp256k1Point" \in PointKinds
  BY Orders, KindSets DEF Modulus, ForeignKinds, FlaggedKinds, PlainKinds,
     SECP256K1_SCALAR_MODULUS, SECP256R1_SCALAR_MODULUS, CURVE25519_SCALAR_MODULUS, JUBJUB_SCALAR_MODULUS
<1>2. CASE reg.kind = "Secp256k1Point"
  <2>1. PICK k \in 0 .. K1.order - 1 :
           \/ Put("Secp256k1Point", Secp256k1!PlusPoint(reg.val, Secp256k1!MulGenerator(k)),
                    (exact + k) % K1.order)
           \/ Put("Secp256k1Point", Secp256k1!TimesPoint(reg.val, k), (exact * k) % K1.order)
    BY <1>1, <1>2 DEF PointStep
  <2>2. PICK a, j : a = reg.val /\ j = exact
    OBVIOUS
  <2>3. StandsFor(K1, a, j)
    BY <1>1, <1>2, <2>2 DEF RegisterHolds, Holds, Stands
  <2>4. /\ StandsFor(K1, Secp256k1!PlusPoint(a, Secp256k1!MulGenerator(k)), (j + k) % K1.order)
        /\ StandsFor(K1, Secp256k1!TimesPoint(a, k), (j * k) % K1.order)
    BY <2>3, Secp256k1Points
  <2>5. /\ Holds("Secp256k1Point", Secp256k1!PlusPoint(a, Secp256k1!MulGenerator(k)), (j + k) % K1.order)
        /\ Holds("Secp256k1Point", Secp256k1!TimesPoint(a, k), (j * k) % K1.order)
    BY <2>4, HoldsFlagged
  <2>6. PICK x, y, i, l : /\ x = Secp256k1!PlusPoint(a, Secp256k1!MulGenerator(k)) /\ i = (j + k) % K1.order
                         /\ y = Secp256k1!TimesPoint(a, k) /\ l = (j * k) % K1.order
    OBVIOUS
  <2>7. Put("Secp256k1Point", x, i) \/ Put("Secp256k1Point", y, l)
    BY <2>1, <2>2, <2>6
  <2>8. Holds("Secp256k1Point", x, i) /\ Holds("Secp256k1Point", y, l)
    BY <2>5, <2>6
  <2> QED BY <2>7, <2>8, PutHolds
<1>3. CASE reg.kind = "Secp256k1Scalar"
  <2>1. PICK e : e = exact
    OBVIOUS
  <2>2. e \in 0 .. K1.order - 1 /\ reg.val = e
    BY <1>1, <1>3, <2>1 DEF RegisterHolds, Holds
  <2>3. PICK x : x = Secp256k1!MulGenerator(e)
    OBVIOUS
  <2>4. Holds("Secp256k1Point", x, e)
    BY <2>2, <2>3, Secp256k1Generated, HoldsFlagged
  <2>5. Put("Secp256k1Point", x, e)
    BY <1>3, <2>1, <2>2, <2>3 DEF PointStep
  <2> QED BY <2>4, <2>5, PutHolds
<1> QED BY <1>2, <1>3 DEF PointStep

(* The points of Secp256r1.                                                 *)
LEMMA Secp256r1Steps ==
  ASSUME RegisterHolds, PointStep("Secp256r1Point", "Secp256r1Scalar", Secp256r1!PlusPoint,
           Secp256r1!TimesPoint, Secp256r1!MulGenerator)
  PROVE  RegisterHolds'
<1>1. Order["Secp256r1Point"] = R1.order /\ Modulus["Secp256r1Scalar"] = R1.order
         /\ "Secp256r1Scalar" \in NumberKinds /\ "Secp256r1Point" \in PointKinds
  BY Orders, KindSets DEF Modulus, ForeignKinds, FlaggedKinds, PlainKinds,
     SECP256K1_SCALAR_MODULUS, SECP256R1_SCALAR_MODULUS, CURVE25519_SCALAR_MODULUS, JUBJUB_SCALAR_MODULUS
<1>2. CASE reg.kind = "Secp256r1Point"
  <2>1. PICK k \in 0 .. R1.order - 1 :
           \/ Put("Secp256r1Point", Secp256r1!PlusPoint(reg.val, Secp256r1!MulGenerator(k)),
                    (exact + k) % R1.order)
           \/ Put("Secp256r1Point", Secp256r1!TimesPoint(reg.val, k), (exact * k) % R1.order)
    BY <1>1, <1>2 DEF PointStep
  <2>2. PICK a, j : a = reg.val /\ j = exact
    OBVIOUS
  <2>3. StandsFor(R1, a, j)
    BY <1>1, <1>2, <2>2 DEF RegisterHolds, Holds, Stands
  <2>4. /\ StandsFor(R1, Secp256r1!PlusPoint(a, Secp256r1!MulGenerator(k)), (j + k) % R1.order)
        /\ StandsFor(R1, Secp256r1!TimesPoint(a, k), (j * k) % R1.order)
    BY <2>3, Secp256r1Points
  <2>5. /\ Holds("Secp256r1Point", Secp256r1!PlusPoint(a, Secp256r1!MulGenerator(k)), (j + k) % R1.order)
        /\ Holds("Secp256r1Point", Secp256r1!TimesPoint(a, k), (j * k) % R1.order)
    BY <2>4, HoldsFlagged
  <2>6. PICK x, y, i, l : /\ x = Secp256r1!PlusPoint(a, Secp256r1!MulGenerator(k)) /\ i = (j + k) % R1.order
                         /\ y = Secp256r1!TimesPoint(a, k) /\ l = (j * k) % R1.order
    OBVIOUS
  <2>7. Put("Secp256r1Point", x, i) \/ Put("Secp256r1Point", y, l)
    BY <2>1, <2>2, <2>6
  <2>8. Holds("Secp256r1Point", x, i) /\ Holds("Secp256r1Point", y, l)
    BY <2>5, <2>6
  <2> QED BY <2>7, <2>8, PutHolds
<1>3. CASE reg.kind = "Secp256r1Scalar"
  <2>1. PICK e : e = exact
    OBVIOUS
  <2>2. e \in 0 .. R1.order - 1 /\ reg.val = e
    BY <1>1, <1>3, <2>1 DEF RegisterHolds, Holds
  <2>3. PICK x : x = Secp256r1!MulGenerator(e)
    OBVIOUS
  <2>4. Holds("Secp256r1Point", x, e)
    BY <2>2, <2>3, Secp256r1Generated, HoldsFlagged
  <2>5. Put("Secp256r1Point", x, e)
    BY <1>3, <2>1, <2>2, <2>3 DEF PointStep
  <2> QED BY <2>4, <2>5, PutHolds
<1> QED BY <1>2, <1>3 DEF PointStep

(* The points of Curve25519.                                                *)
LEMMA Curve25519Steps ==
  ASSUME RegisterHolds, PointStep("Curve25519Point", "Curve25519Scalar", Curve25519Add, Curve25519Mul,
           Curve25519MulGenerator)
  PROVE  RegisterHolds'
<1>1. Order["Curve25519Point"] = C25519.order /\ Modulus["Curve25519Scalar"] = C25519.order
         /\ "Curve25519Scalar" \in NumberKinds /\ "Curve25519Point" \in PointKinds
  BY Orders, KindSets DEF Modulus, ForeignKinds, FlaggedKinds, PlainKinds,
     SECP256K1_SCALAR_MODULUS, SECP256R1_SCALAR_MODULUS, CURVE25519_SCALAR_MODULUS, JUBJUB_SCALAR_MODULUS
<1>2. CASE reg.kind = "Curve25519Point"
  <2>1. PICK k \in 0 .. C25519.order - 1 :
           \/ Put("Curve25519Point", Curve25519Add(reg.val, Curve25519MulGenerator(k)),
                    (exact + k) % C25519.order)
           \/ Put("Curve25519Point", Curve25519Mul(reg.val, k), (exact * k) % C25519.order)
    BY <1>1, <1>2 DEF PointStep
  <2>2. PICK a, j : a = reg.val /\ j = exact
    OBVIOUS
  <2>3. IsMultiple(C25519, a, j)
    BY <1>1, <1>2, <2>2 DEF RegisterHolds, Holds, Stands
  <2>4. /\ IsMultiple(C25519, Curve25519Add(a, Curve25519MulGenerator(k)), (j + k) % C25519.order)
        /\ IsMultiple(C25519, Curve25519Mul(a, k), (j * k) % C25519.order)
    BY <2>3, Curve25519Points
  <2>5. /\ Holds("Curve25519Point", Curve25519Add(a, Curve25519MulGenerator(k)), (j + k) % C25519.order)
        /\ Holds("Curve25519Point", Curve25519Mul(a, k), (j * k) % C25519.order)
    BY <2>4, HoldsFlagged
  <2>6. PICK x, y, i, l : /\ x = Curve25519Add(a, Curve25519MulGenerator(k)) /\ i = (j + k) % C25519.order
                         /\ y = Curve25519Mul(a, k) /\ l = (j * k) % C25519.order
    OBVIOUS
  <2>7. Put("Curve25519Point", x, i) \/ Put("Curve25519Point", y, l)
    BY <2>1, <2>2, <2>6
  <2>8. Holds("Curve25519Point", x, i) /\ Holds("Curve25519Point", y, l)
    BY <2>5, <2>6
  <2> QED BY <2>7, <2>8, PutHolds
<1>3. CASE reg.kind = "Curve25519Scalar"
  <2>1. PICK e : e = exact
    OBVIOUS
  <2>2. e \in 0 .. C25519.order - 1 /\ reg.val = e
    BY <1>1, <1>3, <2>1 DEF RegisterHolds, Holds
  <2>3. PICK x : x = Curve25519MulGenerator(e)
    OBVIOUS
  <2>4. Holds("Curve25519Point", x, e)
    BY <2>2, <2>3, Curve25519Generated, HoldsFlagged
  <2>5. Put("Curve25519Point", x, e)
    BY <1>3, <2>1, <2>2, <2>3 DEF PointStep
  <2> QED BY <2>4, <2>5, PutHolds
<1> QED BY <1>2, <1>3 DEF PointStep

(* The points of Jubjub.                                                    *)
LEMMA JubjubSteps ==
  ASSUME RegisterHolds, PointStep("JubjubPoint", "JubjubScalar", EcAdd, EcMul, EcMulGenerator)
  PROVE  RegisterHolds'
<1>1. Order["JubjubPoint"] = Jubjub.order /\ Modulus["JubjubScalar"] = Jubjub.order
         /\ "JubjubScalar" \in NumberKinds /\ "JubjubPoint" \in PointKinds
  BY Orders, KindSets DEF Modulus, ForeignKinds, FlaggedKinds, PlainKinds,
     SECP256K1_SCALAR_MODULUS, SECP256R1_SCALAR_MODULUS, CURVE25519_SCALAR_MODULUS, JUBJUB_SCALAR_MODULUS
<1>2. CASE reg.kind = "JubjubPoint"
  <2>1. PICK k \in 0 .. Jubjub.order - 1 :
           \/ Put("JubjubPoint", EcAdd(reg.val, EcMulGenerator(k)), (exact + k) % Jubjub.order)
           \/ Put("JubjubPoint", EcMul(reg.val, k), (exact * k) % Jubjub.order)
    BY <1>1, <1>2 DEF PointStep
  <2>2. PICK a, j : a = reg.val /\ j = exact
    OBVIOUS
  <2>3. IsMultiple(Jubjub, a, j)
    BY <1>1, <1>2, <2>2 DEF RegisterHolds, Holds, Stands
  <2>4. /\ IsMultiple(Jubjub, EcAdd(a, EcMulGenerator(k)), (j + k) % Jubjub.order)
        /\ IsMultiple(Jubjub, EcMul(a, k), (j * k) % Jubjub.order)
    BY <2>3, JubjubPoints
  <2>5. /\ Holds("JubjubPoint", EcAdd(a, EcMulGenerator(k)), (j + k) % Jubjub.order)
        /\ Holds("JubjubPoint", EcMul(a, k), (j * k) % Jubjub.order)
    BY <2>4, HoldsFlagged
  <2>6. PICK x, y, i, l : /\ x = EcAdd(a, EcMulGenerator(k)) /\ i = (j + k) % Jubjub.order
                         /\ y = EcMul(a, k) /\ l = (j * k) % Jubjub.order
    OBVIOUS
  <2>7. Put("JubjubPoint", x, i) \/ Put("JubjubPoint", y, l)
    BY <2>1, <2>2, <2>6
  <2>8. Holds("JubjubPoint", x, i) /\ Holds("JubjubPoint", y, l)
    BY <2>5, <2>6
  <2> QED BY <2>7, <2>8, PutHolds
<1>3. CASE reg.kind = "JubjubScalar"
  <2>1. PICK e : e = exact
    OBVIOUS
  <2>2. e \in 0 .. Jubjub.order - 1 /\ reg.val = e
    BY <1>1, <1>3, <2>1 DEF RegisterHolds, Holds
  <2>3. PICK x : x = EcMulGenerator(e)
    OBVIOUS
  <2>4. Holds("JubjubPoint", x, e)
    BY <2>2, <2>3, JubjubGenerated, HoldsFlagged
  <2>5. Put("JubjubPoint", x, e)
    BY <1>3, <2>1, <2>2, <2>3 DEF PointStep
  <2> QED BY <2>4, <2>5, PutHolds
<1> QED BY <1>2, <1>3 DEF PointStep

(* Every step of a curve's built-ins.                                       *)
LEMMA PointsHold ==
  ASSUME RegisterHolds, Points
  PROVE  RegisterHolds'
<1>1. CASE reg.kind = "JubjubPoint" /\ Put("JubjubPoint", EcNeg(reg.val), (-exact) % Jubjub.order)
  <2>1. PICK a, j : a = reg.val /\ j = exact
    OBVIOUS
  <2>2. "JubjubPoint" \in PointKinds
    BY KindSets DEF PlainKinds
  <2>3. IsMultiple(Jubjub, a, j)
    BY <1>1, <2>1, <2>2 DEF RegisterHolds, Holds, Stands
  <2>4. PICK x, e : x = EcNeg(a) /\ e = (-j) % Jubjub.order
    OBVIOUS
  <2>5. IsMultiple(Jubjub, x, e)
    BY <2>3, <2>4, JubjubNegated
  <2>6. Put("JubjubPoint", x, e)
    BY <1>1, <2>1, <2>4
  <2> QED BY <2>5, <2>6, HoldsFlagged, PutHolds
<1> QED BY <1>1, Secp256k1Steps, Secp256r1Steps, Curve25519Steps, JubjubSteps DEF Points

(* A coordinate of the point that the register's value stands for.          *)
LEMMA CoordinateHolds ==
  ASSUME NEW point \in PointKinds, NEW base \in NumberKinds, NEW k, NEW p, Stands(point, p, k),
         point \in FlaggedKinds => ~p.identity,
         CoordinateMax(point) = Modulus[base] - 1
  PROVE  /\ Holds(base, p.x, Multiple(point, k).x)
         /\ Holds(base, p.y, Multiple(point, k).y)
<1>1. p = Multiple(point, k) /\ p \in TypeRange(TypeOf[point])
  BY FourPoints, StandsSame DEF FlaggedKinds, PlainKinds
<1>2. PICK m : m = CoordinateMax(point)
  OBVIOUS
<1>3. p.x \in 0 .. m /\ p.y \in 0 .. m
  <2>1. CASE point \in FlaggedKinds
    <3>1. p \in [x : 0 .. m, y : 0 .. m, identity : BOOLEAN]
      BY <1>1, <1>2, <2>1, FlaggedRanges
    <3> QED BY <3>1
  <2>2. CASE point \in PlainKinds
    <3>1. PICK a \in 0 .. m, b \in 0 .. m : p = [x |-> a, y |-> b]
      BY <1>1, <1>2, <2>2, PlainRanges
    <3> QED BY <3>1
  <2> QED BY <2>1, <2>2, FourPoints DEF FlaggedKinds, PlainKinds
<1>4. Holds(base, p.x, p.x) /\ Holds(base, p.y, p.y)
  BY <1>2, <1>3, HoldsNumber
<1> QED BY <1>1, <1>4

(* The coordinates of a Secp256k1Point.                                     *)
LEMMA Secp256k1PointCoordinates ==
  ASSUME RegisterHolds, Coordinates("Secp256k1Point", "Secp256k1Base", Secp256k1!HasCoordinates,
           Secp256k1!PointX, Secp256k1!PointY)
  PROVE  RegisterHolds'
<1>1. "Secp256k1Point" \in PointKinds /\ "Secp256k1Base" \in NumberKinds
         /\ CoordinateMax("Secp256k1Point") = Modulus["Secp256k1Base"] - 1
  BY KindSets, ConstantTypes DEF Modulus, ForeignKinds, FlaggedKinds, PlainKinds, CoordinateMax,
     SECP256K1_BASE_MODULUS, SECP256R1_BASE_MODULUS, CURVE25519_BASE_MODULUS, FIELD_MODULUS
<1>2. PICK p, k : p = reg.val /\ k = exact
  OBVIOUS
<1>3. Stands("Secp256k1Point", p, k)
  BY <1>1, <1>2 DEF RegisterHolds, Holds, Coordinates
<1>4. "Secp256k1Point" \in FlaggedKinds => ~p.identity
  BY <1>2 DEF Coordinates, FlaggedKinds, Secp256k1!HasCoordinates
<1>5. PICK i, j : i = Multiple("Secp256k1Point", k).x /\ j = Multiple("Secp256k1Point", k).y
  OBVIOUS
<1>6. Holds("Secp256k1Base", p.x, i) /\ Holds("Secp256k1Base", p.y, j)
  BY <1>1, <1>3, <1>4, <1>5, CoordinateHolds
<1>7. Put("Secp256k1Base", p.x, i) \/ Put("Secp256k1Base", p.y, j)
  BY <1>2, <1>5 DEF Coordinates, Secp256k1!PointX, Secp256k1!PointY
<1> QED BY <1>6, <1>7, PutHolds

(* The coordinates of a Secp256r1Point.                                     *)
LEMMA Secp256r1PointCoordinates ==
  ASSUME RegisterHolds, Coordinates("Secp256r1Point", "Secp256r1Base", Secp256r1!HasCoordinates,
           Secp256r1!PointX, Secp256r1!PointY)
  PROVE  RegisterHolds'
<1>1. "Secp256r1Point" \in PointKinds /\ "Secp256r1Base" \in NumberKinds
         /\ CoordinateMax("Secp256r1Point") = Modulus["Secp256r1Base"] - 1
  BY KindSets, ConstantTypes DEF Modulus, ForeignKinds, FlaggedKinds, PlainKinds, CoordinateMax,
     SECP256K1_BASE_MODULUS, SECP256R1_BASE_MODULUS, CURVE25519_BASE_MODULUS, FIELD_MODULUS
<1>2. PICK p, k : p = reg.val /\ k = exact
  OBVIOUS
<1>3. Stands("Secp256r1Point", p, k)
  BY <1>1, <1>2 DEF RegisterHolds, Holds, Coordinates
<1>4. "Secp256r1Point" \in FlaggedKinds => ~p.identity
  BY <1>2 DEF Coordinates, FlaggedKinds, Secp256r1!HasCoordinates
<1>5. PICK i, j : i = Multiple("Secp256r1Point", k).x /\ j = Multiple("Secp256r1Point", k).y
  OBVIOUS
<1>6. Holds("Secp256r1Base", p.x, i) /\ Holds("Secp256r1Base", p.y, j)
  BY <1>1, <1>3, <1>4, <1>5, CoordinateHolds
<1>7. Put("Secp256r1Base", p.x, i) \/ Put("Secp256r1Base", p.y, j)
  BY <1>2, <1>5 DEF Coordinates, Secp256r1!PointX, Secp256r1!PointY
<1> QED BY <1>6, <1>7, PutHolds

(* The coordinates of a Curve25519Point.                                    *)
LEMMA Curve25519PointCoordinates ==
  ASSUME RegisterHolds, Coordinates("Curve25519Point", "Curve25519Base", Always, Curve25519PointX,
           Curve25519PointY)
  PROVE  RegisterHolds'
<1>1. "Curve25519Point" \in PointKinds /\ "Curve25519Base" \in NumberKinds
         /\ CoordinateMax("Curve25519Point") = Modulus["Curve25519Base"] - 1
  BY KindSets, ConstantTypes DEF Modulus, ForeignKinds, FlaggedKinds, PlainKinds, CoordinateMax,
     SECP256K1_BASE_MODULUS, SECP256R1_BASE_MODULUS, CURVE25519_BASE_MODULUS, FIELD_MODULUS
<1>2. PICK p, k : p = reg.val /\ k = exact
  OBVIOUS
<1>3. Stands("Curve25519Point", p, k)
  BY <1>1, <1>2 DEF RegisterHolds, Holds, Coordinates
<1>4. "Curve25519Point" \in FlaggedKinds => ~p.identity
  BY <1>2 DEF Coordinates, FlaggedKinds
<1>5. PICK i, j : i = Multiple("Curve25519Point", k).x /\ j = Multiple("Curve25519Point", k).y
  OBVIOUS
<1>6. Holds("Curve25519Base", p.x, i) /\ Holds("Curve25519Base", p.y, j)
  BY <1>1, <1>3, <1>4, <1>5, CoordinateHolds
<1>7. Put("Curve25519Base", p.x, i) \/ Put("Curve25519Base", p.y, j)
  BY <1>2, <1>5 DEF Coordinates, Curve25519PointX, Curve25519PointY
<1> QED BY <1>6, <1>7, PutHolds

(* The coordinates of a JubjubPoint.                                        *)
LEMMA JubjubPointCoordinates ==
  ASSUME RegisterHolds, Coordinates("JubjubPoint", "Field", Always, JubjubPointX, JubjubPointY)
  PROVE  RegisterHolds'
<1>1. "JubjubPoint" \in PointKinds /\ "Field" \in NumberKinds
         /\ CoordinateMax("JubjubPoint") = Modulus["Field"] - 1
  BY KindSets, ConstantTypes DEF Modulus, ForeignKinds, FlaggedKinds, PlainKinds, CoordinateMax,
     SECP256K1_BASE_MODULUS, SECP256R1_BASE_MODULUS, CURVE25519_BASE_MODULUS, FIELD_MODULUS
<1>2. PICK p, k : p = reg.val /\ k = exact
  OBVIOUS
<1>3. Stands("JubjubPoint", p, k)
  BY <1>1, <1>2 DEF RegisterHolds, Holds, Coordinates
<1>4. "JubjubPoint" \in FlaggedKinds => ~p.identity
  BY <1>2 DEF Coordinates, FlaggedKinds
<1>5. PICK i, j : i = Multiple("JubjubPoint", k).x /\ j = Multiple("JubjubPoint", k).y
  OBVIOUS
<1>6. Holds("Field", p.x, i) /\ Holds("Field", p.y, j)
  BY <1>1, <1>3, <1>4, <1>5, CoordinateHolds
<1>7. Put("Field", p.x, i) \/ Put("Field", p.y, j)
  BY <1>2, <1>5 DEF Coordinates, JubjubPointX, JubjubPointY
<1> QED BY <1>6, <1>7, PutHolds

(* Every reading of a coordinate.                                           *)
LEMMA CoordinatesHold ==
  ASSUME RegisterHolds, ReadCoordinate
  PROVE  RegisterHolds'
BY Secp256k1PointCoordinates, Secp256r1PointCoordinates, Curve25519PointCoordinates,
         JubjubPointCoordinates DEF ReadCoordinate

(* A recovered key.                                                         *)
LEMMA RecoverHolds ==
  ASSUME RegisterHolds, RecoverKey
  PROVE  RegisterHolds'
<1>1. PICK n \in Nat \ {0} : n = K1.order /\ Modulus["Secp256k1Scalar"] = n
         /\ "Secp256k1Scalar" \in NumberKinds
  BY ModulusType, KindSets DEF Modulus, ForeignKinds, SECP256K1_SCALAR_MODULUS
<1>2. PICK key \in 1 .. K1.order - 1 : reg.val = key /\ exact = key
  <2>1. reg.kind = "Secp256k1Scalar" /\ reg.val # 0
    BY DEF RecoverKey
  <2>2. PICK e \in 0 .. n - 1 : reg.val = e /\ exact = e
    BY <1>1, <2>1 DEF RegisterHolds, Holds
  <2>3. e \in 1 .. n - 1
    BY <2>1, <2>2
  <2> QED BY <1>1, <2>2, <2>3
<1>3. PICK nonce, z, R, r, s, id :
         /\ nonce \in 1 .. K1.order - 1 /\ z \in 0 .. K1.order - 1
         /\ R = Multiple("Secp256k1Point", nonce) /\ r = R.x % K1.order
         /\ s = (InverseMod(nonce, K1.order) * (z + r * key)) % K1.order
         /\ id = (IF R.x >= K1.order THEN 2 ELSE 0) + (R.y % 2)
         /\ Secp256k1!CanRecover(Padded(Digits[z], FieldBytes), r, s, id)
         /\ Put("Secp256k1Point", Secp256k1!EcdsaRecover(z, r, s, id), key)
  BY <1>2 DEF RecoverKey
<1>4. z \in Int
  BY <1>1, <1>3
<1>5. PICK x : x = Secp256k1!EcdsaRecover(z, r, s, id)
  OBVIOUS
<1>6. StandsFor(K1, Secp256k1!EcdsaRecover(z, r, s, id), key)
  BY <1>3, <1>4, RecoveredKey
<1>7. Holds("Secp256k1Point", x, key)
  BY <1>5, <1>6, HoldsFlagged
<1>8. Put("Secp256k1Point", x, key)
  BY <1>3, <1>5
<1> QED BY <1>7, <1>8, PutHolds

------------------------------------------------------------------------------
(* The casts keep it. *)

(* A cast throws only for a value above its bound.                          *)
RefusedExceeds == refused = -1 \/ (refused \in Int /\ exact > refused)

(* A step that changes the register of an idle circuit refuses nothing. *)
LEMMA PutRefuses ==
  ASSUME Idle, NEW kind, NEW x, NEW e, Put(kind, x, e)
  PROVE  RefusedExceeds'
BY DEF Idle, Put, RefusedExceeds

(* A cast that throws leaves the register and names a bound that the value
   exceeds. *)
LEMMA RefuseHolds ==
  ASSUME RegisterHolds, NEW bound \in Int, NEW e, e = exact, e > bound, Refuse(bound)
  PROVE  RegisterHolds' /\ RefusedExceeds'
BY DEF RegisterHolds, Refuse, RefusedExceeds

(* A number in bytes that are long enough.                                  *)
LEMMA PaddedHolds ==
  ASSUME NEW kind \in ByteKinds, NEW n \in Nat, n = TypeOf[kind].length, NEW x \in Nat, Len(Digits[x]) <= n
  PROVE  Holds(kind, Padded(Digits[x], n), x)
<1>1. Digits[x] \in Atom /\ Number(Digits[x]) = x
  BY DigitsDefined, NumberOfDigits
<1>2. PICK b : b = Padded(Digits[x], n)
  OBVIOUS
<1>3. b \in Bytes(n) /\ Number(b) = x
  BY <1>1, <1>2, PaddedType, NumberOfPadded
<1>4. Holds(kind, b, Number(b))
  BY <1>3, HoldsBytes
<1> QED BY <1>2, <1>3, <1>4

(* The lengths of the two kinds of bytes. *)
LEMMA ByteLengths ==
  /\ TypeOf["Bytes"].length = BytesLength /\ TypeOf["Hash"].length = FieldBytes
  /\ "Bytes" \in ByteKinds /\ "Hash" \in ByteKinds
<1>1. "Bytes" \in ByteKinds /\ "Hash" \in ByteKinds
  BY DEF ByteKinds
<1> QED BY <1>1, ByteRanges

(* An element of the native field as the bytes of a hash.                   *)
LEMMA FieldInHash ==
  ASSUME NEW h \in 0 .. MAX_FIELD
  PROVE  /\ Holds("Hash", Padded(Digits[h], FieldBytes), h) /\ Holds("Field", h, h)
<1>1. PICK m \in Nat, n \in Nat : m = MAX_FIELD /\ n = FieldBytes /\ Len(Digits[m]) <= n
  BY ConstantTypes, BytesAssumption
<1>2. h \in 0 .. m /\ h \in Nat
  BY <1>1
<1>3. Len(Digits[h]) <= Len(Digits[m])
  BY <1>2, DigitsMonotone
<1>4. Digits[h] \in Atom /\ Digits[m] \in Atom
  BY <1>2, DigitsDefined
<1>5. PICK i \in Nat, j \in Nat : i = Len(Digits[h]) /\ j = Len(Digits[m])
  BY <1>4 DEF Atom
<1>6. Len(Digits[h]) <= n
  BY <1>1, <1>3, <1>5
<1>7. Holds("Hash", Padded(Digits[h], n), h)
  BY <1>1, <1>2, <1>6, ByteLengths, PaddedHolds
<1>8. "Field" \in NumberKinds /\ Modulus["Field"] - 1 = m
  BY <1>1, KindSets DEF Modulus, FIELD_MODULUS
<1>9. Holds("Field", h, h)
  BY <1>2, <1>8, HoldsNumber
<1> QED BY <1>1, <1>7, <1>9

(* The bytes of the register are an atom.                                   *)
LEMMA RegisterBytes ==
  ASSUME NEW kind \in ByteKinds, NEW v, NEW e, Holds(kind, v, e)
  PROVE  v \in Atom /\ Number(v) = e /\ e \in Nat /\ v \in Bytes(TypeOf[kind].length)
           /\ Len(v) = TypeOf[kind].length
<1>1. PICK n \in Nat : n = TypeOf[kind].length /\ TypeRange(TypeOf[kind]) = Bytes(n)
  BY ByteRanges
<1>2. v \in Bytes(n) /\ Number(v) = e
  BY <1>1 DEF Holds
<1>3. v \in Atom /\ Len(v) = n
  BY <1>2, BytesAreAtoms
<1>4. Number(v) \in Nat
  BY <1>3, NumberType
<1> QED BY <1>1, <1>2, <1>3, <1>4

(* The cast to bytes.                                                       *)
LEMMA ToBytesHolds ==
  ASSUME RegisterHolds, CastToBytes
  PROVE  RegisterHolds' /\ RefusedExceeds'
<1>1. PICK n \in Nat : n = BytesLength /\ n > 0
  BY ConstantTypes
<1>2. PICK kind \in NumberKinds : kind = reg.kind
  BY DEF CastToBytes
<1>3. PICK x \in Nat : x = reg.val /\ x = exact
  <2>1. PICK m \in Nat \ {0} : m = Modulus[kind]
    BY ModulusType
  <2>2. reg.val = exact /\ exact \in 0 .. m - 1
    BY <1>2, <2>1 DEF RegisterHolds, Holds
  <2>3. exact \in Nat
    BY <2>2
  <2> QED BY <2>2, <2>3
<1>4. CASE FitsBytes(n, x)
  <2>1. Len(Digits[x]) <= n
    BY <1>4 DEF FitsBytes
  <2>2. Holds("Bytes", Padded(Digits[x], n), x)
    BY <1>1, <2>1, ByteLengths, PaddedHolds
  <2>3. PICK b : b = Padded(Digits[x], n)
    OBVIOUS
  <2>4. Idle /\ Put("Bytes", b, x)
    BY <1>1, <1>3, <1>4, <2>3 DEF CastToBytes, ConvertBigintToBytes
  <2> QED BY <2>2, <2>3, <2>4, PutHolds, PutRefuses
<1>5. CASE ~FitsBytes(n, x)
  <2>1. PICK u \in Nat : u = Number(Full(n)) /\ Full(n) = MaxBytes
    <3>1. Full(n) \in Atom
      BY FullType
    <3>2. Number(Full(n)) \in Nat
      BY <3>1, NumberType
    <3>3. Full(n) = MaxBytes
      BY <1>1 DEF Full, MaxBytes
    <3> QED BY <3>2, <3>3
  <2>2. ~(Len(Digits[x]) <= n)
    BY <1>1, <1>5 DEF FitsBytes
  <2>3. ~(x <= u)
    BY <2>1, <2>2, DigitsShort DEF ShortUpTo
  <2>4. x > u /\ u \in Int
    BY <2>3
  <2>5. Refuse(u)
    BY <1>1, <1>3, <1>5, <2>1 DEF CastToBytes
  <2> QED BY <1>3, <2>4, <2>5, RefuseHolds
<1> QED BY <1>4, <1>5

(* The cast of bytes to a number that is checked against the maximum.       *)
LEMMA ToUintHolds ==
  ASSUME RegisterHolds, CastBytesToUint
  PROVE  RegisterHolds' /\ RefusedExceeds'
<1>1. PICK kind \in {"Uint", "Field"} :
         IF FitsUint(Modulus[kind] - 1, reg.val)
           THEN Put(kind, ConvertBytesToUint(reg.val), exact)
           ELSE Refuse(Modulus[kind] - 1)
  BY DEF CastBytesToUint
<1>2. kind \in NumberKinds
  BY KindSets
<1>3. PICK m \in Nat \ {0}, u \in Nat : m = Modulus[kind] /\ u = m - 1
  BY <1>2, ModulusType
<1>4. PICK a \in Atom, e \in Nat : a = reg.val /\ e = exact /\ Number(a) = e /\ Len(a) = BytesLength
  BY ByteLengths, RegisterBytes DEF RegisterHolds, CastBytesToUint
<1>5. Len(a) >= 1 /\ Len(a) \in Nat
  BY <1>4, ConstantTypes
<1>6. CASE FitsUint(u, a)
  <2>1. 1 \in DOMAIN a
    BY <1>5
  <2>2. SubSeq(a, 1, Len(a)) = a
    BY DEF Atom
  <2>3. e <= u
    BY <1>4, <1>6, <2>1, <2>2 DEF FitsUint
  <2>4. Holds(kind, e, e)
    <3>1. e \in 0 .. m - 1
      BY <1>3, <2>3
    <3> QED BY <1>2, <1>3, <3>1, HoldsNumber
  <2>5. Idle /\ Put(kind, e, e)
    BY <1>1, <1>3, <1>4, <1>6 DEF ConvertBytesToUint, CastBytesToUint
  <2> QED BY <2>4, <2>5, PutHolds, PutRefuses
<1>7. CASE ~FitsUint(u, a)
  <2>1. PICK i \in DOMAIN a : ~(Number(SubSeq(a, i, Len(a))) <= u)
    BY <1>7 DEF FitsUint
  <2>2. i \in 1 .. Len(a)
    OBVIOUS
  <2>3. Number(SubSeq(a, i, Len(a))) <= Number(a)
    BY <2>2, NumberOfEnd
  <2>4. SubSeq(a, i, Len(a)) \in Atom
    <3>1. PICK S : S = Byte
      OBVIOUS
    <3>2. a \in Seq(S) /\ i \in Int /\ Len(a) \in Int /\ i >= 1
      BY <1>5, <2>2, <3>1 DEF Atom
    <3>3. SubSeq(a, i, Len(a)) \in Seq(S)
      BY <2>2, <3>2, SubSeqProperties
    <3> QED BY <3>1, <3>3 DEF Atom
  <2>5. PICK w \in Nat : w = Number(SubSeq(a, i, Len(a)))
    BY <2>4, NumberType
  <2>6. e > u /\ u \in Int
    BY <1>4, <2>1, <2>3, <2>5
  <2>7. Refuse(u)
    BY <1>1, <1>3, <1>4, <1>7
  <2> QED BY <1>4, <2>6, <2>7, RefuseHolds
<1> QED BY <1>6, <1>7

(* The cast of bytes to a number that is reduced.                           *)
LEMMA ToFieldHolds ==
  ASSUME RegisterHolds, CastBytesToField
  PROVE  RegisterHolds' /\ RefusedExceeds'
<1>1. PICK kind \in NumberKinds : Put(kind, ConvertBytesToField(Modulus[kind] - 1, reg.val),
         exact % Modulus[kind])
  BY DEF CastBytesToField
<1>2. PICK m \in Nat \ {0} : m = Modulus[kind]
  BY ModulusType
<1>3. PICK a \in Atom, e \in Nat : a = reg.val /\ e = exact /\ Number(a) = e
  BY ByteLengths, RegisterBytes DEF RegisterHolds, CastBytesToField
<1>4. PICK x \in 0 .. m - 1 : x = e % m
  BY <1>2, <1>3, ResidueInRange
<1>5. ConvertBytesToField(m - 1, a) = x
  <2>1. m - 1 + 1 = m
    OBVIOUS
  <2> QED BY <1>3, <1>4, <2>1 DEF ConvertBytesToField
<1>6. Holds(kind, x, x)
  BY <1>2, <1>4, HoldsNumber
<1>7. Idle /\ Put(kind, x, x)
  BY <1>1, <1>2, <1>3, <1>4, <1>5 DEF CastBytesToField
<1> QED BY <1>6, <1>7, PutHolds, PutRefuses

(* The cast to a scalar of Jubjub.                                          *)
LEMMA ToScalarHolds ==
  ASSUME RegisterHolds, CastToJubjubScalar
  PROVE  RegisterHolds' /\ RefusedExceeds'
<1>1. PICK m \in Nat \ {0} : m = Modulus["JubjubScalar"] /\ m = JUBJUB_SCALAR_MODULUS
         /\ "JubjubScalar" \in NumberKinds
  BY ModulusType, KindSets DEF Modulus
<1>2. PICK e \in Nat : e = reg.val /\ e = exact
  <2>1. reg.kind \in NumberKinds
    BY KindSets DEF CastToJubjubScalar
  <2>2. PICK o \in Nat \ {0} : o = Modulus[reg.kind]
    BY <2>1, ModulusType
  <2>3. reg.val = exact /\ exact \in 0 .. o - 1
    BY <2>1, <2>2 DEF RegisterHolds, Holds
  <2> QED BY <2>3
<1>3. PICK x \in 0 .. m - 1 : x = e % m
  BY <1>2, ResidueInRange
<1>4. Idle /\ Put("JubjubScalar", x, x)
  BY <1>1, <1>2, <1>3 DEF CastToJubjubScalar, ConvertNumericToJubjubScalar
<1>5. Holds("JubjubScalar", x, x)
  BY <1>1, <1>3, HoldsNumber
<1> QED BY <1>4, <1>5, PutHolds, PutRefuses

------------------------------------------------------------------------------
(* The hashes keep it. *)

(* A hash of atoms is an element of the native field.                       *)
LEMMA HashPuts ==
  ASSUME NEW s \in Seq(Atom), NEW h, h = HashOf(s)
  PROVE  /\ h \in 0 .. MAX_FIELD
         /\ Holds("Hash", Padded(Digits[h], FieldBytes), h) /\ Holds("Field", h, h)
<1>1. h \in 0 .. MAX_FIELD
  BY HashType
<1> QED BY <1>1, FieldInHash

(* An atom appended to an array of atoms. *)
LEMMA AppendAtom ==
  ASSUME NEW s \in Seq(Atom), NEW a \in Atom
  PROVE  s \o <<a>> \in Seq(Atom) /\ <<a>> \in Seq(Atom)
<1>1. PICK S : S = Atom
  OBVIOUS
<1>2. s \o <<a>> \in Seq(S) /\ <<a>> \in Seq(S)
  BY <1>1
<1> QED BY <1>1, <1>2

(* The atom of the number one. *)
LEMMA DigitsOfOne == Digits[1] = <<1>> /\ <<1>> \in Atom
<1>1. Digits[1] = Written(Digits, 1) /\ Digits[0] = Written(Digits, 0) /\ Digits[1] \in Atom
  BY DigitsDefined
<1>2. 1 % Base = 1 /\ 1 \div Base = 0
  <2>1. PICK m \in Nat \ {0} : m = Base /\ m > 2
    BY ConstantTypes
  <2>6. PICK r \in 0 .. m - 1 : r = 1
    BY <2>1
  <2>2. r % m = r
    BY SmallRemainder
  <2>3. PICK q \in Nat : q = 1 \div Base /\ 1 = q * Base + (1 % Base)
    BY DivBase
  <2>4. q * m = 0
    BY <2>1, <2>2, <2>3, <2>6
  <2>5. q = 0
    <3>1. SUFFICES ASSUME q # 0 PROVE FALSE
      OBVIOUS
    <3>2. PICK w \in Nat : q = w + 1
      BY <3>1
    <3>3. q * m = w * m + m /\ w * m >= 0
      BY <3>2
    <3>4. PICK v \in Int : v = w * m
      OBVIOUS
    <3> QED BY <2>1, <2>4, <3>3, <3>4
  <2> QED BY <2>1, <2>2, <2>3, <2>5, <2>6
<1>3. Digits[1] = <<1>> \o <<>>
  <2>1. Written(Digits, 1) = <<1 % Base>> \o Digits[1 \div Base]
    BY DEF Written
  <2>2. Written(Digits, 0) = <<>>
    BY DEF Written
  <2>3. Written(Digits, 1) = <<1>> \o Digits[0]
    BY <1>2, <2>1
  <2> QED BY <1>1, <2>2, <2>3
<1> QED BY <1>1, <1>3

(* Hashing to a curve gives a multiple of the generator.                    *)
LEMMA HashedPoint ==
  ASSUME NEW t, NEW x, ToValue(t, x) \in Seq(Atom), NEW e, e = HashOf(ToValue(t, x)) % Jubjub.order
  PROVE  Holds("JubjubPoint", HashToCurve(t, x), e)
<1>1. PICK h \in Nat : h = HashOf(ToValue(t, x))
  <2>1. HashOf(ToValue(t, x)) \in 0 .. MAX_FIELD
    BY HashType
  <2> QED BY <2>1, ConstantTypes
<1>2. PICK c \in {K1, R1, C25519, Jubjub} : c = Jubjub
  OBVIOUS
<1>3. PICK m \in Nat \ {0} : m = Jubjub.order
  <2>1. c.order \in Nat /\ c.order > 4
    BY CurveTypes
  <2> QED BY <1>2, <2>1
<1>4. e \in 0 .. m - 1
  <2>1. h % m \in 0 .. m - 1
    BY ResidueInRange
  <2> QED BY <1>1, <1>3, <2>1
<1>5. HashToCurve(t, x) = EcMulGenerator(e)
  BY DEF HashToCurve, EcMulGenerator
<1>6. IsMultiple(Jubjub, EcMulGenerator(e), e)
  BY <1>3, <1>4, JubjubGenerated
<1> QED BY <1>5, <1>6, HoldsFlagged

(* A hash of the register's value.                                          *)
LEMMA HashHolds ==
  ASSUME RegisterHolds, HashStep
  PROVE  RegisterHolds'
<1>1. PICK kind, x, t : kind \in Kinds /\ kind = reg.kind /\ x = reg.val /\ t = TypeOf[kind]
         /\ Holds(kind, x, exact)
  BY DEF RegisterHolds, Holds
<1>2. x \in TypeRange(t) /\ IsType(t)
  BY <1>1, KindTypes DEF Holds
<1>3. PICK s \in Seq(Atom) : s = ToValue(t, x)
  <2>1. Encodes(ToValue(t, x), Alignment(t))
    BY <1>2, TypeEncodes
  <2> QED BY <2>1 DEF Encodes
<1>4. PICK h : h = HashOf(s)
  OBVIOUS
<1>5. Holds("Hash", Padded(Digits[h], FieldBytes), h) /\ Holds("Field", h, h)
  BY <1>4, HashPuts
<1>6. CASE Put("Hash", PersistentHash(t, x), HashOf(ToValue(t, x)))
  <2>1. PICK b : b = Padded(Digits[h], FieldBytes)
    OBVIOUS
  <2>2. Put("Hash", b, h)
    BY <1>3, <1>4, <1>6, <2>1 DEF PersistentHash
  <2> QED BY <1>5, <2>1, <2>2, PutHolds
<1>7. CASE HasBinaryRepr(t) /\ Put("Hash", Keccak256(t, x), HashOf(<<ToBinaryRepr(t, x)>>))
  <2>1. PICK r \in Atom : r = ToBinaryRepr(t, x)
    BY <1>1, <1>2, <1>7, ReprType
  <2>2. <<r>> \in Seq(Atom)
    BY <1>3, <2>1, AppendAtom
  <2>3. PICK g : g = HashOf(<<r>>)
    OBVIOUS
  <2>4. Holds("Hash", Padded(Digits[g], FieldBytes), g)
    BY <2>2, <2>3, HashPuts
  <2>5. PICK b : b = Padded(Digits[g], FieldBytes)
    OBVIOUS
  <2>6. Put("Hash", b, g)
    BY <1>7, <2>1, <2>3, <2>5 DEF Keccak256
  <2> QED BY <2>4, <2>5, <2>6, PutHolds
<1>8. CASE Put("Field", TransientHash(t, x), HashOf(ToValue(t, x)))
  <2>1. Put("Field", h, h)
    BY <1>3, <1>4, <1>8 DEF TransientHash
  <2> QED BY <1>5, <2>1, PutHolds
<1>9. CASE kind \in ByteKinds /\ Put("Hash", PersistentCommit(t, x, x), HashOf(ToValue(t,
         x) \o <<Trimmed(x)>>))
  <2>1. PICK e : e = exact
    OBVIOUS
  <2>2. x \in Atom
    BY <1>1, <1>9, <2>1, RegisterBytes
  <2>3. PICK a \in Atom : a = Trimmed(x)
    BY <2>2, TrimmedFacts
  <2>4. PICK w \in Seq(Atom) : w = s \o <<a>>
    BY AppendAtom
  <2>5. PICK g : g = HashOf(w)
    OBVIOUS
  <2>6. Holds("Hash", Padded(Digits[g], FieldBytes), g)
    BY <2>5, HashPuts
  <2>7. PICK b : b = Padded(Digits[g], FieldBytes)
    OBVIOUS
  <2>8. Put("Hash", b, g)
    BY <1>3, <1>9, <2>3, <2>4, <2>5, <2>7 DEF PersistentCommit
  <2> QED BY <2>6, <2>7, <2>8, PutHolds
<1>10. CASE Put("Field", TransientCommit(t, x, 1), HashOf(ToValue(t, x) \o <<<<1>>>>))
  <2>1. PICK a \in Atom : a = <<1>> /\ a = Digits[1]
    BY DigitsOfOne
  <2>2. PICK w \in Seq(Atom) : w = s \o <<a>>
    BY AppendAtom
  <2>3. PICK g : g = HashOf(w)
    OBVIOUS
  <2>4. Holds("Field", g, g)
    BY <2>3, HashPuts
  <2>5. Put("Field", g, g)
    BY <1>3, <1>10, <2>1, <2>2, <2>3 DEF TransientCommit
  <2> QED BY <2>4, <2>5, PutHolds
<1>11. CASE Put("JubjubPoint", HashToCurve(t, x), HashOf(ToValue(t, x)) % Jubjub.order)
  <2>1. PICK e, P : e = HashOf(ToValue(t, x)) % Jubjub.order /\ P = HashToCurve(t, x)
    OBVIOUS
  <2>2. Holds("JubjubPoint", P, e)
    BY <1>3, <2>1, HashedPoint
  <2>3. Put("JubjubPoint", P, e)
    BY <1>11, <2>1
  <2> QED BY <2>2, <2>3, PutHolds
<1>12. \/ Put("Hash", PersistentHash(t, x), HashOf(ToValue(t, x)))
       \/ HasBinaryRepr(t) /\ Put("Hash", Keccak256(t, x), HashOf(<<ToBinaryRepr(t, x)>>))
       \/ Put("Field", TransientHash(t, x), HashOf(ToValue(t, x)))
       \/ kind \in ByteKinds /\ Put("Hash", PersistentCommit(t, x, x), HashOf(ToValue(t,
                x) \o <<Trimmed(x)>>))
       \/ Put("Field", TransientCommit(t, x, 1), HashOf(ToValue(t, x) \o <<<<1>>>>))
       \/ Put("JubjubPoint", HashToCurve(t, x), HashOf(ToValue(t, x)) % Jubjub.order)
  BY <1>1 DEF HashStep
<1> QED BY <1>6, <1>7, <1>8, <1>9, <1>10, <1>11, <1>12

(* Between the hashes of the two families.                                  *)
LEMMA ConversionHolds ==
  ASSUME RegisterHolds, ConvertHash
  PROVE  RegisterHolds'
<1>1. PICK m \in Nat \ {0} : m = FIELD_MODULUS /\ m = Modulus["Field"] /\ m - 1 = MAX_FIELD
         /\ "Field" \in NumberKinds
  BY ConstantTypes, KindSets DEF FIELD_MODULUS, Modulus
<1>2. CASE reg.kind = "Hash" /\ Put("Field", DegradeToTransient(reg.val), exact % FIELD_MODULUS)
  <2>1. PICK a \in Atom, e \in Nat : a = reg.val /\ e = exact /\ Number(a) = e
    BY <1>2, ByteLengths, RegisterBytes DEF RegisterHolds
  <2>2. PICK x \in 0 .. m - 1 : x = e % m
    BY ResidueInRange
  <2>3. Holds("Field", x, x)
    BY <1>1, <2>2, HoldsNumber
  <2>4. Put("Field", x, x)
    BY <1>1, <1>2, <2>1, <2>2 DEF DegradeToTransient
  <2> QED BY <2>3, <2>4, PutHolds
<1>3. CASE reg.kind = "Field" /\ Put("Hash", UpgradeFromTransient(reg.val), exact)
  <2>1. PICK h \in 0 .. MAX_FIELD : h = reg.val /\ h = exact
    BY <1>1, <1>3 DEF RegisterHolds, Holds
  <2>2. PICK b : b = Padded(Digits[h], FieldBytes)
    OBVIOUS
  <2>3. Holds("Hash", b, h)
    BY <2>2, FieldInHash
  <2>4. Put("Hash", b, h)
    BY <1>3, <2>1, <2>2 DEF UpgradeFromTransient
  <2> QED BY <2>3, <2>4, PutHolds
<1> QED BY <1>2, <1>3 DEF ConvertHash

------------------------------------------------------------------------------
(* Every kind has an atom. *)

(* No alignment is empty, so that a cut encoding lacks an atom.             *)
LEMMA FlattenLong ==
  ASSUME NEW S, NEW s \in Seq(Seq(S)), NEW n \in Nat \ {0}, n = Len(s), Len(s[n]) > 0
  PROVE  Len(FlattenSeq(s)) > 0
<1>1. PICK h : Joined(S, s, h)
  BY FlattenJoins
<1>2. n \in 1 .. Len(s)
  OBVIOUS
<1>3. JoinStep(S, s, h, n)
  BY <1>1, <1>2, JoinedStep
<1>4. FlattenSeq(s) = h[n]
  BY <1>1 DEF Joined
<1>5. PICK c \in Seq(S), d \in Seq(S) : d = s[n] /\ h[n] = c \o d
  BY <1>3 DEF JoinStep
<1>6. Len(c \o d) = Len(c) + Len(d)
  BY ConcatProperties
<1>7. Len(c) \in Nat /\ Len(d) \in Nat
  OBVIOUS
<1> QED BY <1>4, <1>5, <1>6, <1>7

(* A type with parts has an atom. *)
LEMMA PartsLong ==
  ASSUME NEW p, IsParts(p), Len(p) > 0
  PROVE  Len(PartsAlignment(p)) > 0
<1>1. PICK as : as = [i \in 1 .. Len(p) |-> AtomicAlignment(p[i])]
  OBVIOUS
<1>2. PICK n \in Nat \ {0} : n = Len(p)
  <2>1. Len(p) \in Nat /\ Len(p) # 0
    BY DEF IsParts
  <2> QED BY <2>1
<1>3. as \in Seq(Seq(Int)) /\ Len(as) = n /\ as[n] = AtomicAlignment(p[n]) /\ IsAtomic(p[n])
  BY <1>1, <1>2, PartsAligned DEF IsParts
<1>4. Len(as[n]) > 0
  BY <1>3, AtomicWidths DEF AtomicWidth
<1>5. Len(FlattenSeq(as)) > 0
  BY <1>3, <1>4, FlattenLong
<1> QED BY <1>1, <1>5 DEF PartsAlignment

(* A simple type has an atom. *)
LEMMA SimpleLong ==
  ASSUME NEW t, IsSimple(t), t.tag = "Struct" => Len(t.parts) > 0
  PROVE  Len(SimpleAlignment(t)) > 0
<1>1. CASE IsAtomic(t)
  <2>1. t.tag \notin PartTags
    BY <1>1 DEF IsAtomic, IsForeign, PartTags
  <2>2. SimpleAlignment(t) = AtomicAlignment(t)
    BY <2>1, Unparted
  <2>3. Len(AtomicAlignment(t)) > 0
    BY <1>1, AtomicWidths DEF AtomicWidth
  <2> QED BY <2>2, <2>3
<1>2. CASE ~IsAtomic(t)
  <2>1. t.tag \in PartTags
    BY <1>2 DEF IsSimple, IsFlagged, PartTags
  <2>2. PICK p : p = t.parts
    OBVIOUS
  <2>3. IsParts(p) /\ Len(p) > 0
    <3>1. CASE IsFlagged(t)
      BY <2>2, <3>1, FlaggedParts
    <3> QED BY <1>2, <2>2, <3>1 DEF IsSimple
  <2>4. Len(PartsAlignment(p)) > 0
    BY <2>3, PartsLong
  <2> QED BY <2>1, <2>2, <2>4 DEF SimpleAlignment, PartsAlignment, PartTags
<1> QED BY <1>1, <1>2

(* A vector has an atom. *)
LEMMA VectorLong ==
  ASSUME NEW t, IsVector(t), t.length # 0, Len(SimpleAlignment(t.type)) > 0
  PROVE  Len(VectorAlignment(t)) > 0
<1>1. PICK as : as = [i \in 1 .. t.length |-> SimpleAlignment(t.type)]
  OBVIOUS
<1>2. PICK n \in Nat \ {0} : n = t.length
  BY DEF IsVector
<1>3. as \in Seq(Seq(Int)) /\ Len(as) = n /\ as[n] = SimpleAlignment(t.type)
  BY <1>1, <1>2, VectorAligned
<1>4. Len(FlattenSeq(as)) > 0
  BY <1>3, FlattenLong
<1> QED BY <1>1, <1>4 DEF VectorAlignment

(* The structs of the runtime have parts. *)
LEMMA StructsHaveParts ==
  /\ Len(CompactTypeMerkleTreePathEntry.parts) > 0
  /\ Len(ShieldedCoinInfoDescriptor.parts) > 0
  /\ Len(ShieldedCoinRecipientDescriptor.parts) > 0
BY DEF CompactTypeMerkleTreePathEntry, ShieldedCoinInfoDescriptor, ShieldedCoinRecipientDescriptor

(* The kinds whose types have neither a leaf nor a length.                  *)
LEMMA SimpleKinds ==
  ASSUME NEW kind \in Kinds, kind \notin {"Path", "Vector"}
  PROVE  IsSimple(TypeOf[kind]) /\ (TypeOf[kind].tag = "Struct" => Len(TypeOf[kind].parts) > 0)
<1>1. PICK t : t = TypeOf[kind]
  OBVIOUS
<1>2. CASE kind \in ForeignKinds
  <2>1. IsForeign(t)
    BY <1>1, <1>2, TypesOfKinds, ForeignTypes DEF ForeignKinds
  <2> QED BY <1>1, <2>1 DEF IsSimple, IsAtomic, IsForeign
<1>3. CASE kind \in {"Field", "JubjubScalar", "Uint", "Enum", "Bytes", "Hash", "Boolean", "Opaque"}
  <2>1. IsAtomic(t)
    BY <1>1, <1>3, TypesOfKinds, AtomicTypes
  <2>2. t.tag # "Struct"
    BY <2>1 DEF IsAtomic, IsForeign
  <2> QED BY <1>1, <2>1, <2>2 DEF IsSimple
<1>4. CASE kind \in FlaggedKinds
  <2>1. IsFlagged(t)
    BY <1>1, <1>4, TypesOfKinds, PartedTypes DEF FlaggedKinds
  <2> QED BY <1>1, <2>1 DEF IsSimple, IsFlagged
<1>5. CASE kind \in PlainKinds
  <2>1. IsSimple(t)
    BY <1>1, <1>5, TypesOfKinds, PartedTypes DEF PlainKinds
  <2>2. t.tag = "Point"
    BY <1>1, <1>5, PlainRanges
  <2> QED BY <1>1, <2>1, <2>2
<1>6. CASE kind \in {"PathEntry", "CoinInfo", "Recipient"}
  BY <1>6, TypesOfKinds, PartedTypes, StructsHaveParts
<1> QED BY <1>2, <1>3, <1>4, <1>5, <1>6, KindSets DEF ByteKinds, OtherKinds

(* Every kind has an atom, so a cut encoding is too short. *)
LEMMA KindsLong ==
  ASSUME NEW kind \in Kinds
  PROVE  Len(Alignment(TypeOf[kind])) > 0
<1>1. PICK t : t = TypeOf[kind] /\ IsType(t)
  BY KindTypes
<1>2. CASE kind = "Path"
  <2>1. t = CompactTypeMerkleTreePath(1, CompactTypeSecp256k1Point)
    BY <1>1, <1>2, TypesOfKinds
  <2>2. t.tag = "MerkleTreePath" /\ t.leaf = CompactTypeSecp256k1Point /\ IsPath(t)
    BY <1>1, <2>1, SimpleTag DEF CompactTypeMerkleTreePath, IsType, IsVector
  <2>3. IsSimple(t.leaf) /\ t.leaf.tag # "Struct" /\ IsVector(t.path)
    BY <2>2 DEF IsPath, CompactTypeSecp256k1Point
  <2>4. PICK l, v : l = SimpleAlignment(t.leaf) /\ v = VectorAlignment(t.path)
    OBVIOUS
  <2>5. Len(l) > 0
    BY <2>3, <2>4, SimpleLong
  <2>6. l \in Seq(Int) /\ v \in Seq(Int)
    <3>1. PICK z, as : z = t.path /\ as = [i \in 1 .. z.length |-> SimpleAlignment(z.type)]
      OBVIOUS
    <3>2. as \in Seq(Seq(Int))
      BY <2>3, <3>1, VectorAligned
    <3>3. FlattenSeq(as) \in Seq(Int)
      BY <3>2, FlattenType
    <3> QED BY <2>3, <2>4, <3>1, <3>3, SimpleAligned DEF VectorAlignment
  <2>7. Alignment(t) = l \o v
    BY <2>2, <2>4 DEF Alignment
  <2> QED BY <1>1, <2>5, <2>6, <2>7
<1>3. CASE kind = "Vector"
  <2>1. t = CompactTypeVector(2, CompactTypeSecp256k1Scalar)
    BY <1>1, <1>3, TypesOfKinds
  <2>2. t.tag = "Vector" /\ t.length = 2 /\ t.type = CompactTypeSecp256k1Scalar /\ IsVector(t)
    BY <1>1, <2>1, SimpleTag DEF CompactTypeVector, IsType, IsPath
  <2>3. IsSimple(t.type) /\ t.type.tag # "Struct"
    BY <2>2 DEF IsVector, CompactTypeSecp256k1Scalar, ForeignField8_24
  <2>4. Len(SimpleAlignment(t.type)) > 0
    BY <2>3, SimpleLong
  <2>5. Len(VectorAlignment(t)) > 0
    BY <2>2, <2>4, VectorLong
  <2> QED BY <1>1, <2>2, <2>5 DEF Alignment
<1>4. CASE kind \notin {"Path", "Vector"}
  <2>1. IsSimple(t) /\ (t.tag = "Struct" => Len(t.parts) > 0)
    BY <1>1, <1>4, SimpleKinds
  <2>2. t.tag # "MerkleTreePath" /\ t.tag # "Vector"
    BY <2>1, SimpleTag
  <2>3. Len(SimpleAlignment(t)) > 0
    BY <2>1, SimpleLong
  <2> QED BY <1>1, <2>2, <2>3 DEF Alignment
<1> QED BY <1>2, <1>3, <1>4

------------------------------------------------------------------------------
(* The encoding on its way. *)

(* A register that can be sent, and what is read back of it.                *)
IsEntry(r) == r.kind \in Kinds /\ r.val \in TypeRange(TypeOf[r.kind])
(* What a register reads back as. *)
Kept(r) == TypeNorm(TypeOf[r.kind], r.val)

(* The stages of an encoding: nothing was sent; one value was, and is       *)
(* whole, cut short or altered; or two values were, with junk behind them.  *)
Nothing == sent = <<>> /\ got = <<>> /\ wire = <<>> /\ harm = "none" /\ threw = FALSE

(* One value was sent and nothing happened to its encoding. *)
Whole(a) ==
  /\ sent = <<a>> /\ harm = "none" /\ threw = FALSE
  /\ \/ got = <<>> /\ wire = EncodingOf(a)
     \/ got = <<Kept(a)>> /\ wire = <<>>

(* One value was sent and its encoding cut. *)
Cut(a) ==
  /\ sent = <<a>> /\ harm = "cut" /\ got = <<>>
  /\ wire \in Seq(Atom) /\ Len(wire) < Len(Alignment(TypeOf[a.kind]))

(* One value was sent and an atom of its encoding replaced. *)
Altered(a) ==
  /\ sent = <<a>> /\ harm = "atom"
  /\ \/ got = <<>> /\ wire \in Seq(Atom)
     \/ \E v \in TypeRange(TypeOf[a.kind]) : got = <<v>>

(* Two values were sent, followed by Junk. *)
Both(a, b) ==
  /\ sent = <<a, b>> /\ harm = "none" /\ threw = FALSE
  /\ \/ got = <<>> /\ wire = EncodingOf(a) \o EncodingOf(b) \o <<Junk>>
     \/ got = <<Kept(a)>> /\ wire = EncodingOf(b) \o <<Junk>>
     \/ got = <<Kept(a), Kept(b)>> /\ wire = <<Junk>>

(* The first value sent is the register. *)
Sending(a) ==
  /\ a = reg /\ IsEntry(a) /\ refused = -1
  /\ Whole(a) \/ Cut(a) \/ Altered(a) \/ \E b : IsEntry(b) /\ Both(a, b)

(* Where the encoding is on its way. *)
Stage == Nothing \/ \E a : Sending(a)

(* While nothing is sent nothing is under way. *)
LEMMA IdleNothing ==
  ASSUME Stage, sent = <<>>
  PROVE  Nothing
<1>1. ASSUME NEW a, Sending(a) PROVE FALSE
  <2>1. \A b : <<a>> # <<>> /\ <<a, b>> # <<>>
    OBVIOUS
  <2>2. sent = <<a>> \/ \E b : sent = <<a, b>>
    BY <1>1 DEF Sending, Whole, Cut, Altered, Both
  <2> QED BY <2>1, <2>2
<1> QED BY <1>1 DEF Stage

(* A step that changes the register only leaves nothing under way. *)
LEMMA PutStage ==
  ASSUME Stage, Idle, NEW kind, NEW x, NEW e, Put(kind, x, e)
  PROVE  Stage'
<1>1. Nothing
  BY IdleNothing DEF Idle
<1>2. Nothing'
  BY <1>1 DEF Nothing, Put
<1> QED BY <1>2 DEF Stage

(* A cast that throws leaves nothing under way. *)
LEMMA RefuseStage ==
  ASSUME Stage, Idle, NEW b, Refuse(b)
  PROVE  Stage'
<1>1. Nothing
  BY IdleNothing DEF Idle
<1>2. Nothing'
  BY <1>1 DEF Nothing, Refuse
<1> QED BY <1>2 DEF Stage

(* What an entry's encoding is.                                             *)
LEMMA EntryEncodes ==
  ASSUME NEW a, IsEntry(a)
  PROVE  /\ EncodingOf(a) \in Seq(Atom) /\ Len(EncodingOf(a)) = Len(Alignment(TypeOf[a.kind]))
         /\ Len(EncodingOf(a)) > 0 /\ Accepts(TypeOf[a.kind], a.val) /\ Kept(a) \in TypeRange(TypeOf[a.kind])
<1>1. PICK kind, x, t : kind \in Kinds /\ kind = a.kind /\ x = a.val /\ t = TypeOf[kind]
  BY DEF IsEntry
<1>2. IsType(t) /\ x \in TypeRange(t)
  BY <1>1, KindTypes DEF IsEntry
<1>3. Encodes(ToValue(t, x), Alignment(t)) /\ Accepts(t, x) /\ TypeNorm(t, x) \in TypeRange(t)
  BY <1>2, TypeEncodes, TypeAccepted, NormInRange
<1>4. Len(Alignment(t)) > 0
  BY <1>1, KindsLong
<1> QED BY <1>1, <1>3, <1>4 DEF Encodes, EncodingOf, Kept

(* Its decoder reads it off whatever follows.                               *)
LEMMA EntryReads ==
  ASSUME NEW a, IsEntry(a), NEW rest \in Seq(Atom)
  PROVE  FromValue(TypeOf[a.kind], EncodingOf(a) \o rest) = Take(Kept(a), rest)
<1>1. PICK kind, x, t : kind \in Kinds /\ kind = a.kind /\ x = a.val /\ t = TypeOf[kind]
  BY DEF IsEntry
<1>2. IsType(t) /\ x \in TypeRange(t)
  BY <1>1, KindTypes DEF IsEntry
<1>3. FromValue(t, ToValue(t, x) \o rest) = Take(TypeNorm(t, x), rest)
  BY <1>2, TypeReads
<1> QED BY <1>1, <1>3 DEF EncodingOf, Kept

(* The encoding of a register, alone, reads back. *)
LEMMA EntryReadsAlone ==
  ASSUME NEW a, IsEntry(a)
  PROVE  FromValue(TypeOf[a.kind], EncodingOf(a)) = Take(Kept(a), <<>>)
<1>1. PICK none \in Seq(Atom) : none = <<>>
  <2>1. \A S : <<>> \in Seq(S)
    OBVIOUS
  <2> QED BY <2>1
<1>2. FromValue(TypeOf[a.kind], EncodingOf(a) \o none) = Take(Kept(a), none)
  BY EntryReads
<1>3. EncodingOf(a) \o <<>> = EncodingOf(a)
  <2>3. PICK S : S = Atom
    OBVIOUS
  <2>1. PICK s \in Seq(S) : s = EncodingOf(a)
    BY <2>3, EntryEncodes
  <2>2. s \o <<>> = s
    OBVIOUS
  <2> QED BY <2>1, <2>2
<1> QED BY <1>1, <1>2, <1>3

(* What the decoder of a register's kind accepts is a value of the kind, and
   its atoms are gone. *)
LEMMA EntrySound ==
  ASSUME NEW a, IsEntry(a), NEW v \in Seq(Atom), NEW o, o = FromValue(TypeOf[a.kind], v), o.ok
  PROVE  /\ o.val \in TypeRange(TypeOf[a.kind]) /\ o.rest \in Seq(Atom)
         /\ ~(Len(v) < Len(Alignment(TypeOf[a.kind])))
<1>1. PICK kind, t : kind \in Kinds /\ kind = a.kind /\ t = TypeOf[kind] /\ IsType(t)
  BY KindTypes DEF IsEntry
<1>2. Takes(o, Len(Alignment(t)), v, TypeRange(t))
  BY <1>1, TypeSound
<1>3. Len(Alignment(t)) \in Nat
  <2>1. Len(EncodingOf(a)) \in Nat
    BY EntryEncodes
  <2> QED BY <1>1, <2>1, EntryEncodes
<1>4. PICK n \in Nat, m \in Nat, k \in Nat : n = Len(Alignment(t)) /\ m = Len(o.rest) /\ k = Len(v)
         /\ k = n + m
  BY <1>2, <1>3 DEF Takes
<1>5. ~(k < n)
  BY <1>4
<1> QED BY <1>1, <1>2, <1>4, <1>5 DEF Takes

(* Junk is an array of one atom. *)
LEMMA JunkAtoms == <<Junk>> \in Seq(Atom)
<1>1. PICK w \in Byte : w = Base - 1
  BY ConstantTypes DEF Byte
<1>2. Junk \in Atom
  BY <1>1 DEF Junk, Atom
<1>4. PICK S : S = Atom
  OBVIOUS
<1>3. PICK j \in S : j = Junk
  BY <1>2, <1>4
<1>5. <<j>> \in Seq(S)
  OBVIOUS
<1> QED BY <1>3, <1>4, <1>5

(* What can follow the register on one array.                               *)
LEMMA SamplesInRange ==
  ASSUME NEW kind \in Kinds, NEW x \in Samples(kind)
  PROVE  x \in TypeRange(TypeOf[kind])
<1>1. CASE kind \in NumberKinds
  <2>1. PICK m \in Nat : m = Modulus[kind] /\ m > 1
    <3>1. kind \in {"Field", "JubjubScalar", "Uint", "Enum"} \cup ForeignKinds
      BY <1>1, KindSets
    <3>2. /\ K1.p > 4 /\ K1.order > 4 /\ R1.p > 4 /\ R1.order > 4
          /\ C25519.p > 4 /\ C25519.order > 4 /\ Jubjub.order > 4
      BY CurveTypes
    <3>3. PICK o \in Nat \ {0} : o = Modulus[kind]
      BY <1>1, ModulusType
    <3>4. PICK f \in Nat, u \in Nat, l \in Nat : f = MAX_FIELD /\ f > 3 /\ u = UintMax /\ u > 0
             /\ l = EnumMax /\ l > 0
      BY ConstantTypes
    <3>5. o > 1
      BY <3>1, <3>2, <3>3, <3>4 DEF Modulus, ForeignKinds, FIELD_MODULUS, JUBJUB_SCALAR_MODULUS,
               SECP256K1_BASE_MODULUS,
         SECP256K1_SCALAR_MODULUS, SECP256R1_BASE_MODULUS, SECP256R1_SCALAR_MODULUS, CURVE25519_BASE_MODULUS,
         CURVE25519_SCALAR_MODULUS
    <3> QED BY <3>3, <3>5
  <2>2. x \in {0, 1, m - 1}
    BY <1>1, <2>1, SortsDiffer, KindSets DEF Samples, ForeignKinds
  <2>3. x \in 0 .. m - 1
    BY <2>1, <2>2
  <2> QED BY <1>1, <2>1, <2>3, ModulusInRange
<1>2. CASE kind \in PointKinds
  <2>1. PICK n \in Nat : n = Order[kind] /\ n > 4
    <3>1. /\ K1.order \in Nat /\ R1.order \in Nat /\ C25519.order \in Nat /\ Jubjub.order \in Nat
          /\ K1.order > 4 /\ R1.order > 4 /\ C25519.order > 4 /\ Jubjub.order > 4
      BY CurveTypes
    <3> QED BY <1>2, <3>1, Orders, FourPoints
  <2>2. PICK k \in 0 .. n - 1 : x = Multiple(kind, k)
    <3>1. x = Multiple(kind, 0) \/ x = Multiple(kind, 1)
      BY <1>2, SortsDiffer, FourPoints DEF Samples
    <3> QED BY <2>1, <3>1
  <2>3. Stands(kind, x, k)
    BY <1>2, <2>1, <2>2, StandsMultiple
  <2> QED BY <1>2, <2>3, StandsSame
<1>3. CASE kind = "Bytes"
  <2>1. kind \in ByteKinds /\ TypeRange(TypeOf[kind]) = Bytes(BytesLength)
    BY <1>3, ByteLengths, ByteRanges
  <2>2. PICK b \in 0 .. 1 : x = [i \in 1 .. BytesLength |-> IF i = 1 THEN b ELSE 0]
    BY <1>3, <2>1, SortsDiffer DEF Samples
  <2>3. x \in Bytes(BytesLength)
    BY <2>2, ConstantTypes DEF Bytes
  <2> QED BY <2>1, <2>3
<1>4. CASE kind \notin NumberKinds /\ kind \notin PointKinds /\ kind # "Bytes"
  <2>1. x \in Values(kind)
    BY <1>4 DEF Samples
  <2> QED BY <2>1, ValuesInRange
<1> QED BY <1>1, <1>2, <1>3, <1>4

------------------------------------------------------------------------------
(* Encoding, damage and decoding. *)

(* The register can be sent. *)
LEMMA RegisterEntry ==
  ASSUME RegisterHolds
  PROVE  IsEntry(reg)
BY DEF RegisterHolds, Holds, IsEntry

(* Sequences of one and two elements.                                       *)
LEMMA ShortSequences ==
  ASSUME NEW a, NEW b
  PROVE  /\ Len(<<a>>) = 1 /\ Len(<<a, b>>) = 2 /\ <<a>>[1] = a /\ <<a, b>>[1] = a /\ <<a, b>>[2] = b
         /\ Append(<<>>, a) = <<a>> /\ Append(<<a>>, b) = <<a, b>> /\ Len(<<>>) = 0
<1>1. Len(<<a>>) = 1 /\ Len(<<a, b>>) = 2 /\ <<a>>[1] = a /\ <<a, b>>[1] = a /\ <<a, b>>[2] = b
         /\ Len(<<>>) = 0
  OBVIOUS
<1>2. Append(<<>>, a) = <<a>>
  OBVIOUS
<1>3. Append(<<a>>, b) = <<a, b>>
  <2>1. PICK S : S = {a, b}
    OBVIOUS
  <2>2. PICK c \in Seq(S), d \in S : c = <<a>> /\ d = b
    <3>1. <<a>> \in Seq(S) /\ b \in S
      BY <2>1
    <3> QED BY <3>1
  <2>3. Append(c, d) = c \o <<d>>
    BY AppendIsConcat
  <2> QED BY <2>2, <2>3, TwoConcat
<1> QED BY <1>1, <1>2, <1>3

(* Sending the register.                                                    *)
LEMMA EncodeStage ==
  ASSUME RegisterHolds, Stage, Encode
  PROVE  Stage'
<1>1. PICK a : a = reg /\ IsEntry(a)
  BY RegisterEntry
<1>2. Nothing /\ refused = -1
  BY IdleNothing DEF Encode, Idle
<1>3. threw' = FALSE
  <2>1. Accepts(TypeOf[a.kind], a.val)
    BY <1>1, EntryEncodes
  <2> QED BY <1>1, <2>1 DEF Encode
<1>4. reg' = a /\ refused' = -1 /\ got' = <<>> /\ harm' = "none"
  BY <1>1, <1>2 DEF Encode, Nothing
<1>5. CASE sent' = <<reg>> /\ wire' = EncodingOf(reg)
  <2>1. Whole(a)'
    BY <1>1, <1>3, <1>4, <1>5 DEF Whole
  <2>2. Sending(a)'
    BY <1>1, <1>4, <2>1 DEF Sending
  <2> QED BY <2>2 DEF Stage
<1>6. ASSUME NEW kind \in Kinds, NEW x \in Samples(kind), NEW b, b = [kind |-> kind, val |-> x],
             sent' = <<reg, b>>, wire' = EncodingOf(reg) \o EncodingOf(b) \o <<Junk>>
      PROVE  Stage'
  <2>1. IsEntry(b)
    BY <1>6, SamplesInRange DEF IsEntry
  <2>2. Both(a, b)'
    BY <1>1, <1>3, <1>4, <1>6 DEF Both
  <2>3. Sending(a)'
    BY <1>1, <1>4, <2>1, <2>2 DEF Sending
  <2> QED BY <2>3 DEF Stage
<1>7. (sent' = <<reg>> /\ wire' = EncodingOf(reg)) \/
      \E kind \in Kinds : \E x \in Samples(kind) : \E b :
        /\ b = [kind |-> kind, val |-> x]
        /\ sent' = <<reg, b>> /\ wire' = EncodingOf(reg) \o EncodingOf(b) \o <<Junk>>
  BY DEF Encode
<1> QED BY <1>5, <1>6, <1>7

(* Only a whole encoding of one value, none of it read, is damaged.         *)
LEMMA DamageStage ==
  ASSUME Stage, Damage
  PROVE  Stage'
<1>1. Len(sent) = 1 /\ got = <<>> /\ harm = "none" /\ UNCHANGED <<reg, refused, sent, got>>
  BY DEF Damage
<1>2. PICK a : Sending(a)
  BY <1>1, ShortSequences DEF Stage, Nothing
<1>3. Whole(a)
  <2>1. ASSUME NEW b, Both(a, b) PROVE FALSE
    <3>1. sent = <<a, b>>
      BY <2>1 DEF Both
    <3> QED BY <1>1, <3>1
  <2> QED BY <1>1, <1>2, <2>1 DEF Sending, Cut, Altered
<1>4. PICK w \in Seq(Atom), n \in Nat : w = wire /\ n = Len(w) /\ n > 0 /\ n = Len(Alignment(TypeOf[a.kind]))
  <2>1. wire = EncodingOf(a)
    BY <1>1, <1>3 DEF Whole
  <2>2. PICK w \in Seq(Atom) : w = EncodingOf(a) /\ Len(w) > 0 /\ Len(w) = Len(Alignment(TypeOf[a.kind]))
    BY <1>2, EntryEncodes DEF Sending
  <2>3. PICK n \in Nat : n = Len(w)
    OBVIOUS
  <2> QED BY <2>1, <2>2, <2>3
<1>5. CASE harm' = "cut" /\ wire' = SubSeq(wire, 1, Len(wire) - 1)
  <2>1. PICK S : S = Atom
    OBVIOUS
  <2>2. w \in Seq(S)
    BY <1>4, <2>1
  <2>3. PICK v : v = SubSeq(w, 1, n - 1)
    OBVIOUS
  <2>9. n = Len(w) /\ n - 1 \in 0 .. Len(w)
    BY <1>4
  <2>10. Len(v) = n - 1
    BY <2>2, <2>3, <2>9, SubSeqProperties
  <2>11. v \in Seq(S)
    BY <2>2, <2>3, <2>9, SubSeqProperties
  <2>4. v \in Seq(S) /\ Len(v) = n - 1
    BY <2>10, <2>11
  <2>5. wire' = v
    BY <1>4, <1>5, <2>3
  <2>6. v \in Seq(Atom) /\ Len(v) < Len(Alignment(TypeOf[a.kind]))
    BY <1>4, <2>1, <2>4
  <2>7. Cut(a)'
    BY <1>1, <1>3, <1>5, <2>5, <2>6 DEF Cut, Whole
  <2>8. Sending(a)'
    BY <1>1, <1>2, <2>7 DEF Sending
  <2> QED BY <2>8 DEF Stage
<1>6. ASSUME NEW i \in DOMAIN wire, NEW at \in Atoms, harm' = "atom", wire' = [wire EXCEPT ![i] = at]
      PROVE  Stage'
  <2>1. at \in Atom
    BY ValuesAssumption DEF Atom, Byte
  <2>2. PICK S : S = Atom
    OBVIOUS
  <2>3. w \in Seq(S) /\ at \in S /\ i \in DOMAIN w
    BY <1>4, <2>1, <2>2
  <2>4. [w EXCEPT ![i] = at] \in Seq(S)
    BY <2>3
  <2>5. wire' \in Seq(Atom)
    BY <1>4, <1>6, <2>2, <2>4
  <2>6. Altered(a)'
    BY <1>1, <1>3, <1>6, <2>5 DEF Altered, Whole
  <2>7. Sending(a)'
    BY <1>1, <1>2, <2>6 DEF Sending
  <2> QED BY <2>7 DEF Stage
<1> QED BY <1>5, <1>6 DEF Damage

(* Decoding the next value.                                                 *)
LEMMA DecodeStep ==
  ASSUME Decode, NEW a, NEW o, o = FromValue(TypeOf[a.kind], wire), NEW g, NEW s, g = got, s = sent,
           s[Len(g) + 1] = a
  PROVE  /\ UNCHANGED <<reg, refused, sent, harm>>
         /\ o.ok => got' = Append(got, o.val) /\ wire' = o.rest /\ threw' = threw
         /\ ~o.ok => got' = got /\ wire' = wire /\ threw' = TRUE
BY DEF Decode

(* Decoding the only value sent. *)
LEMMA DecodeWhole ==
  ASSUME NEW a, Sending(a), Whole(a), Decode
  PROVE  Sending(a)'
<1>1. sent = <<a>> /\ Len(sent) = 1 /\ sent[1] = a
  BY ShortSequences DEF Whole
<1>2. got = <<>> /\ wire = EncodingOf(a)
  <2>1. ASSUME got = <<Kept(a)>> PROVE FALSE
    <3>1. Len(got) = 1 /\ Len(got) < Len(sent)
      BY <2>1, ShortSequences DEF Decode
    <3> QED BY <1>1, <3>1
  <2> QED BY <2>1 DEF Whole
<1>3. PICK o, k : o = FromValue(TypeOf[a.kind], wire) /\ k = Kept(a)
  OBVIOUS
<1>4. IsEntry(a)
  BY DEF Sending
<1>5. o = Take(k, <<>>)
  BY <1>2, <1>3, <1>4, EntryReadsAlone
<1>6. o.ok /\ o.val = k /\ o.rest = <<>>
  BY <1>5, TakeFacts
<1>7. PICK g, s : g = got /\ s = sent
  OBVIOUS
<1>8. s[Len(g) + 1] = a
  BY <1>1, <1>2, <1>7, ShortSequences
<1>9. UNCHANGED <<reg, refused, sent, harm>> /\ got' = Append(got, k) /\ wire' = <<>> /\ threw' = threw
  BY <1>3, <1>6, <1>7, <1>8, DecodeStep
<1>10. got' = <<k>>
  BY <1>2, <1>9, ShortSequences
<1>11. Whole(a)'
  BY <1>3, <1>9, <1>10 DEF Whole
<1> QED BY <1>9, <1>11 DEF Sending

(* Decoding a cut encoding throws. *)
LEMMA DecodeCut ==
  ASSUME NEW a, Sending(a), Cut(a), Decode
  PROVE  Sending(a)'
<1>1. sent = <<a>> /\ sent[1] = a /\ got = <<>>
  BY ShortSequences DEF Cut
<1>7. PICK v \in Seq(Atom) : v = wire
  BY DEF Cut
<1>2. PICK o, g, s : o = FromValue(TypeOf[a.kind], v) /\ v = wire /\ g = got /\ s = sent
  BY <1>7
<1>3. IsEntry(a) /\ Len(v) < Len(Alignment(TypeOf[a.kind]))
  BY <1>2 DEF Sending, Cut
<1>4. ~o.ok
  BY <1>2, <1>3, EntrySound
<1>5. s[Len(g) + 1] = a
  BY <1>1, <1>2, ShortSequences
<1>6. UNCHANGED <<reg, refused, sent, harm>> /\ got' = got /\ wire' = wire
  BY <1>2, <1>4, <1>5, DecodeStep
<1>8. Cut(a)'
  BY <1>6 DEF Cut
<1> QED BY <1>6, <1>8 DEF Sending

(* Decoding an altered encoding throws or reads a value of the type. *)
LEMMA DecodeAltered ==
  ASSUME NEW a, Sending(a), Altered(a), Decode
  PROVE  Sending(a)'
<1>1. sent = <<a>> /\ Len(sent) = 1 /\ sent[1] = a
  BY ShortSequences DEF Altered
<1>2. got = <<>> /\ wire \in Seq(Atom)
  <2>1. ASSUME NEW v, got = <<v>> PROVE FALSE
    <3>1. Len(got) = 1 /\ Len(got) < Len(sent)
      BY <2>1, ShortSequences DEF Decode
    <3> QED BY <1>1, <3>1
  <2> QED BY <2>1 DEF Altered
<1>8. PICK v \in Seq(Atom) : v = wire
  BY <1>2
<1>3. PICK o, g, s : o = FromValue(TypeOf[a.kind], v) /\ v = wire /\ g = got /\ s = sent
  BY <1>8
<1>4. IsEntry(a)
  BY DEF Sending
<1>5. s[Len(g) + 1] = a
  BY <1>1, <1>2, <1>3, ShortSequences
<1>6. CASE ~o.ok
  <2>1. UNCHANGED <<reg, refused, sent, harm>> /\ got' = got /\ wire' = wire
    BY <1>3, <1>5, <1>6, DecodeStep
  <2>2. Altered(a)'
    BY <2>1 DEF Altered
  <2> QED BY <2>1, <2>2 DEF Sending
<1>7. CASE o.ok
  <2>1. UNCHANGED <<reg, refused, sent, harm>> /\ got' = Append(got, o.val)
    BY <1>3, <1>5, <1>7, DecodeStep
  <2>2. PICK x \in TypeRange(TypeOf[a.kind]) : x = o.val
    BY <1>3, <1>4, <1>7, EntrySound
  <2>3. got' = <<x>>
    BY <1>2, <2>1, <2>2, ShortSequences
  <2>4. Altered(a)'
    BY <2>1, <2>3 DEF Altered
  <2> QED BY <2>1, <2>4 DEF Sending
<1> QED BY <1>6, <1>7

(* Decoding the first or the second of two values. *)
LEMMA DecodeBoth ==
  ASSUME NEW a, Sending(a), NEW b, IsEntry(b), Both(a, b), Decode
  PROVE  Sending(a)'
<1>1. sent = <<a, b>> /\ Len(sent) = 2 /\ sent[1] = a /\ sent[2] = b /\ IsEntry(a)
  BY ShortSequences DEF Both, Sending
<1>7. PICK j \in Seq(Atom) : j = <<Junk>>
  BY JunkAtoms
<1>2. PICK k, l, d, e : k = Kept(a) /\ l = Kept(b) /\ d = EncodingOf(a) /\ e = EncodingOf(b) /\ j = <<Junk>>
  BY <1>7
<1>3. PICK g, s : g = got /\ s = sent
  OBVIOUS
<1>4. CASE got = <<>> /\ wire = EncodingOf(a) \o EncodingOf(b) \o <<Junk>>
  <2>1. PICK S : S = Atom
    OBVIOUS
  <2>2. d \in Seq(S) /\ e \in Seq(S) /\ j \in Seq(S)
    BY <1>1, <1>2, <2>1, EntryEncodes
  <2>3. (d \o e) \o j = d \o (e \o j) /\ e \o j \in Seq(S)
    BY <2>2
  <2>4. PICK rest \in Seq(Atom) : rest = e \o j
    BY <2>1, <2>3
  <2>5. wire = d \o rest
    BY <1>2, <1>4, <2>3, <2>4
  <2>6. PICK o : o = FromValue(TypeOf[a.kind], wire)
    OBVIOUS
  <2>7. o = Take(k, rest)
    BY <1>1, <1>2, <2>5, <2>6, EntryReads
  <2>8. o.ok /\ o.val = k /\ o.rest = rest
    BY <2>7, TakeFacts
  <2>9. s[Len(g) + 1] = a
    BY <1>1, <1>3, <1>4, ShortSequences
  <2>10. UNCHANGED <<reg, refused, sent, harm>> /\ got' = Append(got, k) /\ wire' = rest /\ threw' = threw
    BY <1>3, <2>6, <2>8, <2>9, DecodeStep
  <2>11. got' = <<k>>
    BY <1>4, <2>10, ShortSequences
  <2>12. Both(a, b)'
    BY <1>1, <1>2, <2>4, <2>10, <2>11 DEF Both
  <2> QED BY <2>10, <2>12 DEF Sending
<1>5. CASE got = <<Kept(a)>> /\ wire = EncodingOf(b) \o <<Junk>>
  <2>1. PICK o : o = FromValue(TypeOf[b.kind], wire)
    OBVIOUS
  <2>2. o = Take(l, j)
    BY <1>2, <1>5, <2>1, EntryReads
  <2>3. o.ok /\ o.val = l /\ o.rest = j
    BY <2>2, TakeFacts
  <2>4. s[Len(g) + 1] = b
    <3>1. g = <<k>> /\ Len(g) = 1
      BY <1>2, <1>3, <1>5, ShortSequences
    <3> QED BY <1>1, <1>3, <3>1
  <2>5. UNCHANGED <<reg, refused, sent, harm>> /\ got' = Append(got, l) /\ wire' = j /\ threw' = threw
    BY <1>3, <2>1, <2>3, <2>4, DecodeStep
  <2>6. got' = <<k, l>>
    BY <1>2, <1>5, <2>5, ShortSequences
  <2>7. Both(a, b)'
    BY <1>1, <1>2, <2>5, <2>6 DEF Both
  <2> QED BY <1>1, <2>5, <2>7 DEF Sending
<1>6. CASE got = <<Kept(a), Kept(b)>>
  <2>1. Len(got) = 2 /\ Len(got) < Len(sent)
    BY <1>6, ShortSequences DEF Decode
  <2> QED BY <1>1, <2>1
<1> QED BY <1>4, <1>5, <1>6 DEF Both

(* Decoding, whatever was sent. *)
LEMMA DecodeStage ==
  ASSUME Stage, Decode
  PROVE  Stage'
<1>1. PICK a : Sending(a)
  <2>1. ~Nothing
    <3>1. SUFFICES ASSUME Nothing PROVE FALSE
      OBVIOUS
    <3>2. Len(got) = 0 /\ Len(sent) = 0 /\ Len(got) < Len(sent)
      BY <3>1, ShortSequences DEF Nothing, Decode
    <3> QED BY <3>2
  <2> QED BY <2>1 DEF Stage
<1>2. Sending(a)'
  BY <1>1, DecodeWhole, DecodeCut, DecodeAltered, DecodeBoth DEF Sending
<1> QED BY <1>2 DEF Stage

------------------------------------------------------------------------------
(* The inductive invariant. *)

(* What is read back of the register stands for what the register did.      *)
LEMMA KeptHolds ==
  ASSUME NEW kind, NEW v, NEW e, Holds(kind, v, e), NEW w, w = TypeNorm(TypeOf[kind], v)
  PROVE  Holds(kind, w, e)
<1>1. PICK t : t = TypeOf[kind] /\ IsType(t) /\ v \in TypeRange(t)
  BY KindTypes DEF Holds
<1>2. w \in TypeRange(t)
  BY <1>1, NormInRange
<1>3. kind \in NumberKinds \cup ByteKinds => w = v
  BY NormIdentity
<1>4. kind \in PointKinds => Stands(kind, w, e)
  BY StandsNorm DEF Holds
<1> QED BY <1>1, <1>2, <1>3, <1>4 DEF Holds

(* The circuit goes on with the first value.                                *)
LEMMA ResumeHolds ==
  ASSUME RegisterHolds, Stage, Resume
  PROVE  RegisterHolds' /\ Stage' /\ refused' = -1
<1>1. sent # <<>> /\ Len(got) = Len(sent) /\ harm = "none"
  BY DEF Resume
<1>2. PICK a : Sending(a)
  BY <1>1 DEF Stage, Nothing
<1>3. threw = FALSE /\ got[1] = Kept(a) /\ a = reg /\ refused = -1
  <2>1. CASE Whole(a)
    <3>1. Len(sent) = 1 /\ Len(got) = 1
      BY <1>1, <2>1, ShortSequences DEF Whole
    <3>2. got = <<Kept(a)>>
      BY <2>1, <3>1, ShortSequences DEF Whole
    <3> QED BY <1>2, <2>1, <3>2, ShortSequences DEF Whole, Sending
  <2>2. ASSUME NEW b, Both(a, b) PROVE threw = FALSE /\ got[1] = Kept(a)
    <3>1. Len(sent) = 2 /\ Len(got) = 2
      BY <1>1, <2>2, ShortSequences DEF Both
    <3>4. PICK k, l : k = Kept(a) /\ l = Kept(b)
      OBVIOUS
    <3>5. got = <<>> \/ got = <<k>> \/ got = <<k, l>>
      BY <2>2, <3>4 DEF Both
    <3>6. Len(<<>>) = 0 /\ Len(<<k>>) = 1
      BY ShortSequences
    <3>2. got = <<Kept(a), Kept(b)>>
      BY <3>1, <3>4, <3>5, <3>6
    <3> QED BY <2>2, <3>2, ShortSequences DEF Both
  <2> QED BY <1>1, <1>2, <2>1, <2>2 DEF Sending, Cut, Altered
<1>4. PICK kind, v, e, w : kind = a.kind /\ v = a.val /\ e = exact /\ w = Kept(a)
  OBVIOUS
<1>5. a = [kind |-> kind, val |-> v] /\ Holds(kind, v, e)
  BY <1>3, <1>4 DEF RegisterHolds
<1>6. Holds(kind, w, e)
  BY <1>4, <1>5, KeptHolds DEF Kept
<1>7. reg' = [kind |-> kind, val |-> w]
  <2>1. reg' = [reg EXCEPT !.val = got[1]]
    BY DEF Resume
  <2> QED BY <1>3, <1>4, <1>5, <2>1
<1>8. reg'.kind = kind /\ reg'.val = w /\ exact' = e
  BY <1>4, <1>7 DEF Resume
<1>9. RegisterHolds'
  BY <1>6, <1>7, <1>8 DEF RegisterHolds
<1>10. Nothing' /\ refused' = -1
  BY <1>1, <1>3 DEF Resume, Nothing
<1> QED BY <1>9, <1>10 DEF Stage

(* The register of a new circuit. *)
LEMMA ZeroHolds == Holds("Field", 0, 0)
<1>1. PICK m \in Nat \ {0} : m = Modulus["Field"] /\ "Field" \in NumberKinds
  BY ModulusType, KindSets
<1>2. 0 \in 0 .. m - 1
  OBVIOUS
<1> QED BY <1>1, <1>2, HoldsNumber

(* The invariant.                                                           *)
ValuesInv == RegisterHolds /\ RefusedExceeds /\ Stage

(* The first state. *)
LEMMA InitValues == Init => ValuesInv
<1>1. SUFFICES ASSUME Init PROVE ValuesInv
  OBVIOUS
<1>2. reg = [kind |-> "Field", val |-> 0] /\ exact = 0
  <2>1. Exact("Field", 0) = 0
    BY KindSets, SortsDiffer DEF Exact
  <2> QED BY <1>1, <2>1 DEF Init, Holding
<1>3. reg.kind = "Field" /\ reg.val = 0
  BY <1>2
<1>4. RegisterHolds
  BY <1>2, <1>3, ZeroHolds DEF RegisterHolds
<1>5. RefusedExceeds /\ Nothing
  BY <1>1 DEF Init, RefusedExceeds, Nothing
<1> QED BY <1>4, <1>5 DEF ValuesInv, Stage

(* A new circuit. *)
LEMMA NewCircuitValues ==
  ASSUME NewCircuit
  PROVE  ValuesInv'
<1>1. reg' = [kind |-> "Field", val |-> 0] /\ exact' = 0 /\ refused' = -1 /\ Nothing'
  BY DEF NewCircuit, Nothing
<1>2. reg'.kind = "Field" /\ reg'.val = 0
  BY <1>1
<1>3. RegisterHolds'
  BY <1>1, <1>2, ZeroHolds DEF RegisterHolds
<1> QED BY <1>1, <1>3 DEF ValuesInv, Stage, RefusedExceeds

(* Every step but those of the wire puts a value or refuses.                *)
LEMMA ArgumentHolds ==
  ASSUME RegisterHolds, Argument
  PROVE  RegisterHolds'
<1>1. PICK kind, x, e : kind \in Kinds /\ x \in Values(kind) /\ e = Exact(kind, x) /\ Put(kind, x, e)
  BY DEF Argument
<1>2. Holds(kind, x, e)
  BY <1>1, HoldsArgument
<1> QED BY <1>1, <1>2, PutHolds

(* A step that changes the register only. *)
Puts == Idle /\ \E kind, x, e : Put(kind, x, e)

(* A step that changes the register only leaves the rest of the invariant. *)
LEMMA PutsValues ==
  ASSUME ValuesInv, Puts
  PROVE  RefusedExceeds' /\ Stage'
BY PutRefuses, PutStage DEF Puts, ValuesInv

(* The arithmetic steps change the register only. *)
LEMMA ArithmeticPuts ==
  ASSUME Arithmetic
  PROVE  Puts
<1>1. \A kind : Sums(kind, Native!Add, Native!Sub, Native!Mul) => Puts
  BY DEF Sums, Puts
<1>2. \A kind : Sums(kind, Secp256k1Base!Add, Secp256k1Base!Sub, Secp256k1Base!Mul) => Puts
  BY DEF Sums, Puts
<1>3. \A kind : Sums(kind, Secp256k1Scalar!Add, Secp256k1Scalar!Sub, Secp256k1Scalar!Mul) => Puts
  BY DEF Sums, Puts
<1>4. \A kind : Sums(kind, Secp256r1Base!Add, Secp256r1Base!Sub, Secp256r1Base!Mul) => Puts
  BY DEF Sums, Puts
<1>5. \A kind : Sums(kind, Secp256r1Scalar!Add, Secp256r1Scalar!Sub, Secp256r1Scalar!Mul) => Puts
  BY DEF Sums, Puts
<1>6. \A kind : Sums(kind, Curve25519Base!Add, Curve25519Base!Sub, Curve25519Base!Mul) => Puts
  BY DEF Sums, Puts
<1>7. \A kind : Sums(kind, Curve25519Scalar!Add, Curve25519Scalar!Sub, Curve25519Scalar!Mul) => Puts
  BY DEF Sums, Puts
<1>8. \A kind : Inverses(kind, Secp256k1Base!Neg, Secp256k1Base!Invertible, Secp256k1Base!Inv) => Puts
  BY DEF Inverses, Puts
<1>9. \A kind : Inverses(kind, Secp256k1Scalar!Neg, Secp256k1Scalar!Invertible, Secp256k1Scalar!Inv) => Puts
  BY DEF Inverses, Puts
<1>10. \A kind : Inverses(kind, Secp256r1Base!Neg, Secp256r1Base!Invertible, Secp256r1Base!Inv) => Puts
  BY DEF Inverses, Puts
<1>11. \A kind : Inverses(kind, Secp256r1Scalar!Neg, Secp256r1Scalar!Invertible, Secp256r1Scalar!Inv) => Puts
  BY DEF Inverses, Puts
<1>12. \A kind : Inverses(kind, Curve25519Base!Neg, Curve25519Base!Invertible, Curve25519Base!Inv) => Puts
  BY DEF Inverses, Puts
<1>13. \A kind : Inverses(kind, Curve25519Scalar!Neg, Curve25519Scalar!Invertible,
         Curve25519Scalar!Inv) => Puts
  BY DEF Inverses, Puts
<1> QED BY <1>1, <1>2, <1>3, <1>4, <1>5, <1>6, <1>7, <1>8, <1>9, <1>10, <1>11, <1>12, <1>13 DEF Arithmetic

(* The steps on points change the register only. *)
LEMMA PointsPut ==
  ASSUME Points
  PROVE  Puts
<1>1. \A p, s : PointStep(p, s, Secp256k1!PlusPoint, Secp256k1!TimesPoint, Secp256k1!MulGenerator) => Puts
  BY DEF PointStep, Puts
<1>2. \A p, s : PointStep(p, s, Secp256r1!PlusPoint, Secp256r1!TimesPoint, Secp256r1!MulGenerator) => Puts
  BY DEF PointStep, Puts
<1>3. \A p, s : PointStep(p, s, Curve25519Add, Curve25519Mul, Curve25519MulGenerator) => Puts
  BY DEF PointStep, Puts
<1>4. \A p, s : PointStep(p, s, EcAdd, EcMul, EcMulGenerator) => Puts
  BY DEF PointStep, Puts
<1> QED BY <1>1, <1>2, <1>3, <1>4 DEF Points, Puts

(* Reading a coordinate changes the register only. *)
LEMMA CoordinatesPut ==
  ASSUME ReadCoordinate
  PROVE  Puts
<1>1. \A p, b : Coordinates(p, b, Secp256k1!HasCoordinates, Secp256k1!PointX, Secp256k1!PointY) => Puts
  BY DEF Coordinates, Puts
<1>2. \A p, b : Coordinates(p, b, Secp256r1!HasCoordinates, Secp256r1!PointX, Secp256r1!PointY) => Puts
  BY DEF Coordinates, Puts
<1>3. \A p, b : Coordinates(p, b, Always, Curve25519PointX, Curve25519PointY) => Puts
  BY DEF Coordinates, Puts
<1>4. \A p, b : Coordinates(p, b, Always, JubjubPointX, JubjubPointY) => Puts
  BY DEF Coordinates, Puts
<1> QED BY <1>1, <1>2, <1>3, <1>4 DEF ReadCoordinate

(* So do an argument, a recovered key and the hashes. *)
LEMMA OthersPut ==
  ASSUME Argument \/ RecoverKey \/ HashStep \/ ConvertHash
  PROVE  Puts
<1>1. Argument => Puts
  BY DEF Argument, Puts
<1>2. RecoverKey => Puts
  BY DEF RecoverKey, Puts
<1>3. HashStep => Puts
  BY DEF HashStep, Puts
<1>4. ConvertHash => Puts
  BY DEF ConvertHash, Puts
<1> QED BY <1>1, <1>2, <1>3, <1>4

(* A cast changes the register only, or throws. *)
LEMMA CastsStage ==
  ASSUME Stage, CastToBytes \/ CastBytesToUint \/ CastBytesToField \/ CastToJubjubScalar
  PROVE  Stage'
<1>1. Idle /\ ((\E kind, x, e : Put(kind, x, e)) \/ \E b : Refuse(b))
  BY DEF CastToBytes, CastBytesToUint, CastBytesToField, CastToJubjubScalar
<1> QED BY <1>1, PutStage, RefuseStage

(* Every step keeps the invariant.                                          *)
LEMMA StepValues == ValuesInv /\ [Next]_vars => ValuesInv'
<1>1. SUFFICES ASSUME ValuesInv, [Next]_vars PROVE ValuesInv'
  OBVIOUS
<1>2. RegisterHolds /\ RefusedExceeds /\ Stage
  BY <1>1 DEF ValuesInv
<1>3. CASE Argument
  BY <1>1, <1>2, <1>3, ArgumentHolds, OthersPut, PutsValues DEF ValuesInv
<1>4. CASE Arithmetic
  BY <1>1, <1>2, <1>4, ArithmeticHolds, ArithmeticPuts, PutsValues DEF ValuesInv
<1>5. CASE Points
  BY <1>1, <1>2, <1>5, PointsHold, PointsPut, PutsValues DEF ValuesInv
<1>6. CASE ReadCoordinate
  BY <1>1, <1>2, <1>6, CoordinatesHold, CoordinatesPut, PutsValues DEF ValuesInv
<1>7. CASE RecoverKey
  BY <1>1, <1>2, <1>7, RecoverHolds, OthersPut, PutsValues DEF ValuesInv
<1>8. CASE CastToBytes
  BY <1>2, <1>8, ToBytesHolds, CastsStage DEF ValuesInv
<1>9. CASE CastBytesToUint
  BY <1>2, <1>9, ToUintHolds, CastsStage DEF ValuesInv
<1>10. CASE CastBytesToField
  BY <1>2, <1>10, ToFieldHolds, CastsStage DEF ValuesInv
<1>11. CASE CastToJubjubScalar
  BY <1>2, <1>11, ToScalarHolds, CastsStage DEF ValuesInv
<1>12. CASE HashStep
  BY <1>1, <1>2, <1>12, HashHolds, OthersPut, PutsValues DEF ValuesInv
<1>13. CASE ConvertHash
  BY <1>1, <1>2, <1>13, ConversionHolds, OthersPut, PutsValues DEF ValuesInv
<1>14. CASE Encode
  <2>1. UNCHANGED <<reg, exact, refused>>
    BY <1>14 DEF Encode
  <2>2. Stage'
    BY <1>2, <1>14, EncodeStage
  <2> QED BY <1>2, <2>1, <2>2 DEF ValuesInv, RegisterHolds, RefusedExceeds
<1>15. CASE Damage
  <2>1. UNCHANGED <<reg, exact, refused>>
    BY <1>15 DEF Damage
  <2>2. Stage'
    BY <1>2, <1>15, DamageStage
  <2> QED BY <1>2, <2>1, <2>2 DEF ValuesInv, RegisterHolds, RefusedExceeds
<1>16. CASE Decode
  <2>1. UNCHANGED <<reg, exact, refused>>
    BY <1>16 DEF Decode
  <2>2. Stage'
    BY <1>2, <1>16, DecodeStage
  <2> QED BY <1>2, <2>1, <2>2 DEF ValuesInv, RegisterHolds, RefusedExceeds
<1>17. CASE Resume
  BY <1>2, <1>17, ResumeHolds DEF ValuesInv, RefusedExceeds
<1>18. CASE NewCircuit
  BY <1>18, NewCircuitValues
<1>19. CASE UNCHANGED vars
  <2>1. UNCHANGED <<reg, exact, refused, sent, got, wire, harm, threw>>
    BY <1>19 DEF vars
  <2> QED BY <1>2, <2>1 DEF ValuesInv, RegisterHolds, RefusedExceeds, Stage, Nothing, Sending, Whole,
           Cut, Altered, Both
<1> QED BY <1>1, <1>3, <1>4, <1>5, <1>6, <1>7, <1>8, <1>9, <1>10, <1>11, <1>12, <1>13, <1>14, <1>15,
         <1>16, <1>17, <1>18, <1>19 DEF Next

(* The register and the encoding under way are as the operations need them,
   in every reachable state. *)
LEMMA ValuesInvariant == Spec => []ValuesInv
BY InitValues, StepValues, PTL DEF Spec

------------------------------------------------------------------------------
(* The register is exact; values read back; damage is contained. *)

(* The invariant implies the property. *)
LEMMA ExactFollows == ValuesInv => RegisterIsExact
<1>1. SUFFICES ASSUME ValuesInv PROVE RegisterIsExact
  OBVIOUS
<1>2. PICK kind, v, e : kind = reg.kind /\ v = reg.val /\ e = exact /\ Holds(kind, v, e)
  BY <1>1 DEF ValuesInv, RegisterHolds
<1>3. refused # -1 => exact > refused
  BY <1>1 DEF ValuesInv, RefusedExceeds
<1>4. kind \in NumberKinds => v = e /\ e \in 0 .. Modulus[kind] - 1
  BY <1>2 DEF Holds
<1>5. kind \in ByteKinds => v \in Bytes(TypeOf[kind].length) /\ Number(v) = e
  BY <1>2, RegisterBytes
<1>6. kind \in PointKinds => SameValue(kind, v, Multiple(kind, e))
  BY <1>2, StandsSame DEF Holds
<1> QED BY <1>2, <1>3, <1>4, <1>5, <1>6 DEF RegisterIsExact

(* RegisterIsExact holds: whatever built-ins, casts, coordinates, hashes and
   recovered keys a circuit goes through, its register is a value of its
   type and stands for the residue or the point that modular arithmetic and
   the curve define, and a cast throws only for a value that exceeds the
   bound it enforces. *)
THEOREM RegistersAreExact == Spec => []RegisterIsExact
BY ValuesInvariant, ExactFollows, PTL

(* A part of an array is what its values encode.                            *)
LEMMA FlattenNone ==
  ASSUME NEW f, f = [i \in 1 .. 0 |-> f[i]]
  PROVE  FlattenSeq(f) = <<>>
<1>1. f = <<>>
  OBVIOUS
<1>0. \A S : <<>> \in Seq(S)
  OBVIOUS
<1>2. PICK s \in Seq(Seq({})) : s = f
  BY <1>0, <1>1
<1>3. PICK h : Joined({}, s, h)
  BY FlattenJoins
<1>4. Len(s) = 0
  BY <1>1, <1>2
<1> QED BY <1>2, <1>3, <1>4 DEF Joined

(* Flattening one sequence. *)
LEMMA FlattenOne ==
  ASSUME NEW a \in Seq(Atom), NEW f, f = [i \in 1 .. 1 |-> a]
  PROVE  FlattenSeq(f) = a
<1>1. PICK S : S = Atom
  OBVIOUS
<1>2. PICK A : A = Seq(S) /\ a \in A
  BY <1>1
<1>3. f \in Seq(A) /\ Len(f) = 1 /\ f[1] = a
  BY <1>2
<1>33. f \in Seq(Seq(S))
  BY <1>2, <1>3
<1>4. PICK h : Joined(S, f, h)
  BY <1>33, FlattenJoins
<1>5. h[0] = <<>> /\ h[1] = h[1 - 1] \o f[1] /\ FlattenSeq(f) = h[1]
  BY <1>3, <1>4 DEF Joined
<1>6. <<>> \o a = a
  BY <1>1
<1> QED BY <1>3, <1>5, <1>6

(* Flattening two sequences. *)
LEMMA FlattenTwo ==
  ASSUME NEW a \in Seq(Atom), NEW b \in Seq(Atom), NEW f, f = [i \in 1 .. 2 |-> IF i = 1 THEN a ELSE b]
  PROVE  FlattenSeq(f) = a \o b
<1>1. PICK S : S = Atom
  OBVIOUS
<1>2. PICK A : A = Seq(S) /\ a \in A /\ b \in A
  BY <1>1
<1>3. f \in Seq(A) /\ Len(f) = 2 /\ f[1] = a /\ f[2] = b
  BY <1>2
<1>33. f \in Seq(Seq(S))
  BY <1>2, <1>3
<1>4. PICK h : Joined(S, f, h)
  BY <1>33, FlattenJoins
<1>5. h[0] = <<>> /\ FlattenSeq(f) = h[2] /\ \A i \in 1 .. 2 : h[i] = h[i - 1] \o f[i]
  BY <1>3, <1>4 DEF Joined
<1>6. <<>> \o a = a
  BY <1>1
<1>7. \A i \in 1 .. 2, j \in 0 .. 1 : j = i - 1 => h[i] = h[j] \o f[i]
  BY <1>5
<1>8. h[1] = h[0] \o f[1] /\ h[2] = h[1] \o f[2]
  BY <1>7
<1> QED BY <1>3, <1>5, <1>6, <1>8

(* What is left on the array of two values.                                 *)
Left == FlattenSeq([i \in 1 .. 2 - Len(got) |-> EncodingOf(sent[i + Len(got)])])

(* What is left on the array is the encodings of the values not yet read,
   then Junk. *)
LEMMA BothLeft ==
  ASSUME NEW a, NEW b, IsEntry(a), IsEntry(b), Both(a, b)
  PROVE  wire = Left \o <<Junk>>
<1>1. PICK s : s = sent /\ s[1] = a /\ s[2] = b
  BY ShortSequences DEF Both
<1>2. PICK k, l : k = Kept(a) /\ l = Kept(b)
  OBVIOUS
<1>3. PICK d \in Seq(Atom), e \in Seq(Atom) : d = EncodingOf(a) /\ e = EncodingOf(b)
  BY EntryEncodes
<1>4. CASE got = <<>> /\ wire = EncodingOf(a) \o EncodingOf(b) \o <<Junk>>
  <2>1. PICK f : f = [i \in 1 .. 2 |-> IF i = 1 THEN d ELSE e]
    OBVIOUS
  <2>2. Len(got) = 0
    BY <1>4, ShortSequences
  <2>3. [i \in 1 .. 2 - Len(got) |-> EncodingOf(sent[i + Len(got)])] = f
    BY <1>1, <1>3, <2>1, <2>2
  <2>4. Left = d \o e
    BY <2>1, <2>3, FlattenTwo DEF Left
  <2> QED BY <1>3, <1>4, <2>4
<1>5. CASE got = <<Kept(a)>> /\ wire = EncodingOf(b) \o <<Junk>>
  <2>1. PICK f : f = [i \in 1 .. 1 |-> e]
    OBVIOUS
  <2>2. Len(got) = 1
    BY <1>5, ShortSequences
  <2>3. [i \in 1 .. 2 - Len(got) |-> EncodingOf(sent[i + Len(got)])] = f
    BY <1>1, <1>3, <2>1, <2>2
  <2>4. Left = e
    BY <2>1, <2>3, FlattenOne DEF Left
  <2> QED BY <1>3, <1>5, <2>4
<1>6. CASE got = <<Kept(a), Kept(b)>> /\ wire = <<Junk>>
  <2>1. PICK f : f = [i \in 1 .. 2 - Len(got) |-> EncodingOf(sent[i + Len(got)])]
    OBVIOUS
  <2>2. Len(got) = 2
    BY <1>6, ShortSequences
  <2>3. f = [i \in 1 .. 0 |-> f[i]]
    BY <2>1, <2>2
  <2>4. Left = <<>>
    BY <2>1, <2>3, FlattenNone DEF Left
  <2>5. <<>> \o <<Junk>> = <<Junk>>
    BY JunkAtoms
  <2> QED BY <1>6, <2>4, <2>5
<1> QED BY <1>4, <1>5, <1>6 DEF Both

(* A register reads back as the same value. *)
LEMMA KeptSame ==
  ASSUME NEW a, IsEntry(a)
  PROVE  SameValue(a.kind, Kept(a), a.val)
BY NormSame DEF IsEntry, Kept

(* The invariant implies the property. *)
LEMMA ReadsFollow == ValuesInv => ReadsBackWhatWasWritten
<1>1. SUFFICES ASSUME ValuesInv, harm = "none" PROVE
        /\ threw = FALSE
        /\ \A i \in DOMAIN got : SameValue(sent[i].kind, got[i], sent[i].val)
        /\ Len(sent) = 2 => wire = Left \o <<Junk>>
  BY DEF ReadsBackWhatWasWritten, Left
<1>2. CASE Nothing
  <2>1. sent = <<>> /\ got = <<>> /\ threw = FALSE
    BY <1>2 DEF Nothing
  <2>2. Len(sent) # 2
    BY <2>1, ShortSequences
  <2> QED BY <2>1, <2>2
<1>3. ASSUME NEW a, Sending(a), Whole(a)
      PROVE  /\ threw = FALSE
             /\ \A i \in DOMAIN got : SameValue(sent[i].kind, got[i], sent[i].val)
             /\ Len(sent) # 2
  <2>1. IsEntry(a) /\ sent = <<a>> /\ threw = FALSE
    BY <1>3 DEF Sending, Whole
  <2>2. got = <<>> \/ got = <<Kept(a)>>
    BY <1>3 DEF Whole
  <2>3. PICK k : k = Kept(a) /\ SameValue(a.kind, k, a.val)
    BY <2>1, KeptSame
  <2>4. ASSUME NEW i \in DOMAIN got PROVE SameValue(sent[i].kind, got[i], sent[i].val)
    <3>1. i = 1 /\ got[i] = k /\ sent[i] = a
      BY <2>1, <2>2, <2>3, <2>4
    <3> QED BY <2>3, <3>1
  <2> QED BY <2>1, <2>4, ShortSequences
<1>4. ASSUME NEW a, Sending(a), NEW b, IsEntry(b), Both(a, b)
      PROVE  /\ threw = FALSE
             /\ \A i \in DOMAIN got : SameValue(sent[i].kind, got[i], sent[i].val)
             /\ wire = Left \o <<Junk>>
  <2>1. IsEntry(a) /\ sent = <<a, b>> /\ threw = FALSE
    BY <1>4 DEF Sending, Both
  <2>2. PICK k, l : k = Kept(a) /\ SameValue(a.kind, k, a.val) /\ l = Kept(b) /\ SameValue(b.kind, l, b.val)
    BY <1>4, <2>1, KeptSame
  <2>3. got = <<>> \/ got = <<k>> \/ got = <<k, l>>
    BY <1>4, <2>2 DEF Both
  <2>4. ASSUME NEW i \in DOMAIN got PROVE SameValue(sent[i].kind, got[i], sent[i].val)
    <3>1. \/ i = 1 /\ got[i] = k /\ sent[i] = a
          \/ i = 2 /\ got[i] = l /\ sent[i] = b
      BY <2>1, <2>3, <2>4
    <3> QED BY <2>2, <3>1
  <2>5. wire = Left \o <<Junk>>
    BY <1>4, <2>1, BothLeft
  <2> QED BY <2>1, <2>4, <2>5
<1>5. ASSUME NEW a, Sending(a) PROVE ~Cut(a) /\ ~Altered(a)
  BY <1>1 DEF Cut, Altered
<1> QED BY <1>1, <1>2, <1>3, <1>4, <1>5 DEF ValuesInv, Stage, Sending

(* ReadsBackWhatWasWritten holds: no encoder refuses what a circuit
   computed, and alone or followed by another value in one array every value
   is decoded as the same value, each decoder taking exactly its own atoms
   off. *)
THEOREM ValuesReadBack == Spec => []ReadsBackWhatWasWritten
BY ValuesInvariant, ReadsFollow, PTL

(* The invariant implies the property. *)
LEMMA DamageFollows == ValuesInv => DamageIsContained
<1>1. SUFFICES ASSUME ValuesInv, harm # "none" PROVE
        /\ harm = "cut" => got = <<>>
        /\ \A i \in DOMAIN got :
             /\ InRange(sent[i].kind, got[i])
             /\ FromValue(TypeOf[sent[i].kind], ToValue(TypeOf[sent[i].kind], got[i])).ok
             /\ SameValue(sent[i].kind, FromValue(TypeOf[sent[i].kind], ToValue(TypeOf[sent[i].kind],
                      got[i])).val, got[i])
  BY DEF DamageIsContained
<1>2. PICK a : IsEntry(a) /\ (Cut(a) \/ Altered(a))
  BY <1>1 DEF ValuesInv, Stage, Nothing, Sending, Whole, Both
<1>3. CASE got = <<>>
  BY <1>3
<1>4. ASSUME NEW v \in TypeRange(TypeOf[a.kind]), got = <<v>>, harm = "atom", sent = <<a>>
      PROVE  /\ InRange(a.kind, v)
             /\ FromValue(TypeOf[a.kind], ToValue(TypeOf[a.kind], v)).ok
             /\ SameValue(a.kind, FromValue(TypeOf[a.kind], ToValue(TypeOf[a.kind], v)).val, v)
  <2>1. PICK kind, b : kind \in Kinds /\ kind = a.kind /\ b = [kind |-> kind, val |-> v]
    BY <1>2 DEF IsEntry
  <2>2. IsEntry(b) /\ b.kind = kind /\ b.val = v
    BY <1>4, <2>1 DEF IsEntry
  <2>3. PICK o : o = FromValue(TypeOf[b.kind], EncodingOf(b)) /\ o = Take(Kept(b), <<>>)
    BY <2>2, EntryReadsAlone
  <2>4. o.ok /\ o.val = Kept(b)
    BY <2>3, TakeFacts
  <2>5. SameValue(b.kind, Kept(b), b.val)
    BY <2>2, KeptSame
  <2>6. InRange(kind, v)
    BY <1>4, <2>1, RangeIn
  <2> QED BY <2>1, <2>2, <2>3, <2>4, <2>5, <2>6 DEF EncodingOf
<1>5. CASE \E v \in TypeRange(TypeOf[a.kind]) : got = <<v>> /\ harm = "atom" /\ sent = <<a>>
  <2>1. PICK v \in TypeRange(TypeOf[a.kind]) : got = <<v>> /\ harm = "atom" /\ sent = <<a>>
    BY <1>5
  <2>2. \A i \in DOMAIN got : got[i] = v /\ sent[i] = a
    BY <2>1
  <2> QED BY <1>4, <2>1, <2>2
<1> QED BY <1>2, <1>3, <1>5 DEF Cut, Altered

(* DamageIsContained holds: a decoder never reads an encoding cut short to
   its end, and what it accepts of one with a replaced atom is in the range
   of its type and reads back from its own encoding. *)
THEOREM DamageStaysContained == Spec => []DamageIsContained
BY ValuesInvariant, DamageFollows, PTL

------------------------------------------------------------------------------
(* The binary representation separates values. *)

(* The register of an idle circuit has the kinds and the range of its type. *)
LEMMA RegisterTyped ==
  ASSUME ValuesInv
  PROVE  reg.kind \in Kinds /\ reg.val \in TypeRange(TypeOf[reg.kind])
BY DEF ValuesInv, RegisterHolds, Holds

(* The byte string of a value that is not opaque.                           *)
LEMMA ReprFollows == ValuesInv => ReprSeparates
<1>1. SUFFICES ASSUME ValuesInv, Idle, HasBinaryRepr(TypeOf[reg.kind]) PROVE ReprSeparates
  BY DEF ReprSeparates
<1>2. PICK kind, v : kind \in Kinds /\ kind = reg.kind /\ v = reg.val
  BY <1>1, RegisterTyped
<1>3. PICK t : t = TypeOf[kind] /\ IsType(t)
  BY <1>2, KindTypes
<1>4. v \in TypeRange(t) /\ HasBinaryRepr(t)
  BY <1>1, <1>2, <1>3, RegisterTyped
<1>5. PICK al : al = Alignment(t)
  OBVIOUS
<1>6. ASSUME NEW x \in TypeRange(t)
      PROVE  /\ Encodes(ToValue(t, x), al) /\ Uncompressed(al)
             /\ ToBinaryRepr(t, x) = FlattenSeq(Padding(ToValue(t, x), al))
  BY <1>3, <1>4, <1>5, TypeEncodes, ReprIs
<1>7. Len(al) = Len(ToValue(t, v))
  BY <1>4, <1>6 DEF Encodes
<1>8. PICK ps : ps = Padding(ToValue(t, v), al)
  OBVIOUS
<1>9. PICK f : EndTable(al, f) /\ \A g : EndTable(al, g) => Len(FlattenSeq(ps)) = g[Len(al)]
  BY <1>4, <1>6, <1>8, PaddingLength
<1>10. ASSUME NEW x \in Values(kind)
       PROVE  ToBinaryRepr(t, x) = ToBinaryRepr(t, v) <=> SameValue(kind, x, v)
  <2>1. x \in TypeRange(t)
    BY <1>2, <1>3, ValuesInRange
  <2>2. PICK d, e : d = ToValue(t, x) /\ e = ToValue(t, v)
    OBVIOUS
  <2>3. Encodes(d, al) /\ Encodes(e, al) /\ Uncompressed(al)
    BY <1>4, <1>6, <2>1, <2>2
  <2>4. ToBinaryRepr(t, x) = FlattenSeq(Padding(d, al)) /\ ToBinaryRepr(t, v) = FlattenSeq(Padding(e, al))
    BY <1>4, <1>6, <2>1, <2>2
  <2>5. FlattenSeq(Padding(d, al)) = FlattenSeq(Padding(e, al)) => d = e
    BY <2>3, PaddingSeparates
  <2>6. d = e <=> SameValue(kind, x, v)
    BY <1>2, <1>3, <1>4, <2>1, <2>2, EncodingSeparates
  <2> QED BY <2>4, <2>5, <2>6
<1> DEFINE Table(g) == g = [i \in 0 .. Len(al) |->
              IF i = 0 THEN 0 ELSE g[i - 1] + (IF al[i] = FieldWidth THEN FieldBytes ELSE al[i])]
<1>11. \A g : Table(g) <=> EndTable(al, g)
  BY DEF EndTable, EndAt, Width
<1>12. Table(CHOOSE g : Table(g))
  <2>1. \E g : Table(g)
    BY <1>9, <1>11
  <2> HIDE DEF Table
  <2> QED BY <2>1
<1>13. PICK h : h = (CHOOSE g : Table(g))
  OBVIOUS
<1>14. Len(ToBinaryRepr(t, v)) = h[Len(al)]
  BY <1>4, <1>6, <1>8, <1>9, <1>11, <1>12, <1>13
<1> QED BY <1>2, <1>3, <1>5, <1>7, <1>10, <1>13, <1>14 DEF ReprSeparates

(* ReprSeparates holds: the bytes hashed outside the proof system have the
   length the type fixes, and those of two values are equal exactly when the
   language takes the values for the same. *)
THEOREM ReprsSeparate == Spec => []ReprSeparates
BY ValuesInvariant, ReprFollows, PTL

------------------------------------------------------------------------------
(* Validity is membership. *)

(* Of all pairs of coordinates, those on a secp curve are the affine
   multiples of its generator.                                              *)
OnSecp(c, x, y) == x \in 0 .. c.p - 1 /\ y \in 0 .. c.p - 1 /\ OnWeierstrass(c, x, y)
(* The generator spans the affine point of these coordinates. *)
Spans(c, x, y) == \E k \in 0 .. c.order - 1 : [x |-> x, y |-> y, identity |-> FALSE] = Flagged(WMul(c, k))

(* A pair of coordinates is on a secp curve when the generator spans it. *)
LEMMA SecpMembership ==
  ASSUME NEW c \in {K1, R1}, NEW x, NEW y
  PROVE  OnSecp(c, x, y) <=> Spans(c, x, y)
<1>1. ASSUME OnSecp(c, x, y) PROVE Spans(c, x, y)
  <2>1. x \in 0 .. c.p - 1 /\ y \in 0 .. c.p - 1 /\ OnWeierstrass(c, x, y)
    BY <1>1 DEF OnSecp
  <2>10. PICK P : P = <<x, y, 1>>
    OBVIOUS
  <2>2. P = Lift(x, y) /\ P = <<x, y, 1>>
    BY <2>10 DEF Lift
  <2>3. P \in WeierstrassPoints(c)
    <3>1. P[1] = x /\ P[2] = y
      BY <2>10
    <3>4. \E a, b \in 0 .. c.p - 1 : P = Lift(a, b)
      BY <2>1, <2>2
    <3>2. P \in {Lift(a, b) : a, b \in 0 .. c.p - 1}
      BY <3>4
    <3>3. OnWeierstrass(c, P[1], P[2])
      BY <2>1, <3>1
    <3> QED BY <3>2, <3>3 DEF WeierstrassPoints
  <2>4. PICK k \in 1 .. c.order - 1 : P = WMul(c, k)
    BY <2>3, SecpGroup
  <2>5. PICK u, v : P = <<u, v, 1>> /\ P # ZERO /\ ToAffine(P) = <<u, v>>
    BY <2>3, SecpPoint
  <2>6. u = x /\ v = y
    BY <2>2, <2>5
  <2>7. Flagged(P) = [x |-> x, y |-> y, identity |-> FALSE]
    <3>1. PICK A : A = ToAffine(P) /\ A = <<x, y>>
      BY <2>5, <2>6
    <3>2. Flagged(P) = [x |-> A[1], y |-> A[2], identity |-> P = ZERO]
      BY <3>1 DEF Flagged
    <3>3. (P = ZERO) = FALSE
      BY <2>5
    <3>4. Flagged(P) = [x |-> A[1], y |-> A[2], identity |-> FALSE]
      BY <3>2, <3>3
    <3>5. A[1] = x /\ A[2] = y
      BY <3>1
    <3> QED BY <3>4, <3>5
  <2>8. k \in 0 .. c.order - 1
    BY <2>4
  <2> QED BY <2>4, <2>7, <2>8 DEF Spans
<1>2. ASSUME Spans(c, x, y) PROVE OnSecp(c, x, y)
  <2>1. PICK k \in 0 .. c.order - 1 : [x |-> x, y |-> y, identity |-> FALSE] = Flagged(WMul(c, k))
    BY <1>2 DEF Spans
  <2>2. PICK f : f = Flagged(WMul(c, k))
    OBVIOUS
  <2>3. f.x = x /\ f.y = y /\ f.identity = FALSE
    BY <2>1, <2>2
  <2>4. Flagged(WMul(c, k)).identity = (k = 0)
    BY FlaggedMultiple
  <2>9. k # 0
    BY <2>2, <2>3, <2>4
  <2>5. k \in 1 .. c.order - 1
    <3>1. c.order \in Nat
      BY CurveTypes
    <3> QED BY <2>9, <3>1
  <2>6. PICK P \in WeierstrassPoints(c) : P = WMul(c, k)
    BY <2>5, SecpGroup
  <2>7. PICK u \in 0 .. c.p - 1, v \in 0 .. c.p - 1 : OnWeierstrass(c, u, v) /\ ToAffine(P) = <<u, v>>
    BY <2>6, SecpPoint
  <2>8. f.x = u /\ f.y = v
    BY <2>2, <2>6, <2>7 DEF Flagged
  <2> QED BY <2>3, <2>7, <2>8 DEF OnSecp
<1> QED BY <1>1, <1>2

(* What stands for a multiple of the generator is valid.                    *)
LEMMA SecpValid ==
  ASSUME NEW c \in {K1, R1}, NEW v, NEW k, StandsFor(c, v, k)
  PROVE  v.x \in 0 .. c.p - 1 /\ v.y \in 0 .. c.p - 1 /\ (v.identity \/ OnWeierstrass(c, v.x, v.y))
<1>1. v \in SecpRange(c) /\ k \in 0 .. c.order - 1
  BY DEF StandsFor
<1>2. v.x \in 0 .. c.p - 1 /\ v.y \in 0 .. c.p - 1 /\ v = [x |-> v.x, y |-> v.y, identity |-> v.identity]
  BY <1>1 DEF SecpRange
<1>3. CASE v.identity = TRUE
  BY <1>2, <1>3
<1>4. CASE v = Flagged(WMul(c, k)) /\ v.identity = FALSE
  <2>1. PICK x, y : x = v.x /\ y = v.y /\ v = [x |-> x, y |-> y, identity |-> FALSE]
    BY <1>2, <1>4
  <2>2. Spans(c, x, y)
    BY <1>1, <1>4, <2>1 DEF Spans
  <2>3. OnSecp(c, x, y)
    BY <2>2, SecpMembership
  <2> QED BY <1>2, <2>1, <2>3 DEF OnSecp
<1> QED BY <1>3, <1>4 DEF StandsFor

(* The multiples of the generator, as the property collects them.           *)
LEMMA InMultiples ==
  ASSUME NEW kind \in PointKinds, NEW v
  PROVE  v \in Range(Multiples[kind]) <=> \E k \in 0 .. Order[kind] - 1 : v = Multiple(kind, k)
<1>1. PICK f : f = [k \in 0 .. Order[kind] - 1 |-> MultipleOfGenerator(kind, k)]
  OBVIOUS
<1>2. Multiples[kind] = f
  BY <1>1 DEF Multiples
<1>3. \A k \in 0 .. Order[kind] - 1 : Multiple(kind, k) = f[k]
  BY <1>2 DEF Multiple
<1>4. DOMAIN f = 0 .. Order[kind] - 1
  BY <1>1
<1> QED BY <1>2, <1>3, <1>4 DEF Range

(* The validity check of secp256k1 accepts the multiples of the generator. *)
LEMMA Secp256k1Validity ==
  ASSUME NEW x \in 0 .. K1.p, NEW y \in 0 .. K1.p, NEW v, v = [x |-> x, y |-> y, identity |-> FALSE]
  PROVE  Secp256k1!IsValidPoint(v) <=> v \in Range(Multiples["Secp256k1Point"])
<1>1. PICK kind \in PointKinds : kind = "Secp256k1Point" /\ Order[kind] = K1.order
  BY KindSets, Orders DEF FlaggedKinds
<1>2. PICK c \in {K1, R1} : c = K1
  OBVIOUS
<1>3. \A k \in 0 .. c.order - 1 : Multiple(kind, k) = Flagged(WMul(c, k))
  <2>1. \A k \in 0 .. Order[kind] - 1 : Multiple(kind, k) = Flagged(WMul(K1, k))
    BY <1>1, MultiplesAre
  <2> QED BY <1>1, <1>2, <2>1
<1>4. v \in Range(Multiples[kind]) <=> \E k \in 0 .. c.order - 1 : v = Multiple(kind, k)
  <2>1. v \in Range(Multiples[kind]) <=> \E k \in 0 .. Order[kind] - 1 : v = Multiple(kind, k)
    BY InMultiples
  <2> QED BY <1>1, <1>2, <2>1
<1>5. v \in Range(Multiples[kind]) <=> Spans(c, x, y)
  BY <1>3, <1>4 DEF Spans
<1>6. v.x = x /\ v.y = y /\ v.identity = FALSE
  OBVIOUS
<1>7. Secp256k1!IsValidPoint(v) <=> OnSecp(c, x, y)
  BY <1>2, <1>6, Secp256k1Groups DEF Secp256k1!IsValidPoint, OnSecp
<1> QED BY <1>1, <1>5, <1>7, SecpMembership

(* The same for secp256r1. *)
LEMMA Secp256r1Validity ==
  ASSUME NEW x \in 0 .. R1.p, NEW y \in 0 .. R1.p, NEW v, v = [x |-> x, y |-> y, identity |-> FALSE]
  PROVE  IsValidSecp256r1Point(v) <=> v \in Range(Multiples["Secp256r1Point"])
<1>1. PICK kind \in PointKinds : kind = "Secp256r1Point" /\ Order[kind] = R1.order
  BY KindSets, Orders DEF FlaggedKinds
<1>2. PICK c \in {K1, R1} : c = R1
  OBVIOUS
<1>3. \A k \in 0 .. c.order - 1 : Multiple(kind, k) = Flagged(WMul(c, k))
  <2>1. \A k \in 0 .. Order[kind] - 1 : Multiple(kind, k) = Flagged(WMul(R1, k))
    BY <1>1, MultiplesAre
  <2> QED BY <1>1, <1>2, <2>1
<1>4. v \in Range(Multiples[kind]) <=> \E k \in 0 .. c.order - 1 : v = Multiple(kind, k)
  <2>1. v \in Range(Multiples[kind]) <=> \E k \in 0 .. Order[kind] - 1 : v = Multiple(kind, k)
    BY InMultiples
  <2> QED BY <1>1, <1>2, <2>1
<1>5. v \in Range(Multiples[kind]) <=> Spans(c, x, y)
  BY <1>3, <1>4 DEF Spans
<1>6. v.x = x /\ v.y = y /\ v.identity = FALSE
  OBVIOUS
<1>7. IsValidSecp256r1Point(v) <=> OnSecp(c, x, y)
  BY <1>2, <1>6, Secp256r1Groups DEF IsValidSecp256r1Point, Secp256r1!IsValidPoint, OnSecp
<1> QED BY <1>1, <1>5, <1>7, SecpMembership

(* The points of Curve25519 that are accepted are those of its subgroup.    *)
LEMMA SubgroupMembership ==
  ASSUME NEW v, v = [x |-> v.x, y |-> v.y]
  PROVE  IsValidCurve25519Point(v) <=> \E k \in 0 .. C25519.order - 1 : v = Plain(EMul(C25519, k))
<1>1. PICK c \in {C25519, Jubjub} : c = C25519
  OBVIOUS
<1>10. PICK P : P = <<v.x, v.y>>
  OBVIOUS
<1>2. P = <<v.x, v.y>> /\ P[1] = v.x /\ P[2] = v.y
  BY <1>10
<1>3. 0 \in 0 .. c.order - 1 /\ 0 \in Nat
  <2>1. c.order \in Nat /\ c.order > 4
    BY CurveTypes
  <2> QED BY <2>1
<1>4. <<0, 1>> \in EdwardsPoints(c)
  BY <1>3, EdwardsGroup
<1>5. P \in EdwardsPoints(c) <=>
        v.x \in 0 .. c.p - 1 /\ v.y \in 0 .. c.p - 1 /\ OnEdwards(c, v.x, v.y) /\ TorsionFree(c, P)
  BY <1>2 DEF EdwardsPoints
<1>6. v.x = 0 /\ v.y = 1 => P = <<0, 1>>
  BY <1>2
<1>7. IsValidCurve25519Point(v) <=> P \in EdwardsPoints(c)
  BY <1>1, <1>2, <1>4, <1>5, <1>6 DEF IsValidCurve25519Point, CURVE25519_BASE_MODULUS
<1>8. P \in EdwardsPoints(c) <=> \E k \in 0 .. c.order - 1 : P = EMul(c, k)
  BY EdwardsGroup
<1>9. ASSUME NEW k \in 0 .. c.order - 1
      PROVE  P = EMul(c, k) <=> v = Plain(EMul(c, k))
  <2>1. PICK a, b : EMul(c, k) = <<a, b>>
    <3>1. EMul(c, k) \in EdwardsPoints(c)
      BY EdwardsGroup
    <3> QED BY <3>1 DEF EdwardsPoints
  <2>2. Plain(EMul(c, k)) = [x |-> a, y |-> b]
    BY <2>1 DEF Plain
  <2>3. P = <<a, b>> <=> v.x = a /\ v.y = b
    BY <1>2
  <2>4. v = [x |-> a, y |-> b] <=> v.x = a /\ v.y = b
    OBVIOUS
  <2> QED BY <2>1, <2>2, <2>3, <2>4
<1> QED BY <1>1, <1>7, <1>8, <1>9

(* The same for Curve25519. *)
LEMMA Curve25519Validity ==
  ASSUME NEW v, v = [x |-> v.x, y |-> v.y]
  PROVE  IsValidCurve25519Point(v) <=> v \in Range(Multiples["Curve25519Point"])
<1>1. PICK kind \in PointKinds : kind = "Curve25519Point" /\ Order[kind] = C25519.order
  BY KindSets, Orders DEF PlainKinds
<1>2. \A k \in 0 .. C25519.order - 1 : Multiple(kind, k) = Plain(EMul(C25519, k))
  BY <1>1, MultiplesAre
<1>3. v \in Range(Multiples[kind]) <=> \E k \in 0 .. C25519.order - 1 : v = Multiple(kind, k)
  BY <1>1, InMultiples
<1> QED BY <1>1, <1>2, <1>3, SubgroupMembership

(* The invariant implies the property. *)
LEMMA ValidityFollows == ValuesInv => ValidityIsMembership
<1>1. SUFFICES ASSUME ValuesInv PROVE ValidityIsMembership
  OBVIOUS
<1>2. PICK kind, v, e : kind = reg.kind /\ v = reg.val /\ e = exact
         /\ (kind \in PointKinds => Stands(kind, v, e))
  BY <1>1 DEF ValuesInv, RegisterHolds, Holds
<1>3. kind \in {"Secp256k1Point", "Secp256r1Point", "Curve25519Point"} => kind \in PointKinds
  BY KindSets DEF FlaggedKinds, PlainKinds
<1>4. ASSUME kind = "Secp256k1Point" PROVE Secp256k1!IsValidPoint(v)
  <2>1. PICK c \in {K1, R1} : c = K1 /\ StandsFor(c, v, e)
    BY <1>2, <1>3, <1>4 DEF Stands
  <2>2. v.x \in 0 .. c.p - 1 /\ v.y \in 0 .. c.p - 1 /\ (v.identity \/ OnWeierstrass(c, v.x, v.y))
    BY <2>1, SecpValid
  <2> QED BY <2>1, <2>2, Secp256k1Groups DEF Secp256k1!IsValidPoint
<1>5. ASSUME kind = "Secp256r1Point" PROVE IsValidSecp256r1Point(v)
  <2>1. PICK c \in {K1, R1} : c = R1 /\ StandsFor(c, v, e)
    BY <1>2, <1>3, <1>5 DEF Stands
  <2>2. v.x \in 0 .. c.p - 1 /\ v.y \in 0 .. c.p - 1 /\ (v.identity \/ OnWeierstrass(c, v.x, v.y))
    BY <2>1, SecpValid
  <2> QED BY <2>1, <2>2, Secp256r1Groups DEF IsValidSecp256r1Point, Secp256r1!IsValidPoint
<1>6. ASSUME kind = "Curve25519Point" PROVE IsValidCurve25519Point(v)
  <2>1. IsMultiple(C25519, v, e)
    BY <1>2, <1>3, <1>6 DEF Stands
  <2>2. v = [x |-> v.x, y |-> v.y] /\ e \in 0 .. C25519.order - 1 /\ v = Plain(EMul(C25519, e))
    BY <2>1 DEF IsMultiple
  <2> QED BY <2>2, SubgroupMembership
<1>7. \A x, y \in 0 .. K1.p :
        Secp256k1!IsValidPoint([x |-> x, y |-> y, identity |-> FALSE])
          <=> [x |-> x, y |-> y, identity |-> FALSE] \in Range(Multiples["Secp256k1Point"])
  BY Secp256k1Validity
<1>8. \A x, y \in 0 .. R1.p :
        IsValidSecp256r1Point([x |-> x, y |-> y, identity |-> FALSE])
          <=> [x |-> x, y |-> y, identity |-> FALSE] \in Range(Multiples["Secp256r1Point"])
  BY Secp256r1Validity
<1>9. \A x, y \in 0 .. C25519.p :
        IsValidCurve25519Point([x |-> x, y |-> y])
          <=> [x |-> x, y |-> y] \in Range(Multiples["Curve25519Point"])
  <2>1. TAKE x, y \in 0 .. C25519.p
  <2>2. PICK u : u = [x |-> x, y |-> y]
    OBVIOUS
  <2>3. u = [x |-> u.x, y |-> u.y]
    BY <2>2
  <2> QED BY <2>2, <2>3, Curve25519Validity
<1> QED BY <1>2, <1>4, <1>5, <1>6, <1>7, <1>8, <1>9 DEF ValidityIsMembership

(* ValidityIsMembership holds: the validity checks accept every point the
   built-ins compute and, of all pairs of coordinates, exactly the points
   the generator spans. *)
THEOREM ValidityMeansMembership == Spec => []ValidityIsMembership
BY ValuesInvariant, ValidityFollows, PTL

------------------------------------------------------------------------------
(* Signatures. *)

(* The multiples of the generator of an Edwards curve differ.               *)
LEMMA MultiplesDiffer ==
  ASSUME NEW c \in {C25519, Jubjub}, NEW i \in 0 .. c.order - 1, NEW j \in 0 .. c.order - 1,
         EMul(c, i) = EMul(c, j)
  PROVE  i = j
<1>1. PICK m \in Nat \ {0} : m = c.order
  <2>1. c.order \in Nat /\ c.order > 4
    BY CurveTypes
  <2> QED BY <2>1
<1>2. i \in 0 .. m - 1 /\ j \in 0 .. m - 1 /\ i \in Int /\ j \in Int
  BY <1>1
<1>3. PICK n \in 0 .. m - 1 : n = (-j) % m
  <2>1. -j \in Int
    BY <1>2
  <2> QED BY <2>1, SameRefl
<1>4. Same(n, -j, m)
  <2>1. -j \in Int
    BY <1>2
  <2> QED BY <1>3, <2>1, SameRefl
<1>5. EMul(c, (i + n) % m) = EMul(c, (j + n) % m)
  <2>1. n \in 0 .. c.order - 1
    BY <1>1
  <2>2. \A a, b \in 0 .. c.order - 1 : EdwardsPlus(c, EMul(c, a), EMul(c, b)) = EMul(c, (a + b) % c.order)
    BY EdwardsGroup
  <2>3. EMul(c, (i + n) % c.order) = EMul(c, (j + n) % c.order)
    BY <2>1, <2>2
  <2> QED BY <1>1, <2>3
<1>6. (j + n) % m = 0
  <2>1. PICK k \in Int : k = -j
    BY <1>2
  <2>2. Same(j, j, m) /\ n \in Int
    BY <1>2, SameRefl
  <2>3. Same(n, k, m)
    BY <1>4, <2>1
  <2>4. Same(j + n, j + k, m)
    BY <1>2, <2>2, <2>3, SameSum
  <2>5. PICK a \in Int, b \in Int : a = j + n /\ b = j + k /\ b = 0
    BY <1>2, <2>1, <2>2
  <2>6. Same(a, b, m)
    BY <2>4, <2>5
  <2>7. a % m = b % m
    BY <2>6, SameIs
  <2>8. b \in 0 .. m - 1
    BY <2>5
  <2>9. b % m = b
    BY <2>8, SmallRemainder
  <2> QED BY <2>5, <2>7, <2>9
<1>7. PICK r \in 0 .. m - 1 : r = (i + n) % m
  <2>1. i + n \in Int
    BY <1>2, <1>3
  <2> QED BY <2>1, SameRefl
<1>8. r = 0
  <2>1. EMul(c, r) = <<0, 1>>
    BY <1>5, <1>6, <1>7, EdwardsGroup
  <2>2. SUFFICES ASSUME r # 0 PROVE FALSE
    OBVIOUS
  <2>3. r \in 1 .. c.order - 1
    BY <1>1, <2>2
  <2> QED BY <2>1, <2>3, EdwardsGroup
<1>9. PICK a \in Int, b \in Int : a = i + n /\ b = j + n
  BY <1>2, <1>3
<1>10. Same(a, b, m)
  <2>1. a % m = b % m
    BY <1>6, <1>7, <1>8, <1>9
  <2> QED BY <2>1, SameIs
<1>11. Same(i, j, m)
  <2>1. n \in Int
    BY <1>3
  <2>2. Same(n, n, m)
    BY <2>1, SameRefl
  <2>3. Same(a - n, b - n, m)
    BY <1>10, <2>1, <2>2, SameSum
  <2>4. a - n = i /\ b - n = j
    BY <1>2, <1>9, <2>1
  <2> QED BY <2>3, <2>4
<1> QED BY <1>2, <1>11, SameInRange

(* A challenge is a scalar of the curve.                                    *)
LEMMA ChallengeType ==
  ASSUME NEW a, NEW j, IsMultiple(Jubjub, a, j), NEW b, NEW k, IsMultiple(Jubjub, b, k),
           NEW msg \in 0 .. MAX_FIELD
  PROVE  Challenge(a, b, CompactTypeField, msg) \in 0 .. Jubjub.order - 1
<1>1. PICK kind \in Kinds : kind = "JubjubPoint" /\ TypeOf[kind] = CompactTypeJubjubPoint
  BY KindSets DEF PlainKinds, TypeOf
<1>2. PICK t : t = CompactTypeJubjubPoint /\ IsType(t)
  BY <1>1, KindTypes
<1>3. Holds(kind, a, j) /\ Holds(kind, b, k)
  BY <1>1, HoldsFlagged
<1>4. a \in TypeRange(t) /\ b \in TypeRange(t)
  BY <1>1, <1>2, <1>3 DEF Holds
<1>5. PICK u \in Seq(Atom), v \in Seq(Atom) : u = ToValue(t, a) /\ v = ToValue(t, b)
  BY <1>2, <1>4, TypeEncodes DEF Encodes
<1>6. PICK w \in Seq(Atom) : w = ToValue(CompactTypeField, msg)
  <2>1. PICK f \in Kinds : f = "Field" /\ TypeOf[f] = CompactTypeField
    BY KindSets DEF TypeOf
  <2>2. PICK s : s = CompactTypeField /\ IsType(s)
    BY <2>1, KindTypes
  <2>3. Holds("Field", msg, msg)
    BY FieldInHash
  <2>4. msg \in TypeRange(s)
    BY <2>1, <2>2, <2>3 DEF Holds
  <2> QED BY <2>2, <2>4, TypeEncodes DEF Encodes
<1>7. PICK S : S = Atom
  OBVIOUS
<1>8. (u \o v) \o w \in Seq(S)
  BY <1>5, <1>6, <1>7
<1>9. PICK s \in Seq(Atom) : s = ToValue(CompactTypeJubjubPoint, a) \o ToValue(CompactTypeJubjubPoint, b)
                                    \o ToValue(CompactTypeField, msg)
  BY <1>2, <1>5, <1>6, <1>7, <1>8
<1>10. PICK h \in Int : h = HashOf(s)
  <2>1. HashOf(s) \in 0 .. MAX_FIELD
    BY HashType
  <2> QED BY <2>1
<1>11. PICK m \in Nat \ {0} : m = Jubjub.order
  <2>1. PICK c \in {K1, R1, C25519, Jubjub} : c = Jubjub
    OBVIOUS
  <2>2. c.order \in Nat /\ c.order > 4
    BY CurveTypes
  <2> QED BY <2>1, <2>2
<1>12. h % m \in 0 .. m - 1
  BY SameRefl
<1>13. Challenge(a, b, CompactTypeField, msg) = h % m
  BY <1>9, <1>10, <1>11 DEF Challenge, ConvertNumericToJubjubScalar, JUBJUB_SCALAR_MODULUS
<1> QED BY <1>11, <1>12, <1>13

(* The equation a verifier checks has one solution.                         *)
LEMMA OneResponse ==
  ASSUME NEW key \in 0 .. Jubjub.order - 1, NEW r \in 0 .. Jubjub.order - 1,
         NEW c \in 0 .. Jubjub.order - 1, NEW s \in 0 .. Jubjub.order - 1
  PROVE  EcMulGenerator(s) = EcAdd(EcMulGenerator(r), EcMul(EcMulGenerator(key), c))
           <=> s = (r + c * key) % Jubjub.order
<1>1. PICK j \in {C25519, Jubjub} : j = Jubjub
  OBVIOUS
<1>2. PICK m \in Nat \ {0} : m = Jubjub.order
  <2>1. j.order \in Nat /\ j.order > 4
    BY CurveTypes
  <2> QED BY <1>1, <2>1
<1>3. key \in Int /\ r \in Int /\ c \in Int /\ s \in Int
  BY <1>2
<1>4. PICK p \in Int : p = key * c /\ p = c * key
  BY <1>3
<1>5. PICK q \in 0 .. m - 1 : q = p % m /\ Same(q, p, m)
  BY SameRefl
<1>6. PICK u \in 0 .. m - 1 : u = (r + q) % m
  <2>1. r + q \in Int
    BY <1>3, <1>5
  <2> QED BY <2>1, SameRefl
<1>7. PICK k : k = EcMulGenerator(key) /\ IsMultiple(Jubjub, k, key)
  BY JubjubGenerated
<1>8. IsMultiple(Jubjub, EcMul(k, c), q)
  <2>1. IsMultiple(Jubjub, EcMul(k, c), (key * c) % Jubjub.order)
    BY <1>7, JubjubPoints
  <2> QED BY <1>2, <1>4, <1>5, <2>1
<1>9. PICK b : b = EcMul(k, c) /\ b = EcMulGenerator(q)
  <2>1. q \in 0 .. Jubjub.order - 1
    BY <1>2
  <2>2. IsMultiple(Jubjub, EcMulGenerator(q), q)
    BY <2>1, JubjubGenerated
  <2> QED BY <1>8, <2>2 DEF IsMultiple
<1>10. PICK a : a = EcMulGenerator(r) /\ IsMultiple(Jubjub, a, r)
  BY JubjubGenerated
<1>11. IsMultiple(Jubjub, EcAdd(a, b), u)
  <2>1. q \in 0 .. Jubjub.order - 1
    BY <1>2
  <2>2. IsMultiple(Jubjub, EcAdd(a, EcMulGenerator(q)), (r + q) % Jubjub.order)
    BY <1>10, <2>1, JubjubPoints
  <2> QED BY <1>2, <1>6, <1>9, <2>2
<1>12. IsMultiple(Jubjub, EcMulGenerator(s), s)
  BY JubjubGenerated
<1>13. EcMulGenerator(s) = EcAdd(a, b) <=> s = u
  <2>1. /\ EcMulGenerator(s) = Plain(EMul(j, s)) /\ Pair(EcMulGenerator(s)) = EMul(j, s)
        /\ EcAdd(a, b) = Plain(EMul(j, u)) /\ Pair(EcAdd(a, b)) = EMul(j, u)
    BY <1>1, <1>11, <1>12 DEF IsMultiple
  <2>2. EMul(j, s) = EMul(j, u) => s = u
    <3>1. s \in 0 .. j.order - 1 /\ u \in 0 .. j.order - 1
      BY <1>1, <1>2
    <3> QED BY <3>1, MultiplesDiffer
  <2>3. EcMulGenerator(s) = EcAdd(a, b) => EMul(j, s) = EMul(j, u)
    BY <2>1
  <2>4. s = u => EcMulGenerator(s) = EcAdd(a, b)
    BY <2>1
  <2> QED BY <2>2, <2>3, <2>4
<1>14. u = (r + p) % m
  <2>1. q \in Int
    BY <1>5
  <2>2. Same(r, r, m)
    BY <1>3, SameRefl
  <2>3. Same(r + q, r + p, m)
    BY <1>3, <1>5, <2>1, <2>2, SameSum
  <2>4. PICK x \in Int, y \in Int : x = r + q /\ y = r + p
    BY <1>3, <2>1
  <2>5. x % m = y % m
    BY <2>3, <2>4, SameIs
  <2> QED BY <1>6, <2>4, <2>5
<1>15. (r + p) % m = (r + c * key) % Jubjub.order
  BY <1>2, <1>4
<1> QED BY <1>7, <1>9, <1>10, <1>13, <1>14, <1>15

(* The invariant implies the property. *)
LEMMA SignaturesFollow == ValuesInv => SignaturesVerify
<1>1. SUFFICES ASSUME ValuesInv, reg.kind = "JubjubScalar",
                      NEW msg \in 0 .. MAX_FIELD, NEW nonce \in 0 .. JUBJUB_SCALAR_MODULUS - 1,
                      NEW s \in 0 .. JUBJUB_SCALAR_MODULUS - 1,
                      NEW sig, sig = SchnorrSign(CompactTypeField, msg, reg.val, nonce)
               PROVE  SchnorrVerify(CompactTypeField, msg, SchnorrVerifyingKey(reg.val),
                        [sig EXCEPT !.response = s])
                        <=> s = sig.response
  BY DEF SignaturesVerify
<1>2. PICK m \in Nat \ {0} : m = Jubjub.order /\ m = JUBJUB_SCALAR_MODULUS /\ Modulus["JubjubScalar"] = m
  <2>1. PICK j \in {K1, R1, C25519, Jubjub} : j = Jubjub
    OBVIOUS
  <2>2. j.order \in Nat /\ j.order > 4
    BY CurveTypes
  <2> QED BY <2>1, <2>2 DEF JUBJUB_SCALAR_MODULUS, Modulus
<1>3. PICK key \in 0 .. m - 1 : key = reg.val
  <2>1. "JubjubScalar" \in NumberKinds
    BY KindSets
  <2> QED BY <1>1, <1>2, <2>1 DEF ValuesInv, RegisterHolds, Holds
<1>4. key % m = key
  BY SmallRemainder
<1>5. PICK K : K = EcMulGenerator(key) /\ K = SchnorrVerifyingKey(reg.val)
  BY <1>2, <1>3, <1>4 DEF SchnorrVerifyingKey, ConvertNumericToJubjubScalar
<1>6. PICK R : R = EcMulGenerator(nonce)
  OBVIOUS
<1>7. IsMultiple(Jubjub, K, key) /\ IsMultiple(Jubjub, R, nonce)
  BY <1>1, <1>2, <1>3, <1>5, <1>6, JubjubGenerated
<1>8. PICK c \in 0 .. Jubjub.order - 1 : c = Challenge(R, K, CompactTypeField, msg)
  BY <1>1, <1>7, ChallengeType
<1>9. sig = [announcement |-> R, response |-> (nonce + c * key) % Jubjub.order]
  BY <1>1, <1>2, <1>3, <1>5, <1>6, <1>8 DEF SchnorrSign, ConvertNumericToJubjubScalar
<1>10. PICK other : other = [sig EXCEPT !.response = s]
  OBVIOUS
<1>11. other.announcement = R /\ other.response = s /\ sig.response = (nonce + c * key) % Jubjub.order
  BY <1>9, <1>10
<1>12. SchnorrVerify(CompactTypeField, msg, K, other) <=> EcMulGenerator(s) = EcAdd(R, EcMul(K, c))
  <2>1. SchnorrVerify(CompactTypeField, msg, K, other)
          <=> EcMulGenerator(other.response)
                = EcAdd(other.announcement, EcMul(K, Challenge(other.announcement, K, CompactTypeField, msg)))
    BY DEF SchnorrVerify
  <2> QED BY <1>8, <1>11, <2>1
<1>13. EcMulGenerator(s) = EcAdd(R, EcMul(K, c)) <=> s = (nonce + c * key) % Jubjub.order
  <2>1. PICK k \in 0 .. Jubjub.order - 1, r \in 0 .. Jubjub.order - 1, t \in 0 .. Jubjub.order - 1 :
             k = key /\ r = nonce /\ t = s
    BY <1>1, <1>2
  <2>2. EcMulGenerator(t) = EcAdd(EcMulGenerator(r), EcMul(EcMulGenerator(k), c))
          <=> t = (r + c * k) % Jubjub.order
    BY OneResponse
  <2> QED BY <1>5, <1>6, <2>1, <2>2
<1> QED BY <1>5, <1>10, <1>11, <1>12, <1>13

(* SignaturesVerify holds: a Schnorr signature verifies under the derived
   key, and with the same announcement no other response below the order
   does. *)
THEOREM SignaturesAreUnique == Spec => []SignaturesVerify
BY ValuesInvariant, SignaturesFollow, PTL
==============================================================================
