----------------------------- MODULE CompactTypes -----------------------------
(***************************************************************************)
(* The codecs between the runtime's values and field-aligned binary:       *)
(* src/runtime/src/compact-types.ts, the descriptors of zswap.ts and the   *)
(* constants they compare with.                                            *)
(*                                                                         *)
(* An atom is a sequence of bytes and a value of the ledger is a sequence  *)
(* of atoms.  A type is a record whose "tag" names its class and whose     *)
(* other fields are the arguments of the class's constructor.              *)
(*                                                                         *)
(*   FromValue(t, value)  decodes a prefix of value: [ok, val, rest].  The *)
(*                        code shifts the atoms off one shared array, so   *)
(*                        rest is what the next decoder is given.          *)
(*   Accepts(t, x)        whether toValue refuses to encode x.             *)
(*   ToValue(t, x)        the atoms of x.                                  *)
(*                                                                         *)
(* A byte has Base values and every modulus is small; see                  *)
(* MCRuntimeValues.                                                        *)
(***************************************************************************)
EXTENDS Integers, Sequences, SequencesExt, Groups

CONSTANTS
  Base,          \* values of a byte
  WordBytes,     \* bytes of the word JavaScript's << shifts in
  FieldBytes,    \* bytes of a field element, and of a persistent hash
  MAX_FIELD,     \* the largest element of the native field
  Limbs,         \* [radix, widths] of the split at 192 bits
  ScalarLimbs,   \* [radix, widths] of the split at 204 bits
  K1, R1, C25519, Jubjub   \* the curves, see Groups

(* A point that reads as (0, 0) is the zero, and recovery ids tell the
   x-coordinates from the order up. *)
ASSUME CurvesAssumption ==
  /\ \A c \in {K1, R1, C25519, Jubjub} : {c.p, c.order} \subseteq Nat \ 0 .. 4
  /\ \A c \in {K1, R1, C25519} : IsField(c.p) /\ IsField(c.order)
  /\ \A c \in {K1, R1} : /\ IsWeierstrassGroup(c)
                          /\ {c.a, c.b} \subseteq Int /\ c.b % c.p # 0
                          /\ c.p % 2 = 1 /\ c.p < 2 * c.order
  /\ \A c \in {C25519, Jubjub} : IsEdwardsGroup(c)
  /\ Jubjub.p = MAX_FIELD + 1 /\ Jubjub.order <= Jubjub.p

------------------------------------------------------------------------------
(* Numbers as atoms: little-endian, without trailing zero bytes.  External:
   bigIntToValue and valueToBigInt of the on-chain runtime. *)
Digits[x \in Nat] == IF x = 0 THEN <<>> ELSE <<x % Base>> \o Digits[x \div Base]

Number(atom) ==
  LET from[i \in 1 .. Len(atom) + 1] == IF i > Len(atom) THEN 0 ELSE atom[i] + Base * from[i + 1]
  IN from[1]

ASSUME BytesAssumption ==
  /\ Base \in Nat /\ Base > 2
  /\ {WordBytes, FieldBytes} \subseteq Nat \ {0}
  /\ MAX_FIELD \in Nat /\ Len(Digits[MAX_FIELD]) <= FieldBytes

Padded(atom, length) == [i \in 1 .. length |-> IF i <= Len(atom) THEN atom[i] ELSE 0]

(* The atom without its trailing zero bytes. *)
Trimmed(bytes) ==
  LET end == CHOOSE e \in 0 .. Len(bytes) : /\ \A i \in e + 1 .. Len(bytes) : bytes[i] = 0
                                            /\ e > 0 => bytes[e] # 0
  IN SubSeq(bytes, 1, end)

Throw == [ok |-> FALSE]
Take(val, rest) == [ok |-> TRUE, val |-> val, rest |-> rest]

------------------------------------------------------------------------------
(* The types. *)
SECP256K1_BASE_MODULUS    == K1.p
SECP256K1_SCALAR_MODULUS  == K1.order
SECP256R1_BASE_MODULUS    == R1.p
SECP256R1_SCALAR_MODULUS  == R1.order
CURVE25519_BASE_MODULUS   == C25519.p
CURVE25519_SCALAR_MODULUS == C25519.order
JUBJUB_SCALAR_MODULUS     == Jubjub.order
FIELD_MODULUS             == MAX_FIELD + 1

CompactTypeField    == [tag |-> "Field"]
CompactTypeJubjubScalar == CompactTypeField
CompactTypeBoolean  == [tag |-> "Boolean"]
CompactTypeOpaque   == [tag |-> "Opaque"]
CompactTypeEnum(maxValue, length)            == [tag |-> "Enum", max |-> maxValue, length |-> length]
CompactTypeUnsignedInteger(maxValue, length) == [tag |-> "Uint", max |-> maxValue, length |-> length]
CompactTypeBytes(length)                     == [tag |-> "Bytes", length |-> length]

ForeignField8_24(max) ==
  [tag |-> "Foreign", max |-> max, radix |-> Limbs.radix, widths |-> Limbs.widths]

CompactTypeSecp256k1Base   == ForeignField8_24(SECP256K1_BASE_MODULUS - 1)
CompactTypeSecp256k1Scalar == ForeignField8_24(SECP256K1_SCALAR_MODULUS - 1)
CompactTypeSecp256r1Base   == ForeignField8_24(SECP256R1_BASE_MODULUS - 1)
CompactTypeSecp256r1Scalar == ForeignField8_24(SECP256R1_SCALAR_MODULUS - 1)
CompactTypeCurve25519Base  == ForeignField8_24(CURVE25519_BASE_MODULUS - 1)
CompactTypeCurve25519Scalar ==
  [tag |-> "Foreign", max |-> CURVE25519_SCALAR_MODULUS - 1,
   radix |-> ScalarLimbs.radix, widths |-> ScalarLimbs.widths]

(* Each limb is a field element and fits its width. *)
ASSUME LimbsAssumption ==
  \A t \in {CompactTypeSecp256k1Base, CompactTypeSecp256k1Scalar, CompactTypeSecp256r1Base,
             CompactTypeSecp256r1Scalar, CompactTypeCurve25519Base, CompactTypeCurve25519Scalar} :
    /\ t.radix \in 1 .. MAX_FIELD + 1 /\ t.max \div t.radix <= MAX_FIELD
    /\ t.widths \in Nat \X Nat
    /\ Len(Digits[t.radix - 1]) <= t.widths[1]
    /\ Len(Digits[t.max \div t.radix]) <= t.widths[2]

(* Types with parts: the decoders of the parts share one array. *)
CompactTypeJubjubPoint == [tag |-> "Point", parts |-> <<CompactTypeField, CompactTypeField>>]
CompactTypeCurve25519Point ==
  [tag |-> "Point", parts |-> <<CompactTypeCurve25519Base, CompactTypeCurve25519Base>>]
CompactTypeSecp256k1Point ==
  [tag |-> "FlaggedPoint",
   parts |-> <<CompactTypeSecp256k1Base, CompactTypeSecp256k1Base, CompactTypeField>>]
CompactTypeSecp256r1Point ==
  [tag |-> "FlaggedPoint",
   parts |-> <<CompactTypeSecp256r1Base, CompactTypeSecp256r1Base, CompactTypeField>>]
CompactTypeMerkleTreeDigest    == CompactTypeField
CompactTypeMerkleTreePathEntry ==
  [tag |-> "Struct", parts |-> <<CompactTypeMerkleTreeDigest, CompactTypeBoolean>>]
CompactTypeVector(length, type) == [tag |-> "Vector", length |-> length, type |-> type]
CompactTypeMerkleTreePath(n, leaf) ==
  [tag |-> "MerkleTreePath", leaf |-> leaf,
   path |-> CompactTypeVector(n, CompactTypeMerkleTreePathEntry)]

Bytes32Descriptor  == CompactTypeBytes(FieldBytes)
MaxUint8Descriptor == CompactTypeUnsignedInteger(Base - 1, 1)
ShieldedCoinInfoDescriptor ==
  [tag |-> "Struct", parts |-> <<Bytes32Descriptor, Bytes32Descriptor, MaxUint8Descriptor>>]
ZswapCoinPublicKeyDescriptor == Bytes32Descriptor
ContractAddressDescriptor    == Bytes32Descriptor
ShieldedCoinRecipientDescriptor ==
  [tag |-> "Struct",
   parts |-> <<CompactTypeBoolean, ZswapCoinPublicKeyDescriptor, ContractAddressDescriptor>>]

------------------------------------------------------------------------------
(* Decoding one atomic value. *)
FieldFromValue(value) ==
  IF value = <<>> \/ (value # <<>> /\ Number(Head(value)) > MAX_FIELD) THEN Throw
  ELSE Take(Number(Head(value)), Tail(value))

(* The two limbs of a foreign field element, which hold it less one. *)
ForeignUnchecked(t, value) ==  \* mutant: no comparison with the maximum
  IF Len(value) < 2 THEN Throw
  ELSE LET raw == Number(value[2]) * t.radix + Number(value[1])
       IN Take(IF raw = t.max THEN 0 ELSE raw + 1, SubSeq(value, 3, Len(value)))

ForeignFromValue(t, value) ==
  IF Len(value) < 2 THEN Throw
  ELSE LET low  == Number(value[1])
           high == Number(value[2])
           raw  == high * t.radix + low
           res  == IF raw = t.max THEN 0 ELSE raw + 1
       IN IF \/ low > MAX_FIELD \/ high > MAX_FIELD
             \/ low >= t.radix
             \/ res > t.max
            THEN Throw
            ELSE Take(res, SubSeq(value, 3, Len(value)))

(* The weight of the byte at an index, 1 << (8 * i): the shift count wraps at
   the width of a word. *)
Weight[i \in Nat] == IF i % WordBytes = 0 THEN 1 ELSE Base * Weight[i - 1]

EnumFromValue(t, value) ==
  IF value = <<>> THEN Throw
  ELSE LET val == Head(value)
           sum[i \in 0 .. Len(val)] == IF i = 0 THEN 0 ELSE sum[i - 1] + Weight[i - 1] * val[i]
       IN IF sum[Len(val)] > t.max THEN Throw ELSE Take(sum[Len(val)], Tail(value))

UnsignedIntegerFromValue(t, value) ==
  IF value = <<>> \/ (value # <<>> /\ Number(Head(value)) > t.max) THEN Throw
  ELSE Take(Number(Head(value)), Tail(value))

BooleanFromValue(value) ==
  IF value = <<>> \/ (value # <<>> /\ Head(value) \notin {<<>>, <<1>>}) THEN Throw
  ELSE Take(Head(value) = <<1>>, Tail(value))

BytesUnpadded(t, value) ==  \* mutant: the trailing zeros are not put back
  IF value = <<>> \/ (value # <<>> /\ Len(Head(value)) > t.length) THEN Throw
  ELSE Take(Head(value), Tail(value))

BytesFromValue(t, value) ==
  IF value = <<>> \/ (value # <<>> /\ Len(Head(value)) > t.length) THEN Throw
  ELSE Take(Padded(Head(value), t.length), Tail(value))

OpaqueFromValue(value) == IF value = <<>> THEN Throw ELSE Take(Head(value), Tail(value))

AtomicFromValue(t, value) ==
  CASE t.tag = "Field"   -> FieldFromValue(value)
    [] t.tag = "Foreign" -> ForeignFromValue(t, value)
    [] t.tag = "Enum"    -> EnumFromValue(t, value)
    [] t.tag = "Uint"    -> UnsignedIntegerFromValue(t, value)
    [] t.tag = "Boolean" -> BooleanFromValue(value)
    [] t.tag = "Bytes"   -> BytesFromValue(t, value)
    [] t.tag = "Opaque"  -> OpaqueFromValue(value)

(* One decoder after another on what the one before left. *)
Chained(From(_, _), types, value) ==
  LET Appended(done, o) == IF o.ok THEN Take(Append(done.val, o.val), o.rest) ELSE Throw
      After(done, t) == IF done.ok THEN Appended(done, From(t, done.rest)) ELSE Throw
      read[i \in 0 .. Len(types)] ==
        IF i = 0 THEN Take(<<>>, value) ELSE After(read[i - 1], types[i])
  IN read[Len(types)]

------------------------------------------------------------------------------
(* Points.  A point of a secp curve carries a flag: built-ins ignore the
   coordinates of the identity, and the encoder writes zeros for them. *)
PointFromValue(t, value) ==
  LET o == Chained(AtomicFromValue, t.parts, value)
  IN IF o.ok THEN Take([x |-> o.val[1], y |-> o.val[2]], o.rest) ELSE Throw

FlaggedPointFromValue(t, value) ==
  LET o == Chained(AtomicFromValue, t.parts, value)
  IN IF Len(value) < 5 \/ ~o.ok THEN Throw
     ELSE IF o.val[3] \notin {0, 1} THEN Throw
     ELSE Take([x |-> o.val[1], y |-> o.val[2], identity |-> o.val[3] = 1], o.rest)

FlaggedPointParts(p) == IF p.identity THEN <<0, 0, 1>> ELSE <<p.x, p.y, 0>>

PartsOf(t, x) == CASE t.tag = "Point"        -> <<x.x, x.y>>
                   [] t.tag = "FlaggedPoint" -> FlaggedPointParts(x)
                   [] t.tag = "Struct"       -> x

SimpleFromValue(t, value) ==
  CASE t.tag = "Point"        -> PointFromValue(t, value)
    [] t.tag = "FlaggedPoint" -> FlaggedPointFromValue(t, value)
    [] t.tag = "Struct"       -> Chained(AtomicFromValue, t.parts, value)
    [] OTHER                  -> AtomicFromValue(t, value)

(* Vectors and Merkle tree paths of values that are not vectors. *)
VectorFromValue(t, value) ==
  Chained(SimpleFromValue, [i \in 1 .. t.length |-> t.type], value)

MerkleTreePathFromValue(t, value) ==
  LET leaf == SimpleFromValue(t.leaf, value)
      path == VectorFromValue(t.path, leaf.rest)
  IN IF ~leaf.ok THEN Throw
     ELSE IF ~path.ok THEN Throw
     ELSE Take([leaf |-> leaf.val, path |-> path.val], path.rest)

FromValue(t, value) ==
  CASE t.tag = "Vector"         -> VectorFromValue(t, value)
    [] t.tag = "MerkleTreePath" -> MerkleTreePathFromValue(t, value)
    [] OTHER                    -> SimpleFromValue(t, value)

------------------------------------------------------------------------------
(* Encoding. *)
ForeignToValue(t, x) ==
  LET raw == IF x = 0 THEN t.max ELSE x - 1
  IN <<Digits[raw % t.radix], Digits[raw \div t.radix]>>

BytesToValue(x) == <<Trimmed(x)>>

AtomicToValue(t, x) ==
  CASE t.tag \in {"Field", "Enum", "Uint"} -> <<Digits[x]>>
    [] t.tag = "Foreign" -> ForeignToValue(t, x)
    [] t.tag = "Boolean" -> IF x THEN <<<<1>>>> ELSE <<<<>>>>
    [] t.tag = "Bytes"   -> BytesToValue(x)
    [] t.tag = "Opaque"  -> <<x>>

SimpleToValue(t, x) ==
  IF t.tag \in {"Point", "FlaggedPoint", "Struct"}
    THEN FlattenSeq([i \in 1 .. Len(t.parts) |-> AtomicToValue(t.parts[i], PartsOf(t, x)[i])])
    ELSE AtomicToValue(t, x)

VectorToValue(t, x) == FlattenSeq([i \in 1 .. t.length |-> SimpleToValue(t.type, x[i])])

ToValue(t, x) ==
  CASE t.tag = "Vector"         -> VectorToValue(t, x)
    [] t.tag = "MerkleTreePath" -> SimpleToValue(t.leaf, x.leaf) \o VectorToValue(t.path, x.path)
    [] OTHER                    -> SimpleToValue(t, x)

(* The range checks of the encoders of numbers and bytes, and of the parts
   that are. *)
AtomicAccepts(t, x) ==
  CASE t.tag \in {"Foreign", "Enum", "Uint"} -> 0 <= x /\ x <= t.max
    [] t.tag = "Field" -> 0 <= x /\ x <= MAX_FIELD
    [] t.tag = "Bytes" -> Len(x) <= t.length
    [] OTHER           -> TRUE

SimpleAccepts(t, x) ==
  IF t.tag \in {"Point", "FlaggedPoint", "Struct"}
    THEN \A i \in DOMAIN t.parts : AtomicAccepts(t.parts[i], PartsOf(t, x)[i])
    ELSE AtomicAccepts(t, x)

Accepts(t, x) ==
  CASE t.tag = "Vector"         -> \A i \in 1 .. t.length : SimpleAccepts(t.type, x[i])
    [] t.tag = "MerkleTreePath" ->
         SimpleAccepts(t.leaf, x.leaf) /\ \A i \in DOMAIN x.path : SimpleAccepts(t.path.type, x.path[i])
    [] OTHER                    -> SimpleAccepts(t, x)

------------------------------------------------------------------------------
(* Alignment: the width of each atom, -1 for a field element and -2 for a
   compressed one. *)
FieldWidth == -1
CompressWidth == -2

AtomicAlignment(t) ==
  CASE t.tag = "Field"   -> <<FieldWidth>>
    [] t.tag = "Opaque"  -> <<CompressWidth>>
    [] t.tag = "Foreign" -> t.widths
    [] t.tag = "Boolean" -> <<1>>
    [] t.tag \in {"Enum", "Uint", "Bytes"} -> <<t.length>>

SimpleAlignment(t) ==
  IF t.tag \in {"Point", "FlaggedPoint", "Struct"}
    THEN FlattenSeq([i \in 1 .. Len(t.parts) |-> AtomicAlignment(t.parts[i])])
    ELSE AtomicAlignment(t)

VectorAlignment(t) == FlattenSeq([i \in 1 .. t.length |-> SimpleAlignment(t.type)])

Alignment(t) ==
  CASE t.tag = "Vector"         -> VectorAlignment(t)
    [] t.tag = "MerkleTreePath" -> SimpleAlignment(t.leaf) \o VectorAlignment(t.path)
    [] OTHER                    -> SimpleAlignment(t)

(* What the hash functions outside the proof system hash: every atom padded
   to its width.  There is none for an opaque value. *)
HasBinaryRepr(t) == \A i \in DOMAIN Alignment(t) : Alignment(t)[i] # CompressWidth

ReprUnpadded(t, x) == FlattenSeq(ToValue(t, x))  \* mutant: atoms of any length

ToBinaryRepr(t, x) ==
  LET width(w) == IF w = FieldWidth THEN FieldBytes ELSE w
  IN FlattenSeq([i \in DOMAIN Alignment(t) |-> Padded(ToValue(t, x)[i], width(Alignment(t)[i]))])
================================================================================
