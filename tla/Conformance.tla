------------------------------ MODULE Conformance ------------------------------
(***************************************************************************)
(* Whether a module that was resolved at run time implements the contract  *)
(* type its caller declared: src/runtime/src/conformance.ts over the       *)
(* encodings of interface-descriptor.ts.                                   *)
(*                                                                         *)
(* An encoded type is a record with a "tag" and the payload of the tag.    *)
(* The implementation's encodings come from code this compiler has not     *)
(* produced: a payload of the wrong shape is a field that is absent, and   *)
(* a value that is no encoding at all is a record without a tag.  A        *)
(* descriptor is a function from circuit names to declarations.  The       *)
(* elements of an enum are called names here, so that enums and structs    *)
(* have different fields.                                                  *)
(***************************************************************************)
EXTENDS Integers, Sequences, SequencesExt

CONSTANT SignatureTypes   \* the encoded types, with the parts of each

NotAType == [junk |-> TRUE]

Part(r, field) == IF field \in DOMAIN r THEN r[field] ELSE NotAType

Carries(t, tag, field) == /\ {"tag", field} \subseteq DOMAIN t
                          /\ t.tag = tag

(* The types at the positions of a circuit, its result last. *)
TypesOf(d) == IF "argumentTypes" \in DOMAIN d THEN Append(d.argumentTypes, Part(d, "resultType"))
                                               ELSE <<>>

(* The parts of a type that are types themselves; those of a contract type
   are its circuits'. *)
PartsOf(t) ==
  CASE Carries(t, "Vector", "tag") \/ Carries(t, "Alias", "tag") -> <<Part(t, "type")>>
    [] Carries(t, "Tuple", "types") -> t.types
    [] Carries(t, "Struct", "elements") ->
         [i \in DOMAIN t.elements |-> Part(t.elements[i], "type")]
    [] OTHER -> <<>>

AllParts(t) ==
  IF Carries(t, "Contract", "circuits")
  THEN UNION {ToSet(TypesOf(t.circuits[n])) : n \in DOMAIN t.circuits}
  ELSE ToSet(PartsOf(t))

(* How deep a type nests.  Encodings are finite, or no walk over one ends. *)
Height(t) ==
  LET height[u \in SignatureTypes] ==
        IF AllParts(u) = {} THEN 0 ELSE 1 + Max({height[part] : part \in AllParts(u)})
  IN height[t]

ASSUME EncodingsAreTrees ==
  /\ NotAType \in SignatureTypes
  /\ \A t \in SignatureTypes :
       /\ Height(t) \in Nat
       /\ \A part \in AllParts(t) : part \in SignatureTypes /\ Height(part) < Height(t)

------------------------------------------------------------------------------
(* Tags whose payload is compared and never walked. *)
PLAIN_TAGS == {"Boolean", "Field", "JubjubScalar", "JubjubPoint",
               "Secp256k1Base", "Secp256k1Scalar", "Secp256k1Point",
               "Secp256r1Base", "Secp256r1Scalar", "Secp256r1Point",
               "Curve25519Base", "Curve25519Scalar", "Curve25519Point"}

KNOWN_SIGNATURE_TAGS ==
  PLAIN_TAGS \cup {"Uint", "Bytes", "Opaque", "Vector", "Tuple", "Enum", "Struct", "Alias", "Contract"}

READABLE == "readable"
MALFORMED == "(malformed)"

(* What a payload is made of when it is there.  One that is compared and
   never walked is there, and nothing else is; no tag is taken for the
   answer that there is none to report. *)
ASSUME EncodingsAreShaped ==
  \A t \in SignatureTypes : "tag" \in DOMAIN t =>
    /\ t.tag # READABLE
    /\ t.tag \in PLAIN_TAGS => t = [tag |-> t.tag]
    /\ t.tag = "Uint" => t = [tag |-> t.tag, maxval |-> t.maxval]
    /\ t.tag = "Bytes" => t = [tag |-> t.tag, length |-> t.length]
    /\ t.tag = "Opaque" => t = [tag |-> t.tag, tsType |-> t.tsType]
    /\ Carries(t, "Enum", "names") => t = [tag |-> t.tag, name |-> t.name, names |-> t.names]
    /\ t.tag = "Vector" => t.length \in Int
    /\ Carries(t, "Tuple", "types") => t.types \in Seq(SignatureTypes)
    /\ Carries(t, "Struct", "elements") =>
         Len(t.elements) \in Nat /\ DOMAIN t.elements = 1 .. Len(t.elements)
    /\ Carries(t, "Contract", "circuits") =>
         /\ IsFiniteSet(DOMAIN t.circuits)
         /\ \A n \in DOMAIN t.circuits :
              "argumentTypes" \in DOMAIN t.circuits[n] =>
                t.circuits[n].argumentTypes \in Seq(SignatureTypes)

FirstBad(outcomes, good) ==
  LET bad == {i \in DOMAIN outcomes : outcomes[i] # good}
  IN IF bad = {} THEN good ELSE outcomes[CHOOSE i \in bad : \A j \in bad : i <= j]

(* Mutant: the elements of a sequence are not walked. *)
FirstUnreadableTagAtTop(t) ==
  IF "tag" \notin DOMAIN t THEN MALFORMED
  ELSE IF t.tag \in KNOWN_SIGNATURE_TAGS THEN READABLE ELSE t.tag

FirstUnreadable(read, types) == FirstBad([i \in DOMAIN types |-> read[types[i]]], READABLE)

FirstUnreadableInDescriptor(read, descriptor) ==
  LET names == SetToSeq(DOMAIN descriptor)
      declaration(d) == IF "argumentTypes" \notin DOMAIN d THEN MALFORMED
                        ELSE FirstUnreadable(read, TypesOf(d))
  IN FirstBad([i \in DOMAIN names |-> declaration(descriptor[names[i]])], READABLE)

(* The first tag in t that cannot be read; the tag of a malformed payload.
   What is read of the parts of t is a parameter. *)
UnreadableTagOf(read, t) ==
  LET payload(field) == IF field \in DOMAIN t THEN FirstUnreadable(read, PartsOf(t)) ELSE t.tag
  IN IF "tag" \notin DOMAIN t THEN MALFORMED
     ELSE CASE t.tag \notin KNOWN_SIGNATURE_TAGS -> t.tag
            [] t.tag \in PLAIN_TAGS \cup {"Uint", "Bytes", "Opaque"} -> READABLE
            [] t.tag = "Enum"   -> payload("names")
            [] t.tag = "Alias"  -> FirstUnreadable(read, PartsOf(t))
            [] t.tag = "Vector" -> IF t.length >= 0 THEN FirstUnreadable(read, PartsOf(t)) ELSE t.tag
            [] t.tag = "Tuple"  -> payload("types")
            [] t.tag = "Struct" -> payload("elements")
            [] t.tag = "Contract" -> IF "circuits" \notin DOMAIN t THEN t.tag
                                     ELSE FirstUnreadableInDescriptor(read, t.circuits)

FirstUnreadableTag(t) ==
  LET read[u \in SignatureTypes] == UnreadableTagOf(read, u)
  IN read[t]

(* What a declaration is made of: the caller's module is this compiler's. *)
Readable == {t \in SignatureTypes : FirstUnreadableTag(t) = READABLE}

------------------------------------------------------------------------------
(* A vector or a tuple: its length, and the type at an index. *)
IsSequence(t) == t.tag \in {"Vector", "Tuple"}

SequenceLength(t) == IF t.tag = "Vector" THEN t.length ELSE Len(t.types)

ElementAt(t, i) == IF t.tag = "Vector" THEN Part(t, "type") ELSE t.types[i]

SAME == "same"
DIFFERENT == "different"
THROWS == "throws"

(* Mutant: a vector is not a tuple. *)
SignatureTypesEqualByTag(a, b) == IF a = b THEN SAME ELSE DIFFERENT

TypesEqual(compare, s, t) ==
  IF Len(s) # Len(t) THEN DIFFERENT ELSE FirstBad([i \in DOMAIN s |-> compare[<<s[i], t[i]>>]], SAME)

ContractCircuitsEqual(compare, a, b) ==
  LET names == SetToSeq(DOMAIN a)
      circuit(n) == IF n \notin DOMAIN b THEN DIFFERENT
                    ELSE IF "argumentTypes" \notin DOMAIN b[n] THEN THROWS
                    ELSE TypesEqual(compare, TypesOf(a[n]), TypesOf(b[n]))
  IN IF Cardinality(DOMAIN a) # Cardinality(DOMAIN b) THEN DIFFERENT
     ELSE FirstBad([i \in DOMAIN names |-> circuit(names[i])], SAME)

ElementsEqual(compare, a, b) ==
  IF Len(a.elements) # Len(b.elements) THEN DIFFERENT
  ELSE FirstBad([i \in DOMAIN a.elements |->
         IF a.elements[i].name # b.elements[i].name THEN DIFFERENT
         ELSE compare[<<PartsOf(a)[i], PartsOf(b)[i]>>]], SAME)

SequencesEqual(compare, a, b) ==
  IF SequenceLength(a) # SequenceLength(b) THEN DIFFERENT
  ELSE FirstBad([i \in 1 .. SequenceLength(a) |-> compare[<<ElementAt(a, i), ElementAt(b, i)>>]], SAME)

(* The outcome of comparing a declared type with an implemented one: an
   every() or a chain of && stops at the first part that differs, or throws
   on a value that is not one. *)
Comparison(compare, a, b) ==
  LET test(eq) == IF eq THEN SAME ELSE DIFFERENT
  IN IF "tag" \notin DOMAIN b THEN THROWS
     ELSE IF IsSequence(a) THEN
       IF ~IsSequence(b) THEN DIFFERENT
       ELSE IF b.tag = "Tuple" /\ "types" \notin DOMAIN b THEN THROWS
       ELSE SequencesEqual(compare, a, b)
     ELSE IF a.tag # b.tag THEN DIFFERENT
     ELSE CASE a.tag \in PLAIN_TAGS -> SAME
            [] a.tag = "Uint"   -> test(a.maxval = b.maxval)
            [] a.tag = "Bytes"  -> test(a.length = b.length)
            [] a.tag = "Opaque" -> test(a.tsType = b.tsType)
            [] a.tag = "Enum"   -> IF a.name # b.name THEN DIFFERENT
                                   ELSE IF "names" \notin DOMAIN b THEN THROWS
                                   ELSE test(a.names = b.names)
            [] a.tag = "Struct" -> IF a.name # b.name THEN DIFFERENT
                                   ELSE IF "elements" \notin DOMAIN b THEN THROWS
                                   ELSE ElementsEqual(compare, a, b)
            [] a.tag = "Alias"  -> IF a.name # b.name THEN DIFFERENT
                                   ELSE compare[<<Part(a, "type"), Part(b, "type")>>]
            [] a.tag = "Contract" -> IF "circuits" \notin DOMAIN b THEN THROWS
                                     ELSE ContractCircuitsEqual(compare, a.circuits, b.circuits)

SignatureTypesEqual(a, b) ==
  LET compare[p \in Readable \X SignatureTypes] == Comparison(compare, p[1], p[2])
  IN compare[<<a, b>>]

------------------------------------------------------------------------------
Conformant == [outcome |-> "Conformant"]
Violation(circuitId, check, argumentIndex) ==
  [outcome |-> "Violation", circuitId |-> circuitId, check |-> check, argumentIndex |-> argumentIndex]
Unreadable(circuitId, unreadableTag, argumentIndex) ==
  [outcome |-> "Unreadable", circuitId |-> circuitId, unreadableTag |-> unreadableTag,
   argumentIndex |-> argumentIndex]
Threw == [outcome |-> "Threw"]

(* The index of a circuit's result. *)
RESULT == 0

(* One position: the implemented type is screened before it is compared. *)
CheckPosition(id, index, declared, implemented, rule) ==
  LET tag == FirstUnreadableTag(implemented)
      comparison == SignatureTypesEqual(declared, implemented)
  IN CASE tag # READABLE -> Unreadable(id, tag, index)
       [] tag = READABLE /\ comparison = DIFFERENT -> Violation(id, rule, index)
       [] tag = READABLE /\ comparison = THROWS    -> Threw
       [] OTHER -> Conformant

(* Mutant: any implementation is taken for a provable one. *)
CheckCircuitUnproved(id, declared, implementation) ==
  IF id \notin DOMAIN implementation THEN Violation(id, "Existence", RESULT)
  ELSE LET implemented == implementation[id]
       IN IF "argumentTypes" \notin DOMAIN implemented THEN Unreadable(id, MALFORMED, RESULT)
          ELSE IF Len(declared.argumentTypes) # Len(implemented.argumentTypes) THEN Violation(id, "Arity", RESULT)
          ELSE FirstBad([i \in DOMAIN declared.argumentTypes |->
                  CheckPosition(id, i, declared.argumentTypes[i], implemented.argumentTypes[i], "ArgumentType")]
                 \o <<CheckPosition(id, RESULT, declared.resultType, Part(implemented, "resultType"), "ResultType")>>,
               Conformant)

(* The rules in order, for one declared circuit. *)
CheckCircuit(id, declared, implementation) ==
  IF id \notin DOMAIN implementation THEN Violation(id, "Existence", RESULT)
  ELSE LET implemented == implementation[id]
       IN IF "argumentTypes" \notin DOMAIN implemented THEN Unreadable(id, MALFORMED, RESULT)
          ELSE IF ~implemented.provable THEN Violation(id, "Provability", RESULT)
          ELSE IF Len(declared.argumentTypes) # Len(implemented.argumentTypes) THEN Violation(id, "Arity", RESULT)
          ELSE FirstBad([i \in DOMAIN declared.argumentTypes |->
                  CheckPosition(id, i, declared.argumentTypes[i], implemented.argumentTypes[i], "ArgumentType")]
                 \o <<CheckPosition(id, RESULT, declared.resultType, Part(implemented, "resultType"), "ResultType")>>,
               Conformant)

CheckConformance(declaration, implementation) ==
  LET ids == SetToSeq(DOMAIN declaration)
  IN FirstBad([i \in DOMAIN ids |-> CheckCircuit(ids[i], declaration[ids[i]], implementation)], Conformant)
================================================================================
