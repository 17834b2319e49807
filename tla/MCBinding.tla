------------------------------- MODULE MCBinding -------------------------------
(* An instance of Binding for TLC: every pair of a readable and an arbitrary *)
(* encoded type as the declared and the implemented type of a position, and  *)
(* every way the tables of a module can disagree with the chain.             *)
EXTENDS Binding

Plain(tag) == [tag |-> tag]
Field == Plain("Field")
Boolean == Plain("Boolean")
Uint(max) == [tag |-> "Uint", maxval |-> max]
Bytes(n) == [tag |-> "Bytes", length |-> n]
Vector(n, t) == [tag |-> "Vector", length |-> n, type |-> t]
Tuple(types) == [tag |-> "Tuple", types |-> types]
Unit == Tuple(<<>>)
Enum(name, names) == [tag |-> "Enum", name |-> name, names |-> names]
Struct(name, elements) == [tag |-> "Struct", name |-> name, elements |-> elements]
Element(name, t) == [name |-> name, type |-> t]
Alias(name, t) == [tag |-> "Alias", name |-> name, type |-> t]
Contract(name, circuits) == [tag |-> "Contract", name |-> name, circuits |-> circuits]
Declared(arguments, result) == [argumentTypes |-> arguments, resultType |-> result]
Future == Plain("Future")

ReadableTypes ==
  {Field, Boolean, Uint(1), Uint(2), Bytes(1), Bytes(2), Unit,
   Vector(0, Field), Vector(0, Boolean), Vector(2, Field), Vector(1, Tuple(<<Field, Field>>)), Vector(1, Vector(2, Field)),
   Tuple(<<Field, Field>>), Tuple(<<Field, Boolean>>), Tuple(<<Vector(2, Field)>>),
   Enum("E", <<"a">>), Enum("E", <<"b">>), Enum("F", <<"a">>),
   Struct("S", <<Element("x", Field)>>), Struct("S", <<Element("y", Field)>>),
   Struct("S", <<Element("x", Vector(2, Field))>>), Struct("S", <<Element("x", Tuple(<<Field, Field>>))>>),
   Struct("T", <<Element("x", Field)>>),
   Alias("M", Field), Alias("N", Field), Alias("M", Boolean),
   Contract("C", [f |-> Declared(<<Field>>, Unit)]), Contract("D", [f |-> Declared(<<Field>>, Unit)]),
   Contract("C", [f |-> Declared(<<Field>>, Vector(0, Field))]),
   Contract("C", [f |-> Declared(<<>>, Unit)]), Contract("C", [g |-> Declared(<<Field>>, Unit)]),
   Contract("C", [f |-> Declared(<<Field>>, Unit), g |-> Declared(<<>>, Unit)])}

JunkTypes ==
  {NotAType, Future, Plain("Tuple"), Plain("Alias"), Vector(-1, Field), Vector(2, Future), Tuple(<<Field, Future>>),
   Vector(0, NotAType), [tag |-> "Enum", name |-> "E"], [tag |-> "Struct", name |-> "S"],
   Struct("S", <<[name |-> "x"]>>), Struct("S", <<Element("x", Plain("Tuple"))>>), Alias("M", Future),
   [tag |-> "Contract", name |-> "C"], Contract("C", [f |-> [resultType |-> Unit]]),
   Contract("C", [f |-> [argumentTypes |-> <<Field>>]]), Contract("C", [f |-> Declared(<<Future>>, Unit)])}

MCTypes == ReadableTypes \cup JunkTypes

------------------------------------------------------------------------------
MCDeclarations ==
  {[c1 |-> Declared(<<t>>, Unit)] : t \in ReadableTypes}
    \cup {[c1 |-> Declared(<<Field, Unit>>, Boolean)],
          [c1 |-> Declared(<<Field>>, Unit), c2 |-> Declared(<<>>, Field)]}

Signature(arguments, result, provable) ==
  [argumentTypes |-> arguments, resultType |-> result, provable |-> provable]

Exporting(exports, signatures, expectedVk, constructs, provable) ==
  [exports |-> exports, circuitSignatures |-> signatures, expectedVk |-> expectedVk,
   constructs |-> constructs, provableCircuits |-> provable]

Typed(signatures) ==
  Exporting(RESOLVED_MODULE_EXPORTS, signatures, [c1 |-> "k1"], TRUE, {"c1", "c2"})

Keyed(expectedVk) ==
  Exporting(RESOLVED_MODULE_EXPORTS,
            [c1 |-> Signature(<<Field>>, Unit, TRUE), c2 |-> Signature(<<>>, Field, TRUE)],
            expectedVk, TRUE, {"c1", "c2"})

MCModules ==
  {Typed([c1 |-> Signature(<<t>>, Unit, TRUE)]) : t \in MCTypes}
    \cup {Typed([c1 |-> Signature(<<Field>>, t, TRUE), c2 |-> Signature(<<>>, Field, TRUE)]) :
            t \in {Boolean, Vector(0, Boolean), Future, NotAType}}
    \cup {Typed([c1 |-> Signature(<<Field, t>>, Boolean, TRUE)]) : t \in {Unit, Field, Future}}
    \cup {Typed([c1 |-> Signature(<<Field>>, Unit, FALSE)]),
          Typed([c1 |-> [resultType |-> Unit, provable |-> TRUE]]),
          Typed([c1 |-> [argumentTypes |-> <<Field>>, provable |-> TRUE]]),
          Typed([c1 |-> Signature(<<Field>>, Unit, TRUE), c2 |-> Signature(<<>>, Field, FALSE)]),
          Typed([c2 |-> Signature(<<>>, Field, TRUE)])}
    \cup {Keyed([c1 |-> k]) : k \in {"k1", "k2", "garbage"}}
    \cup {Keyed([c1 |-> k, c2 |-> l]) : k, l \in {"k1", "k2", "garbage"}}
    \cup {Exporting({"Contract", "circuitSignatures"}, [c1 |-> Signature(<<Field>>, Unit, TRUE)],
                    [c1 |-> "k1"], TRUE, {"c1"}),
          Exporting(RESOLVED_MODULE_EXPORTS, [c1 |-> Signature(<<Field>>, Unit, TRUE)], [c1 |-> "k1"], TRUE, {}),
          Exporting(RESOLVED_MODULE_EXPORTS, [c1 |-> Signature(<<Field>>, Unit, TRUE)], [c1 |-> "k1"], FALSE, {"c1"})}

MCDeployedStates ==
  {[c1 |-> k] : k \in {"k1", "k2", "none"}} \cup {[c1 |-> k, c2 |-> l] : k \in {"k1", "k2"}, l \in {"k1", "k2", "none"}}
    \cup {[c2 |-> "k2"]}
================================================================================
