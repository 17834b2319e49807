---------------------------- MODULE FuzzGrammar ----------------------------
(***************************************************************************)
(* The grammar from which the compiler's fuzzer writes contracts.          *)
(*                                                                         *)
(* A production is a sequence of alternatives and an alternative a         *)
(* sequence of tokens; a token that names a production is expanded and any *)
(* other one is a terminal or text.  Text is left out, except the heads of *)
(* the catalogue's types, the preamble's variables where they are bound or *)
(* passed, and the literals that look like names.  An alternative that is  *)
(* only text is empty, but it counts: alternatives are equally likely.     *)
(***************************************************************************)
EXTENDS Integers, SequencesExt

TERMINALS == {"random_version", "random_string", "random_number", "very_small_random_number",
  "small_random_number", "random_table", "random_mixed_table", "uint_width", "uint_bound",
  "vector_length", "bytes_length", "merkle_depth"}

ENTRY_POINTS == [assert |-> "assert_statements", circuit |-> "circuit_statements",
  constructor |-> "constructor_statements", enum |-> "enum_definitions", for |-> "for_statements",
  if |-> "if_statements", import |-> "import_statements", include |-> "include_statements",
  ledger |-> "ledger_statements", module |-> "module_statements", pragma |-> "pragma_statements",
  std |-> "statements", single |-> "single_statements", struct |-> "struct_definitions",
  witness |-> "witness_statements"]

(* The names that are used most. *)
Str == "random_string"
Num == "random_number"
Tab == "random_table"
Ver == "random_version"
Key == "random_keyword"
Op == "random_operator"
Mix == "random_mixed_table"
Vt == "valid_types"
Ct == "compact_types"
Cct == "contaminated_compact_types"
End == "end_line"
Semi == "valid_end_line"
Line == "line_separator"

Flatten(alts) == FlattenSeq(alts)
Times(n, alternative) == [i \in 1 .. n |-> alternative]
Texts(n) == Times(n, <<>>)
Each(names) == [i \in DOMAIN names |-> <<names[i]>>]

-----------------------------------------------------------------------------
(* The constructors that the productions share. *)

contract(parts) == <<Line>> \o parts

method(args) == <<"optional_statement_variable">> \o args \o <<Semi>>

same(name, arity) == Times(arity, name)

(* The arguments of a call: one choice throughout, one choice with another *)
(* at a single position, and the choices in turn; each list once.          *)
argLists(arity, choices) ==
  LET n == Len(choices)
      Throughout == {same(choices[c], arity) : c \in 1 .. n}
      WithOther  == {[same(choices[b], arity) EXCEPT ![i] = choices[o]] :
                       b \in 1 .. n, o \in 1 .. n, i \in 1 .. arity}
      InTurn     == {[i \in 1 .. arity |-> choices[((i - 1 + offset) % n) + 1]] :
                       offset \in 0 .. n - 1}
      Lists      == Throughout \cup (IF arity > 1 THEN WithOther ELSE {})
                               \cup (IF arity > 2 THEN InTurn ELSE {})
      InSomeOrder[some \in SUBSET Lists] ==
        IF some = {} THEN <<>>
        ELSE LET list == CHOOSE l \in some : TRUE IN Append(InSomeOrder[some \ {list}], list)
  IN  InSomeOrder[Lists]

identifierPosition(extra) == Each(<<Str, Key, Tab, Ver, Num>>) \o extra

NumOpNum == <<Num, Op, Num>>

(* What a binding of the preamble refers to, and how it ends. *)
BINDING_VALUES(kind, type) ==
  CASE kind \in {"default", "typedDefault"} -> IF kind = "default" THEN <<type>> ELSE <<type, type>>
    [] kind = "pad"          -> <<Num, Str>>
    [] kind = "smallNumber"  -> <<"small_random_number">>
    [] kind = "number"       -> <<Num>>
    [] kind = "string"       -> <<Str>>
    [] kind = "sliceOfTuple" -> <<Num, Mix, Num>>
    [] OTHER                 -> <<Num, type, Num>>

BINDING_TERMINATOR(kind) == IF kind \in {"default", "typedDefault", "pad"} THEN Semi ELSE End

bindings(name, kinds, type, terminator) ==
  [i \in DOMAIN kinds |->
     <<name>> \o BINDING_VALUES(kinds[i], type)
       \o <<IF terminator = "" THEN BINDING_TERMINATOR(kinds[i]) ELSE terminator>>]

ASSERT_BINDINGS == <<"default", "pad", "spreadSliceOfType", "sliceOfType", "sliceOfDefault">>
IF_BINDINGS == <<"default", "typedDefault", "smallNumber", "number", "string", "sliceOfType",
                 "sliceOfDefault">>

PREAMBLE_VARS == <<"bob", "tom", "greg", "adonis">>

preambleRefs(prefix, count) == [i \in 1 .. count |-> prefix \o PREAMBLE_VARS[i]]

returnStatements(self) ==
  <<<<"optional_end">>, <<"optional_end">>, <<"optional_end", self>>, <<Key, "optional_end">>,
    <<Str, "optional_end">>, <<Num, "optional_end">>>>

commaList(item, self) == <<item, Append(item, self)>>

libraryName == identifierPosition(Texts(2) \o <<<<Vt>>, NumOpNum>>)

-----------------------------------------------------------------------------
(* Types: a row is the kind of a type, its head and what its slots hold. *)

Row(kind, head, slots) == [kind |-> kind, head |-> head, slots |-> slots]

(* 29 types are a bare name: five of them built in, eleven native, the *)
(* rest exported by the standard library.                              *)
TYPES == [i \in 1 .. 29 |-> Row("plain", "", <<>>)] \o <<
  Row("plain", "Uint<n>", <<"uint">>),          Row("plain", "Uint<a..b>", <<"range">>),
  Row("plain", "Bytes", <<"bytes">>),           Row("plain", "Vector", <<"length", "plain">>),
  Row("plain", "Tuple", <<"plain", "plain">>),  Row("plain", "Maybe", <<"plain">>),
  Row("plain", "Either", <<"plain", "plain">>), Row("plain", "MerkleTreePath", <<"length", "plain">>),
  Row("adt", "Kernel", <<>>),                   Row("adt", "Counter", <<>>),
  Row("adt", "List", <<"plain">>),              Row("adt", "Set", <<"plain">>),
  Row("adt", "MerkleTree", <<"depth", "plain">>),
  Row("adt", "HistoricMerkleTree", <<"depth", "plain">>),
  Row("adt", "Map", <<"plain", "any">>)>>

(* Mutant: Kernel is offered inside other types too. *)
NothingTopLevelOnly == {}

TopLevelOnly == {"Kernel"}

STATEMENT_SLOTS == [plain |-> <<"statement_std_types">>, any |-> <<"statement_nested_types">>,
  uint |-> <<"uint_width">>, range |-> <<"uint_bound">>, bytes |-> <<"bytes_length">>,
  length |-> <<"vector_length">>, depth |-> <<"merkle_depth">>]

FUZZED_SLOTS == [plain |-> <<"valid_std_types">>, any |-> <<"valid_nested_types">>,
  uint |-> <<Num>>, range |-> <<Num, Num>>, bytes |-> <<Num>>, length |-> <<Num>>, depth |-> <<Num>>]

(* The types of one kind; a nested one sits inside another ADT. *)
typesFor(kind, nested, slots) ==
  LET Wanted(row) == row.kind = kind /\ ~(nested /\ row.head \in TopLevelOnly)
      Write(row)  == (IF row.head = "" THEN <<>> ELSE <<row.head>>)
                       \o Flatten([s \in DOMAIN row.slots |-> slots[row.slots[s]]])
  IN  Flatten([i \in DOMAIN TYPES |-> IF Wanted(TYPES[i]) THEN <<Write(TYPES[i])>> ELSE <<>>])

typeProductions == [
  statement_std_types           |-> typesFor("plain", FALSE, STATEMENT_SLOTS),
  statement_ledger_types        |-> typesFor("adt", FALSE, STATEMENT_SLOTS),
  statement_nested_ledger_types |-> typesFor("adt", TRUE, STATEMENT_SLOTS),
  valid_std_types               |-> typesFor("plain", FALSE, FUZZED_SLOTS),
  valid_ledger_types            |-> typesFor("adt", FALSE, FUZZED_SLOTS),
  valid_nested_ledger_types     |-> typesFor("adt", TRUE, FUZZED_SLOTS)]

(* How the ledger's variables are declared, and the operations called on them. *)
LEDGER_ADT_TYPES == [kernel |-> <<>>, counter |-> <<"Counter">>,
  set |-> <<"Set", "statement_std_types">>,
  map |-> <<"Map", "statement_std_types", "statement_nested_types">>,
  list |-> <<"List", "statement_std_types">>,
  mt |-> <<"MerkleTree", "merkle_depth", "statement_std_types">>,
  hmt |-> <<"HistoricMerkleTree", "merkle_depth", "statement_std_types">>]

ADTS == <<"kernel", "counter", "set", "map", "list", "mt", "hmt">>

adtDeclaration(adt) == Append(LEDGER_ADT_TYPES[adt], Semi)

-----------------------------------------------------------------------------
(* The productions, by category. *)

Harness == [
  statements |-> <<contract(<<"statement_variables", "statement_declaration", "statement_body">>)>>,
  statement_variables |-> <<Flatten([i \in 1 .. 6 |-> adtDeclaration(ADTS[i + 1])])>>,
  statement_declaration |-> Texts(2),
  statement_body |-> <<preambleRefs("binding_", 4) \o <<"statement", "after_statement">>>>,
  assert_statements |-> <<contract(<<"constructor_harness", "assert_body">>)>>,
  assert_body |-> <<preambleRefs("assert_binding_", 2) \o <<"assert_statement">>>>,
  if_statements |-> <<contract(<<"constructor_harness", "if_body">>)>>,
  if_body |-> <<preambleRefs("if_binding_", 3) \o <<"if_statement">>>>,
  for_statements |-> <<contract(<<"constructor_harness", "for_body">>),
                       contract(<<"counter_declaration", "constructor_harness", "for_body">>)>>,
  for_body |-> <<<<"for_loop_range">>>>,
  constructor_statements |-> <<contract(<<"constructor_declaration", "constructor_body">>)>>,
  constructor_body |-> <<<<"fixed_assert_statement", "constructor_return_statements">>>>,
  constructor_harness |-> Texts(1),
  circuit_statements |-> <<contract(<<"invalid_circuit_modifier", "circuit_declaration">>),
    <<"invalid_circuit_modifier", "circuit_declaration">>,
    contract(<<"valid_circuit_modifier", "circuit_declaration_with_body", "circuit_body">>)>>,
  circuit_body |->
    LET Ret == "circuit_return_statements"
    IN  <<<<"fixed_assert_statement", Ret>>, <<"circuit_multi_const_statements", Ret>>,
          <<"struct_decl", "circuit_multi_const_statements_struct", Ret>>,
          <<"struct_decl", "circuit_spread_statements", Ret>>,
          <<"struct_decl", "circuit_map_fold_statements", Ret>>>>,
  struct_definitions |-> <<contract(<<"struct_decl", "struct_definition">>)>>,
  enum_definitions |-> <<contract(<<"enum_definition">>)>>,
  witness_statements |-> Times(2, contract(<<"witness_declaration">>)),
  ledger_statements |-> <<<<Line, "optional_modifier", Str, Ct, End>>>>,
  module_statements |-> <<<<"module_statement">>>>,
  pragma_statements |-> <<<<"pragma_constraints", End>>>>,
  import_statements |-> <<<<"import_statement">>>>,
  include_statements |-> <<<<"include_statement">>>>]

Keywords == [javascript_keywords |-> Texts(82), compact_keywords |-> Texts(78),
  other_keywords |-> Texts(6)]

Operators == [valid_operator |-> Texts(14), invalid_operator |-> Texts(74)]

Lexical == Keywords @@ Operators @@ [
  end_line |-> <<<<Semi>>, <<"invalid_start_or_end_line">>>>,
  valid_end_line |-> Texts(2),
  line_separator |-> Texts(1),
  optional_end |-> Texts(1) \o <<<<End>>>>,
  random_keyword |-> Each(<<"javascript_keywords", "compact_keywords", "other_keywords">>),
  random_operator |-> Each(<<"valid_operator", "invalid_operator">>),
  statement_operator |-> Texts(11),
  invalid_start_or_end_line |-> Texts(32)]

InvalidTypes == [
  invalid_std_types |-> Each(<<Str, Str, Num, Str, Ct, Ct>>) \o <<<<Str, Str>>, <<Ct, Ct>>,
    <<Num, "invalid_types">>, <<Str, "invalid_types">>, <<Num, "valid_std_types">>, <<Ct, Ct>>,
    <<Num, Ct>>>>,
  invalid_ledger_types |-> Each(<<Num, Num, Ct, Num, Ct, Num, Ct, Num, Ct>>)
    \o Times(5, <<Ct, Ct>>) \o Times(3, <<Num, Ct>>)]

Types == typeProductions @@ InvalidTypes @@ [
  compact_types |-> LET In == "invalid_types"
                    IN  <<<<Vt>>, <<Vt, Vt>>, <<Vt, In>>, <<In>>, <<In, In>>, <<In, Vt>>>>,
  contaminated_compact_types |-> Each(<<Ct, Str, Key, Num, Ver, Tab>>),
  valid_types |-> Each(<<"valid_std_types", "valid_ledger_types">>),
  valid_nested_types |-> Each(<<"valid_std_types", "valid_nested_ledger_types">>),
  invalid_types |-> Each(<<"invalid_std_types", "invalid_ledger_types">>),
  generic_value |-> Texts(3),
  generic_type |-> [n \in 1 .. 7 |-> same("generic_value", IF n \in {1, 3, 5} THEN 1 ELSE 2)],
  module_generic_value |-> Texts(6) \o <<<<Str>>>>,
  statement_valid_types |-> Each(<<"statement_ledger_types", "statement_std_types">>),
  statement_nested_types |-> Each(<<"statement_nested_ledger_types", "statement_std_types">>)]

Modules == [
  import_statement |-> LET Lib == "import_library" IN
    <<<<Key, Lib, End>>, <<Str, Lib, End>>, <<Lib, End>>, <<Lib, "prefix_string", End>>>>,
  import_library |-> libraryName,
  prefix_string |-> libraryName,
  include_statement |-> LET File == "include_file" IN
    <<<<Key, File, End>>, <<Str, File, End>>, <<File, End>>>>,
  include_file |-> Texts(6) \o Each(<<Str, Key, Tab, Ver, Num, Vt>>) \o <<NumOpNum>>,
  module_statement |->
    LET Name == "module_name"  Generic == "module_generic_value" IN
    <<<<Name, Line, Line>>, <<Name, Generic, Generic, Line, Line>>>>
      \o Times(4, <<Name, "module_params", Line, Line>>),
  module_params |-> identifierPosition(<<<<Ct>>, NumOpNum, <<Str, "module_params">>>>),
  module_name |-> identifierPosition(<<<<Ct>>, NumOpNum>>)]

Pragmas == [
  pragma_constraints |-> <<<<"pragma_constraint">>,
                           <<"pragma_constraints", Op, "pragma_constraint">>>>,
  pragma_constraint |-> <<<<"pragma_type", Op, "version_number">>>>,
  pragma_type |-> identifierPosition(<<<<"language_version">>, <<"compiler_version">>, NumOpNum>>),
  version_number |-> Times(5, <<Ver>>) \o <<<<Ver, Ver>>, <<Key>>, <<Str>>, <<>>>>]

Witnesses == [
  witness_declaration |->
    LET Args == "witness_args"  Params == "witness_params" IN
    Times(2, <<Str, Vt, End>>) \o
    <<<<Key, Vt, End>>, <<Str, Ct, End>>, <<Key, Ct, End>>, <<Str, Args, Ct, End>>,
      <<Str, Args, Params, Ct, End>>, <<Str, "generic_value", "generic_type", End>>,
      <<Str, Params, Ct, End>>>>,
  witness_args |-> <<<<Key>>>> \o commaList(<<Str>>, "witness_args"),
  witness_params |-> <<<<Str, Ct>>, <<Key, Ct>>, <<Num, Ct>>, <<Tab, Ct>>, <<Ver, Ct>>,
                       <<Str, Ct, "witness_params">>>>]

StructsAndEnums == [
  struct_definition |-> <<<<Str, "struct_fields", End>>, <<Key, Str, "struct_fields", End>>>>,
  struct_fields |-> <<<<"struct_field">>, <<"struct_field", Line, "struct_fields">>>>,
  struct_field |-> <<<<Str, Vt>>, <<Str, "var_struct">>, <<Key, Vt>>, <<Str, Ct>>>>,
  struct_decl |-> <<<<"var_struct", "struct_decl_fields", Semi>>>>,
  struct_decl_fields |-> <<<<Str, Vt>>>>,
  enum_definition |-> Times(2, <<"enum_name", "enum_values", End>>),
  enum_name |-> identifierPosition(<<>>),
  enum_values |-> LET positions == identifierPosition(<<>>) IN
    [i \in DOMAIN positions |-> Append(positions[i], Line)] \o <<<<Str, Line, "enum_values">>>>]

Circuits == [
  invalid_circuit_modifier |-> Each(<<Key, Str>>),
  valid_circuit_modifier |-> Texts(4),
  circuit_declaration |->
    LET Args == "circuit_args"  Params == "contaminated_circuit_params" IN
    <<<<Str, Cct, End>>, <<Key, Cct, End>>, <<Str, Args, Cct, End>>, <<Str, Args, Params, Cct, End>>,
      <<Str, "generic_value", "generic_type", End>>, <<Str, Params, Cct, End>>>>,
  circuit_declaration_with_body |->
    LET Args == "circuit_args"  Params == "circuit_params" IN
    <<<<Str, Vt>>, <<Str, Args, Vt>>, <<Str, Args, Params, Vt>>, <<Str, Params, Vt>>>>,
  circuit_args |-> commaList(<<Str>>, "circuit_args"),
  circuit_params |-> commaList(<<Str, Vt>>, "circuit_params"),
  contaminated_circuit_params |-> <<<<Str, Cct>>, <<Key, Cct>>, <<Str, Cct, "circuit_params">>>>]

Declarations == Modules @@ Pragmas @@ Witnesses @@ StructsAndEnums @@ Circuits @@ [
  optional_modifier |-> Texts(5) \o Each(<<Key, Str, Tab, Ver, Num, Ct>>),
  counter_declaration |-> <<<<End>>>>,
  constructor_declaration |-> <<<<Key>>, <<Str>>, <<>>, <<"constructor_params">>>>,
  constructor_params |->
    LET Param == "constructor_param_types" IN
    <<<<Str, Param>>, <<Key, Param>>, <<Str, Param, "constructor_params">>>>,
  constructor_param_types |-> identifierPosition(<<<<Ct>>>>)]

preambleBindings(prefix, count, kinds, type, terminator) ==
  LET names == preambleRefs(prefix, count)
  IN  [n \in Range(names) |->
         LET i == CHOOSE k \in 1 .. count : names[k] = n
         IN  bindings(PREAMBLE_VARS[i], kinds \o (IF n = "if_binding_greg" THEN <<"sliceOfTuple">> ELSE <<>>),
                      type, terminator)]

CircuitStatements == [
  fixed_assert_statement |-> <<<<End>>>>,
  constructor_return_statements |-> returnStatements("constructor_return_statements"),
  circuit_return_statements |-> returnStatements("circuit_return_statements"),
  circuit_spread_statements |-> <<<<Num, Vt, Num, End>>, same(Vt, 4) \o <<End>>>>
    \o Times(2, <<Str, Num, End>>) \o Times(2, <<Tab, Mix, End>>),
  circuit_multi_const_statements |->
    <<<<Str, Vt, Str, Num, Str, Mix, End>>, <<Str, Vt, Str, "small_random_number", Str, Key, End>>,
      <<Str, Vt, Vt, Str, Vt, Num, Str, Vt, Key, End>>>>,
  circuit_multi_const_statements_struct |-> <<<<Str, "var_struct", Str, Str, Str, Num, End>>>>,
  circuit_map_fold_statements |-> Times(2, same(Vt, 3) \o <<Num, Vt, Semi>>)
    \o Times(2, same(Vt, 5) \o <<Semi>>)]

Statements == CircuitStatements
  @@ preambleBindings("assert_binding_", 2, ASSERT_BINDINGS, Vt, "")
  @@ preambleBindings("if_binding_", 3, IF_BINDINGS, Vt, "")
  @@ preambleBindings("binding_", 4, <<"default", "smallNumber">>, "statement_valid_types", Semi)
  @@ [
  assert_statement |-> LET Cond == "assert_condition" IN
    <<<<Cond, Str, End>>, <<Key, Str, End>>, <<Cond, Key, End>>, <<Cond, Key, Str, End>>,
      <<Key, Cond, Str, End>>>>,
  if_statement |-> LET If == <<"if_condition", Op, "if_condition", End>>
                   IN  <<If, Append(If, "if_statement")>>,
  for_loop_range |-> <<same("very_small_random_number", 2)>>
    \o Each(<<"counter_operation", Tab, Vt, Vt, Key, Tab, Tab, Tab, Tab, Key, Ver, Vt, Vt, Str, Mix>>)
    \o <<<<Num, Num>>, <<Num, Num>>, <<Num, Vt, Num>>, <<Num, Tab, Num>>>>,
  statement |-> [i \in DOMAIN ADTS |-> <<"adt_" \o ADTS[i]>>],
  optional_statement_variable |-> Texts(1),
  after_statement |-> Each(<<"no_variable_after_statement", "variable_after_statement">>),
  variable_after_statement |->
    LET Var == "statement_variable"  Operator == "statement_operator" IN
    Times(2, <<Operator, Var, Semi>>) \o <<<<Var, Var, Semi>>, same("statement_methods", 2) \o <<Semi>>>>
      \o Times(4, <<Var, Semi>>),
  no_variable_after_statement |->
    LET Call == "no_variable_statement_methods"  Operator == "statement_operator" IN
    <<<<Operator, Call, Semi>>, <<Call, Operator, Call, Semi>>>> \o Times(5, <<Call, Semi>>)]

Expressions == [
  assert_condition |-> <<<<Str>>, <<Key>>, <<Op, Op, Mix>>, same(Op, 3), <<Op, Key>>, <<Key, Op>>>>
    \o Times(2, <<Op, Op>>) \o Times(4, <<Op>>),
  if_condition |-> <<<<Op>>, <<Key>>, <<Op, Op>>, <<Op, Key>>, <<Op, Str>>, <<Str, Op>>, <<Vt, Op, Num>>,
      <<Op, Vt>>, <<Vt, Op, Vt>>>> \o Times(5, <<Op, Num>>) \o Times(5, <<Num, Op>>),
  counter_operation |-> <<<<Op, Num>>, <<Op, "small_random_number">>, <<Op, Num, "counter_operation">>>>,
  random_input |-> Each(<<"small_random_number", Str, Ver, Tab, Tab, Key>>),
  statement_variable |-> Each(PREAMBLE_VARS)]

(* The operations of each ADT, as the most arguments each is called with: *)
(* two, unless WIDE_ARITY has more.                                       *)
LEDGER_OPS == [kernel |-> <<4, 4, 3>> \o Times(14, 2), counter |-> Times(5, 2),
  set |-> <<4>> \o Times(6, 2), map |-> <<3, 4>> \o Times(7, 2), list |-> <<3>> \o Times(6, 2),
  mt |-> Times(3, 3) \o Times(9, 2), hmt |-> Times(3, 3) \o Times(12, 2)]

AdtNames(prefix, suffix) == {prefix \o adt \o suffix : adt \in Range(ADTS)}
AdtOf(prefix, name, suffix) == CHOOSE adt \in Range(ADTS) : name = prefix \o adt \o suffix

SingleStatement(adt) ==
  contract((IF LEDGER_ADT_TYPES[adt] = <<>> THEN <<>> ELSE <<"single_" \o adt>>)
             \o <<"statement_declaration", "single_" \o adt \o "_body">>)

CallsWithVariables(adt) ==
  Flatten([i \in DOMAIN LEDGER_OPS[adt] |->
    [k \in 1 .. LEDGER_OPS[adt][i] - 1 |-> method(SubSeq(PREAMBLE_VARS, 1, k + 1))]
      \o <<method(same("statement_variable", 1)), method(same("statement_variable", 2))>>])

CallsWithoutVariables(adt) ==
  <<method(<<"random_input">>)>> \o
  Flatten([i \in DOMAIN LEDGER_OPS[adt] |-> <<method(<<>>), method(<<"random_input">>)>>])

LedgerAdts ==
  [single_statements |-> [i \in DOMAIN ADTS |-> SingleStatement(ADTS[i])]]
  @@ [n \in AdtNames("single_", "") \ {"single_kernel"} |-> <<adtDeclaration(AdtOf("single_", n, ""))>>]
  @@ [n \in AdtNames("single_", "_body") |->
        <<<<"no_variable_" \o AdtOf("single_", n, "_body"), "no_variable_after_statement">>>>]
  @@ [n \in AdtNames("adt_", "") |->
        LET adt == AdtOf("adt_", n, "") IN <<<<"variable_" \o adt>>, <<"no_variable_" \o adt>>>>]
  @@ [n \in AdtNames("variable_", "") |-> CallsWithVariables(AdtOf("variable_", n, ""))]
  @@ [n \in AdtNames("no_variable_", "") |-> CallsWithoutVariables(AdtOf("no_variable_", n, ""))]

-----------------------------------------------------------------------------
(* The circuits of the standard library: the generic arguments of each and *)
(* the most arguments it takes.  Their names are left out.                 *)

StdlibCall(generics, maxArgs) == [generics |-> generics, maxArgs |-> maxArgs]

STDLIB_CALLS ==
  LET T == "statement_std_types"  N == "small_random_number" IN
  Times(21, StdlibCall(<<>>, 1)) \o Times(10, StdlibCall(<<>>, 2)) \o Times(11, StdlibCall(<<>>, 3))
    \o Times(3, StdlibCall(<<>>, 4)) \o Times(7, StdlibCall(<<T>>, 1)) \o Times(2, StdlibCall(<<T>>, 2))
    \o Times(2, StdlibCall(<<T, T>>, 1)) \o Times(2, StdlibCall(<<N>>, 3))
    \o <<StdlibCall(<<N>>, 1), StdlibCall(<<N, T>>, 2)>>

badGenerics(generics, name) ==
  IF generics = <<>> THEN <<>> ELSE Append(Front(generics), name)

VALUE_ARGS == <<"statement_variable", "statement_methods">>

(* Mutant: an argument that calls any other circuit, in place of a type. *)
NO_VALUE_ARGS_CALLING == <<"random_input", "statement_methods", "no_variable_statement_methods">>

NO_VALUE_ARGS == <<"random_input", "statement_std_types", "no_variable_statement_methods">>
BAD_GENERIC_ARGS == <<"random_input", "statement_methods">>

WithValues(c) ==
  Flatten([arity \in 1 .. c.maxArgs |->
    LET lists == argLists(arity, VALUE_ARGS)
    IN  [i \in DOMAIN lists |-> c.generics \o lists[i]]
          \o (IF c.generics = <<>> THEN <<>> ELSE
                [b \in DOMAIN BAD_GENERIC_ARGS |->
                   badGenerics(c.generics, BAD_GENERIC_ARGS[b]) \o same("statement_variable", arity)])])

WithoutValues(c) ==
  LET bad == badGenerics(c.generics, "random_input")
      Misused(alternative) == IF c.generics = <<>> THEN <<>> ELSE <<alternative>>
  IN  <<c.generics>> \o Misused(bad)
        \o Flatten([arity \in 1 .. c.maxArgs |->
             [i \in DOMAIN NO_VALUE_ARGS |-> c.generics \o same(NO_VALUE_ARGS[i], arity)]
               \o Misused(bad \o same("statement_std_types", arity))])

stdlibProductions == [
  variable_statement_methods    |-> Flatten([i \in DOMAIN STDLIB_CALLS |-> WithValues(STDLIB_CALLS[i])]),
  no_variable_statement_methods |-> Flatten([i \in DOMAIN STDLIB_CALLS |-> WithoutValues(STDLIB_CALLS[i])])]

Stdlib == [statement_methods |-> Each(<<"variable_statement_methods", "no_variable_statement_methods">>)]
            @@ stdlibProductions

CATEGORIES == [harness |-> Harness, lexical |-> Lexical, types |-> Types, declarations |-> Declarations,
  statements |-> Statements, expressions |-> Expressions, ledgerAdts |-> LedgerAdts, stdlib |-> Stdlib]

(* Object.assign: of two productions with one name, the later one stays. *)
Assigned(c) == c.stdlib @@ c.ledgerAdts @@ c.expressions @@ c.statements @@ c.declarations
                 @@ c.types @@ c.lexical @@ c.harness

(* The grammar for one set of compiler flags.  No flag has a type or a call *)
(* of its own, so the productions of types and calls are put back as built. *)
buildGrammar(categories) ==
  LET Own(c, productions) == Restrict(categories[c], DOMAIN categories[c] \cap DOMAIN productions)
  IN  Own("types", typeProductions) @@ Own("stdlib", stdlibProductions) @@ Assigned(categories)

grammar == buildGrammar(CATEGORIES)
=============================================================================
