------------------------------- MODULE Fuzzer -------------------------------
(***************************************************************************)
(* The fuzzer of the compiler: a grammar that may hold one slip of the pen *)
(* is validated, and an accepted one is expanded from every entry point.   *)
(*                                                                         *)
(* The expansions of an alternative's tokens do not depend on one another, *)
(* so a behaviour follows one token of each alternative down to a leaf:    *)
(* all paths of all contracts, where a contract is one tree of them.       *)
(***************************************************************************)
EXTENDS FuzzGrammar, FiniteSets

CONSTANTS
  MAX_DEPTH,      \* expansions deeper than this are dropped
  SlipDepth,      \* how deep a grammar with a slip is followed
  SizeBits,       \* 2^SizeBits stands for 2^248, and SizeBits for 248
  MaxLength,      \* TYPE_SIZE_LIMITS.maxVectorLength and maxBytesLength
  MaxMerkleDepth, \* TYPE_SIZE_LIMITS.maxMerkleDepth
  NarrowSpan,     \* a wider range is drawn bit by bit: 65536
  MaxExpansions   \* what an average contract may take

ASSUME BoundsAssumption ==
  /\ {MAX_DEPTH, SlipDepth, SizeBits, MaxLength, MaxMerkleDepth, NarrowSpan, MaxExpansions} \subseteq Nat \ {0}
  /\ MaxMerkleDepth >= 4 /\ SizeBits >= 4 /\ MaxLength >= 4

VARIABLES
  slip,     \* how the table differs from the catalogue
  verdict,  \* what validate said: "unchecked", "accepted" or "refused"
  fuzzer,   \* the fuzzer writing a contract
  node,     \* the token being generated
  outer,    \* the type and the slot that the token is written in
  depth

vars == <<slip, verdict, fuzzer, node, outer, depth>>

NoSlip  == [kind |-> "none"]
NoNode  == ""
Outside == <<"", 0>>

-----------------------------------------------------------------------------
(* Slips: one reference or one definition is misspelt, a production is     *)
(* defined a second time in another category, one takes the name of a      *)
(* variable.                                                               *)

Names == DOMAIN grammar
CategoryOf(name) == CHOOSE c \in DOMAIN CATEGORIES : name \in DOMAIN CATEGORIES[c]
References ==
  [n \in Names |-> UNION {Range(grammar[n][i]) : i \in DOMAIN grammar[n]} \cap (Names \cup TERMINALS)] @@ <<>>

(* A misspelling may look like a production's name ("named"), have a       *)
(* capital or a hyphen ("capital") or lack an underscore ("joined").       *)
Spellings == {"named", "capital", "joined"}
Misspelt(name, how) == how \o " " \o name

(* Or it is the name of another production, at most two edits away.        *)
SIMILAR == {{"adt_hmt", "adt_mt"}, {"single_hmt", "single_mt"}, {"single_map_body", "single_mt_body"},
  {"binding_bob", "binding_tom"}, {"import_statement", "import_statements"},
  {"pragma_constraint", "pragma_constraints"}, {"statement", "statements"},
  {"struct_field", "struct_fields"}, {"valid_types", "invalid_types"},
  {"valid_std_types", "invalid_std_types"}, {"valid_operator", "invalid_operator"}}

Misspellings(name) == {Misspelt(name, how) : how \in Spellings}
                        \cup UNION {pair \ {name} : pair \in {q \in SIMILAR : name \in q}}

Slips ==
  {NoSlip}
  \cup UNION {{[kind |-> "reference", in |-> r[1], to |-> r[2], as |-> token] : token \in Misspellings(r[2])} :
               r \in UNION {{n} \X References[n] : n \in Names}}
  \cup {[kind |-> "definition", of |-> n, as |-> Misspelt(n, how)] : n \in Names, how \in Spellings}
  \cup {[kind |-> "second", of |-> n, in |-> IF CategoryOf(n) = "harness" THEN "stdlib" ELSE "harness"] :
          n \in Names}
  \cup {[kind |-> "second", of |-> v, in |-> "statements"] : v \in Range(PREAMBLE_VARS)}

(* A reference is misspelt where a production has it first.                 *)
MisspeltIn(alternatives, name, token) ==
  LET i == Min({k \in DOMAIN alternatives : name \in Range(alternatives[k])})
      j == Min({k \in DOMAIN alternatives[i] : alternatives[i][k] = name})
  IN  [alternatives EXCEPT ![i][j] = token]

(* The categories as written with a slip. *)
Written(s) ==
  CASE s.kind = "none" -> CATEGORIES
    [] s.kind = "reference" ->
         [CATEGORIES EXCEPT ![CategoryOf(s.in)][s.in] = MisspeltIn(@, s.to, s.as)]
    [] s.kind = "definition" ->
         [CATEGORIES EXCEPT ![CategoryOf(s.of)] = (s.as :> @[s.of]) @@ Restrict(@, DOMAIN @ \ {s.of})]
    [] s.kind = "second" -> [CATEGORIES EXCEPT ![s.in] = (s.of :> Texts(1)) @@ @]

(* A misspelt reference leaves every production in its category. *)
Table(s) ==
  CASE s.kind = "none" -> grammar
    [] s.kind = "reference" -> [grammar EXCEPT ![s.in] = MisspeltIn(@, s.to, s.as)]
    [] OTHER -> buildGrammar(Written(s))

-----------------------------------------------------------------------------
(* validate *)

INTENTIONAL_LITERALS == {"var_struct", "language_version", "compiler_version"}
BARE_NAMES_ALLOWED == {"statements", "statement"}

(* Every token that is kept has an underscore, but for these. *)
BareTokens ==
  LET bare == BARE_NAMES_ALLOWED \cup Range(PREAMBLE_VARS)
  IN  bare \cup {Misspelt(n, "capital") : n \in bare}
           \cup {Misspelt(n, "joined") : n \in Names \cup TERMINALS \cup bare}
           \cup {TYPES[i].head : i \in DOMAIN TYPES}

Capitalised == {Misspelt(n, "capital") : n \in Names \cup TERMINALS}

looksLikeNonterminal(token) == token \notin BareTokens /\ token \notin Capitalised

Tokens(alternatives) == UNION {Range(alternatives[i]) : i \in DOMAIN alternatives}

bareProductionNames(table) ==
  (DOMAIN table \cap BareTokens) \ BARE_NAMES_ALLOWED

(* Names that two categories define. *)
validateCategories(categories) ==
  {n \in UNION {DOMAIN categories[c] : c \in DOMAIN categories} :
     Cardinality({c \in DOMAIN categories : n \in DOMAIN categories[c]}) > 1}

Dangling(table) ==
  {t \in UNION {Tokens(table[n]) : n \in DOMAIN table} :
     looksLikeNonterminal(t) /\ t \notin DOMAIN table \cup TERMINALS \cup INTENTIONAL_LITERALS}

(* What the productions in frontier reach, besides those seen before. *)
RECURSIVE ReachedFrom(_, _, _)
ReachedFrom(table, frontier, seen) ==
  LET next == (UNION {Tokens(table[n]) : n \in frontier} \cap DOMAIN table) \ (seen \cup frontier)
  IN  IF frontier = {} THEN seen ELSE ReachedFrom(table, next, seen \cup frontier)

(* Mutant: every production counts as reached. *)
reachableAll(table) == DOMAIN table

reachable(table) == ReachedFrom(table, Range(ENTRY_POINTS) \cap DOMAIN table, {})

Unreachable(table) == DOMAIN table \ reachable(table)

IdleTerminals(table) ==
  TERMINALS \ UNION {Tokens(table[n]) : n \in reachable(table)}

validate(s) ==
  LET table == Table(s)
  IN  validateCategories(Written(s)) \cup bareProductionNames(table) \cup Dangling(table)
        \cup Unreachable(table) \cup IdleTerminals(table)

-----------------------------------------------------------------------------
(* Terminals that write a size.  A number is drawn among edges or within a *)
(* range, and is written in one of four radices, which changes no value.   *)

NotASize == -1  \* a negative number, a fraction or text

randomBigIntBetween(min, max) ==
  LET span == max - min
      bits == CHOOSE b \in 0 .. SizeBits + 1 : 2^b > span /\ (b > 0 => 2^(b - 1) <= span)
      Clamped(value) == IF value < min THEN min ELSE IF value > max THEN max ELSE value
  IN  IF span < NarrowSpan THEN min .. max ELSE {Clamped(value) : value \in 0 .. 2^bits - 1}

pickSize(edges, min, max) == edges \cup randomBigIntBetween(min, max)

(* A number of any kind: negative, fractional, or up to a number of bits. *)
pickRandomNumber(bits) == {NotASize} \cup 0 .. 2^bits - 1

TerminalSizes(terminal) ==
  CASE terminal = "uint_width"    -> pickSize({0, 1, SizeBits - 1, SizeBits}, 0, SizeBits)
    [] terminal = "uint_bound"    -> pickSize({1, 2, 2^SizeBits - 1, 2^SizeBits}, 1, 2^SizeBits)
    [] terminal = "vector_length" -> pickSize({0, 1, 2, MaxLength - 1, MaxLength}, 0, MaxLength)
    [] terminal = "bytes_length"  -> pickSize({0, 1, MaxLength}, 0, MaxLength)
    [] terminal = "merkle_depth"  ->
         pickSize({2, 3, MaxMerkleDepth - 1, MaxMerkleDepth}, 2, MaxMerkleDepth)
    [] terminal = "very_small_random_number" -> 0 .. 2^SizeBits - 1
    [] terminal \in {"random_number", "small_random_number"} -> pickRandomNumber(SizeBits + 1)
    [] OTHER -> {NotASize}

-----------------------------------------------------------------------------
(* The number of expansions that a token takes on average when k levels    *)
(* are left, in hundredths rounded up.  (@@ has TLC tabulate a function.)  *)

AverageSizes(table) ==
  LET Uses(n, m) ==
        Cardinality(UNION {{i} \X {j \in DOMAIN table[n][i] : table[n][i][j] = m} : i \in DOMAIN table[n]})
      uses == [n \in DOMAIN table |->
                 [m \in Tokens(table[n]) \cap DOMAIN table |-> Uses(n, m)] @@ <<>>] @@ <<>>
      Sizes[k \in 0 .. MAX_DEPTH] ==
        IF k = 0 THEN [n \in DOMAIN table |-> 0]
        ELSE LET below == Sizes[k - 1]
                 Total(n) == MapThenSumSet(LAMBDA m : uses[n][m] * below[m], DOMAIN uses[n])
             IN  [n \in DOMAIN table |-> 101 + (Total(n) \div Len(table[n]))] @@ <<>>
  IN  Sizes[MAX_DEPTH]

averageSizes == AverageSizes(grammar)

-----------------------------------------------------------------------------
Init ==
  /\ slip \in Slips
  /\ verdict = "unchecked"
  /\ fuzzer = "" /\ node = NoNode /\ outer = Outside /\ depth = 0

(* generate refuses to write anything from a grammar with a problem. *)
Validate ==
  /\ verdict = "unchecked"
  /\ verdict' = IF validate(slip) = {} THEN "accepted" ELSE "refused"
  /\ UNCHANGED <<slip, fuzzer, node, outer, depth>>

(* A grammar with a slip is cut at SlipDepth, which bounds the exploration. *)
Expands(token) ==
  depth <= (IF slip = NoSlip THEN MAX_DEPTH ELSE SlipDepth) /\ token \in DOMAIN Table(slip)

(* The next contract begins when the path of this one is at its leaf. *)
StartContract ==
  /\ verdict = "accepted"
  /\ ~Expands(node)
  /\ fuzzer' \in DOMAIN ENTRY_POINTS
  /\ node' = ENTRY_POINTS[fuzzer']
  /\ outer' = Outside /\ depth' = 0
  /\ UNCHANGED <<slip, verdict>>

SlotsOf(token) == UNION {DOMAIN TYPES[r].slots : r \in {t \in DOMAIN TYPES : TYPES[t].head = token}}

(* A token is written in a slot of a type that comes just before it, or *)
(* else where the token that it replaces was.                           *)
SlotOf(alternative, i) ==
  LET heads == {j \in 1 .. i - 1 : i - j \in SlotsOf(alternative[j])}
  IN  IF heads = {} THEN outer ELSE <<alternative[Max(heads)], i - Max(heads)>>

Expand ==
  /\ verdict = "accepted"
  /\ Expands(node)
  /\ \E alternative \in Range(Table(slip)[node]) :
       \/ /\ alternative = <<>>
          /\ node' = NoNode
          /\ outer' = outer
       \/ \E i \in DOMAIN alternative :
            /\ node' = alternative[i]
            /\ outer' = SlotOf(alternative, i)
  /\ depth' = depth + 1
  /\ UNCHANGED <<slip, verdict, fuzzer>>

Next == Validate \/ StartContract \/ Expand

Spec == Init /\ [][Next]_vars

-----------------------------------------------------------------------------
(* Properties *)

(* A reference that no longer looks like a production's name, or is        *)
(* another's, passes if what it referred to is still referred to elsewhere. *)
Overlooked ==
  /\ slip.kind = "reference"
  /\ slip.as # Misspelt(slip.to, "named")
  /\ \/ slip.to \in Range(ENTRY_POINTS)
     \/ slip.in # slip.to /\ slip.to \in Tokens(Table(slip)[slip.in])
     \/ \E n \in Names \ {slip.in, slip.to} : slip.to \in References[n]

(* What a slip changes is reported, or stays where it was made.  Of single *)
(* slips, only a reference that is misspelt out of the shape of a name, or *)
(* into another name, can get past validate, and not if it was the only    *)
(* reference; then nothing but that token is other than the catalogue has  *)
(* it: wherever the expansion of an accepted grammar arrives, it is at a   *)
(* production with its own alternatives, a terminal or text that is meant. *)
SlipsStayLocal ==
  verdict = "accepted" =>
    /\ slip = NoSlip \/ Overlooked
    /\ IF node \in DOMAIN Table(slip)
       THEN node \in Names /\ (Table(slip)[node] = grammar[node] \/ (slip # NoSlip /\ node = slip.in))
       ELSE \A name \in Names \cup TERMINALS :
              node \in {Misspelt(name, how) : how \in Spellings} => slip # NoSlip /\ node = slip.as

AdtHeads == {TYPES[r].head : r \in {i \in DOMAIN TYPES : TYPES[i].kind = "adt"}}

(* The sizes that the compiler takes in the first slot of a type. *)
LegalSizes(head) ==
  CASE head = "Uint<n>"    -> 0 .. SizeBits
    [] head = "Uint<a..b>" -> 1 .. 2^SizeBits
    [] head \in {"MerkleTree", "HistoricMerkleTree"} -> 2 .. MaxMerkleDepth
    [] head \in {"Bytes", "Vector", "MerkleTreePath"} -> 0 .. MaxLength

SizedHeads == {"Uint<n>", "Uint<a..b>", "Bytes", "Vector", "MerkleTreePath", "MerkleTree",
               "HistoricMerkleTree"}

(* In the contracts of the catalogue that have to compile, at any nesting, *)
(* an ADT stands inside another type only as the value of a Map, Kernel    *)
(* inside none, and every size is one that the compiler takes (typesFor,   *)
(* STATEMENT_SLOTS, TYPE_SIZE_LIMITS).                                     *)
StatementTypesCompile ==
  slip = NoSlip /\ fuzzer \in {"std", "single"} =>
    /\ node \in AdtHeads /\ outer # Outside => outer = <<"Map", 2>> /\ node # "Kernel"
    /\ outer[1] \in SizedHeads /\ outer[2] = 1 =>
         node \in TERMINALS /\ TerminalSizes(node) \subseteq LegalSizes(outer[1])

(* Mutual recursion in the catalogue stays subcritical: from every entry   *)
(* point the average contract takes a bounded number of expansions, which  *)
(* the cut at MAX_DEPTH alone would not ensure (Fuzzer.generate).          *)
ContractsStaySmall ==
  fuzzer # "" => averageSizes[ENTRY_POINTS[fuzzer]] <= 100 * MaxExpansions
=============================================================================
