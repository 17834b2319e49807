----------------------------- MODULE Binding_proofs -----------------------------
(***************************************************************************)
(* Theorems about Binding, for every set of types, declarations, modules   *)
(* and deployed states: a callee runs exactly when its module has what was *)
(* declared and the keys of module and chain agree, a refusal names a      *)
(* fault that is there, and the calls of one context to one address run    *)
(* code with the same keys.  What conformance decides of a type is a       *)
(* recursion over its parts; encodings nest only finitely deep, which      *)
(* makes every such recursion a function, and the comparison of two        *)
(* encodings the equality of their forms.                                  *)
(***************************************************************************)
EXTENDS Binding, SequenceTheorems, WellFoundedInduction, FiniteSetTheorems, TLAPS

-----------------------------------------------------------------------------
(* Sequences of outcomes                                                    *)

Below == {s \in Nat \X Nat : s[1] < s[2]}

(* A set of naturals that is not empty has a least member. *)
LEMMA Least ==
  ASSUME NEW T \in SUBSET Nat, T # {}
  PROVE  \E m \in T : \A n \in T : m <= n
<1>1. OpToRel(<, Nat) = Below
  BY DEF OpToRel, Below
<1>2. IsWellFoundedOn(Below, Nat)
  BY <1>1, NatLessThanWellFounded
<1>3. PICK m \in T : \A n \in T : <<n, m>> \notin Below
  BY <1>2, WFMin
<1>4. \A n \in T : n \in Nat /\ m \in Nat
  OBVIOUS
<1>5. \A n \in T : ~(n < m)
  BY <1>3, <1>4 DEF Below
<1> QED BY <1>4, <1>5

(* FirstBad answers good if every outcome is, and otherwise the first that is not. *)
LEMMA FirstBadOutcome ==
  ASSUME NEW n \in Nat, NEW outcomes, DOMAIN outcomes = 1 .. n, NEW good
  PROVE  /\ (\A i \in 1 .. n : outcomes[i] = good) => FirstBad(outcomes, good) = good
         /\ (\E i \in 1 .. n : outcomes[i] # good) =>
              \E i \in 1 .. n : /\ FirstBad(outcomes, good) = outcomes[i]
                                /\ outcomes[i] # good
                                /\ \A j \in 1 .. i - 1 : outcomes[j] = good
<1> DEFINE bad == {i \in 1 .. n : outcomes[i] # good}
           first == CHOOSE i \in bad : \A j \in bad : i <= j
<1>1. FirstBad(outcomes, good) = IF bad = {} THEN good ELSE outcomes[first]
  BY DEF FirstBad
<1>2. ASSUME bad # {}
      PROVE  first \in bad /\ \A j \in bad : first <= j
  <2>1. bad \in SUBSET Nat
    OBVIOUS
  <2>2. \E i \in bad : \A j \in bad : i <= j
    BY <1>2, <2>1, Least
  <2> QED BY <2>2
<1>3. ASSUME bad # {}
      PROVE  \A j \in 1 .. first - 1 : outcomes[j] = good
  <2> HIDE DEF first
  <2>1. first \in 1 .. n
    BY <1>2, <1>3
  <2>2. \A j \in 1 .. first - 1 : j \in 1 .. n /\ ~(first <= j)
    BY <2>1
  <2> QED BY <1>2, <1>3, <2>2
<1>4. (\A i \in 1 .. n : outcomes[i] = good) => FirstBad(outcomes, good) = good
  BY <1>1
<1>5. ASSUME NEW i \in 1 .. n, outcomes[i] # good
      PROVE  \E k \in 1 .. n : /\ FirstBad(outcomes, good) = outcomes[k]
                               /\ outcomes[k] # good
                               /\ \A j \in 1 .. k - 1 : outcomes[j] = good
  <2>1. bad # {}
    BY <1>5
  <2>2. first \in 1 .. n /\ outcomes[first] # good
    BY <1>2, <2>1
  <2>3. FirstBad(outcomes, good) = outcomes[first]
    BY <1>1, <2>1
  <2>4. \A j \in 1 .. first - 1 : outcomes[j] = good
    BY <1>3, <2>1
  <2> HIDE DEF first
  <2> QED BY <2>2, <2>3, <2>4
<1> QED BY <1>4, <1>5

(* Of two outcomes the second counts only if the first is good. *)
LEMMA FirstOfTwo ==
  ASSUME NEW a, NEW b, NEW good
  PROVE  FirstBad(<<a, b>>, good) = IF a # good THEN a ELSE b
<1> DEFINE s == <<a, b>>
           bad == {i \in DOMAIN s : s[i] # good}
           first == CHOOSE i \in bad : \A j \in bad : i <= j
<1>1. DOMAIN s = {1, 2} /\ s[1] = a /\ s[2] = b
  OBVIOUS
<1>2. FirstBad(s, good) = IF bad = {} THEN good ELSE s[first]
  BY DEF FirstBad
<1> HIDE DEF s
<1>3. CASE a # good
  <2>1. 1 \in bad /\ (\A j \in bad : 1 <= j) /\ \A i \in bad : (\A j \in bad : i <= j) => i = 1
    BY <1>1, <1>3
  <2>2. first = 1
    BY <2>1
  <2> QED BY <1>1, <1>2, <1>3, <2>1, <2>2 DEF s
<1>4. CASE a = good /\ b # good
  <2>1. bad = {2}
    BY <1>1, <1>4
  <2>2. first = 2
    BY <2>1
  <2> QED BY <1>1, <1>2, <1>4, <2>1, <2>2 DEF s
<1>5. CASE a = good /\ b = good
  <2>1. bad = {}
    BY <1>1, <1>5
  <2> QED BY <1>2, <1>5, <2>1 DEF s
<1> QED BY <1>3, <1>4, <1>5

(* The members of a finite set, in some order.                              *)
LEMMA SetAsSequence ==
  ASSUME NEW S, IsFiniteSet(S)
  PROVE  /\ Cardinality(S) \in Nat
         /\ DOMAIN SetToSeq(S) = 1 .. Cardinality(S)
         /\ \A i \in 1 .. Cardinality(S) : SetToSeq(S)[i] \in S
         /\ \A x \in S : \E i \in 1 .. Cardinality(S) : SetToSeq(S)[i] = x
<1> DEFINE n == Cardinality(S)
<1>1. n \in Nat /\ ExistsBijection(1 .. n, S)
  BY FS_CardinalityType
<1>2. PICK g : g \in Bijection(1 .. n, S)
  BY <1>1 DEF ExistsBijection
<1>3. g \in [1 .. n -> S] /\ IsInjective(g)
  BY <1>2 DEF Bijection, Injection, IsInjective
<1>4. SetToSeq(S) \in [1 .. n -> S] /\ IsInjective(SetToSeq(S))
  BY <1>3 DEF SetToSeq
<1> DEFINE f == SetToSeq(S)
<1> HIDE DEF f
<1>5. f \in Injection(1 .. n, S)
  BY <1>4 DEF f, Injection, IsInjective
<1>6. IsFiniteSet(1 .. n) /\ Cardinality(1 .. n) = n
  BY <1>1, FS_Interval
<1>7. f \in Surjection(1 .. n, S)
  BY <1>5, <1>6, FS_Injection
<1> QED BY <1>1, <1>4, <1>7 DEF f, Surjection

-----------------------------------------------------------------------------
(* Recursion over the height of a type                                      *)

(* A value for the members below n of a measure, by the recursion itself.   *)
Upto(T, D, F, g, n) == \A u \in T : D[u] < n => g[u] = F[g][u]

Recursion(T, R, D, F) ==
  /\ D \in [T -> Nat]
  /\ F \in [[T -> R] -> [T -> R]]
  /\ \A g, h \in [T -> R] : \A u \in T :
       (\A v \in T : D[v] < D[u] => g[v] = h[v]) => F[g][u] = F[h][u]

(* For every n there is a function that satisfies the equations below n. *)
LEMMA UptoExists ==
  ASSUME NEW T, NEW R, R # {}, NEW D, NEW F, Recursion(T, R, D, F), NEW n \in Nat
  PROVE  \E g \in [T -> R] : Upto(T, D, F, g, n)
<1> DEFINE bad == {m \in Nat : ~\E g \in [T -> R] : Upto(T, D, F, g, m)}
<1>1. bad = {}
  <2> SUFFICES ASSUME bad # {} PROVE FALSE
    OBVIOUS
  <2>1. PICK m \in bad : \A i \in bad : m <= i
    BY Least
  <2>2. m \in Nat /\ ~\E g \in [T -> R] : Upto(T, D, F, g, m)
    BY <2>1
  <2>3. CASE m = 0
    <3>1. PICK r \in R : TRUE
      OBVIOUS
    <3>2. [u \in T |-> r] \in [T -> R]
      BY <3>1
    <3>3. \A u \in T : D[u] \in Nat
      BY DEF Recursion
    <3>4. \A u \in T : ~(D[u] < m)
      BY <2>3, <3>3
    <3>5. Upto(T, D, F, [u \in T |-> r], m)
      BY <3>4 DEF Upto
    <3> QED BY <2>2, <3>2, <3>5
  <2>4. CASE m # 0
    <3>1. PICK k \in Nat : k + 1 = m
      BY <2>2, <2>4
    <3>2. k \notin bad
      <4> HIDE DEF bad
      <4>1. ~(m <= k)
        BY <2>2, <3>1
      <4> QED BY <2>1, <4>1
    <3>3. PICK g \in [T -> R] : Upto(T, D, F, g, k)
      BY <3>2
    <3>4. PICK h : h = F[g]
      OBVIOUS
    <3>5. h \in [T -> R]
      BY <3>4 DEF Recursion
    <3>6. ASSUME NEW u \in T, D[u] < m
          PROVE  h[u] = F[h][u]
      <4>1. ASSUME NEW v \in T, D[v] < D[u]
            PROVE  g[v] = h[v]
        <5>1. D[v] \in Nat /\ D[u] \in Nat
          BY DEF Recursion
        <5>2. D[v] < k
          BY <2>2, <3>1, <3>6, <4>1, <5>1
        <5> QED BY <3>3, <3>4, <5>2 DEF Upto
      <4> QED BY <3>4, <3>5, <4>1 DEF Recursion
    <3>7. Upto(T, D, F, h, m)
      BY <3>6 DEF Upto
    <3> QED BY <2>2, <3>5, <3>7
  <2> QED BY <2>3, <2>4
<1> QED BY <1>1

(* Two functions that satisfy the equations below n agree below n. *)
LEMMA UptoAgree ==
  ASSUME NEW T, NEW R, NEW D, NEW F, Recursion(T, R, D, F), NEW n \in Nat,
         NEW g \in [T -> R], NEW h \in [T -> R], Upto(T, D, F, g, n), Upto(T, D, F, h, n),
         NEW u \in T, D[u] < n
  PROVE  g[u] = h[u]
<1> DEFINE bad == {k \in Nat : \E v \in T : k = D[v] /\ D[v] < n /\ g[v] # h[v]}
<1>1. bad = {}
  <2> SUFFICES ASSUME bad # {} PROVE FALSE
    OBVIOUS
  <2>1. PICK m \in bad : \A i \in bad : m <= i
    BY Least
  <2>2. PICK v \in T : m = D[v] /\ D[v] < n /\ g[v] # h[v]
    BY <2>1
  <2>3. ASSUME NEW w \in T, D[w] < D[v]
        PROVE  g[w] = h[w]
    <3>1. D[w] \in Nat /\ D[v] \in Nat
      BY DEF Recursion
    <3>2. D[w] < n /\ ~(m <= D[w])
      BY <2>2, <2>3, <3>1
    <3>3. D[w] \notin bad
      <4> HIDE DEF bad
      <4> QED BY <2>1, <3>2
    <3> QED BY <3>1, <3>2, <3>3
  <2>4. F[g][v] = F[h][v]
    BY <2>3 DEF Recursion
  <2> QED BY <2>2, <2>4 DEF Upto
<1>2. D[u] \in Nat
  BY DEF Recursion
<1> QED BY <1>1, <1>2

(* The equations have a solution: the function a recursive definition chooses exists. *)
LEMMA RecursionDefines ==
  ASSUME NEW T, NEW R, R # {}, NEW D, NEW F, Recursion(T, R, D, F)
  PROVE  \E f \in [T -> R] : F[f] = f
<1> DEFINE G(n) == CHOOSE g \in [T -> R] : Upto(T, D, F, g, n)
           f == [u \in T |-> G(D[u] + 1)[u]]
<1>1. \A n \in Nat : G(n) \in [T -> R] /\ Upto(T, D, F, G(n), n)
  BY UptoExists
<1> HIDE DEF G
<1>2. \A u \in T : D[u] \in Nat /\ D[u] + 1 \in Nat
  BY DEF Recursion
<1>3. f \in [T -> R]
  BY <1>1, <1>2
<1>4. ASSUME NEW u \in T
      PROVE  F[f][u] = f[u]
  <2>1. PICK g \in [T -> R] : g = G(D[u] + 1) /\ Upto(T, D, F, g, D[u] + 1)
    BY <1>1, <1>2
  <2>2. ASSUME NEW v \in T, D[v] < D[u]
        PROVE  f[v] = g[v]
    <3>1. PICK h \in [T -> R] : h = G(D[v] + 1) /\ Upto(T, D, F, h, D[v] + 1)
      BY <1>1, <1>2
    <3>2. \A w \in T : D[w] < D[v] + 1 => D[w] < D[u] + 1
      BY <1>2, <2>2
    <3>3. Upto(T, D, F, g, D[v] + 1)
      BY <2>1, <3>2 DEF Upto
    <3>4. D[v] < D[v] + 1
      BY <1>2
    <3>5. h[v] = g[v]
      BY <1>2, <3>1, <3>3, <3>4, UptoAgree
    <3> QED BY <3>1, <3>5
  <2> HIDE DEF f
  <2>3. F[f][u] = F[g][u]
    BY <1>3, <2>2 DEF Recursion
  <2>4. D[u] < D[u] + 1
    BY <1>2
  <2>5. g[u] = F[g][u]
    BY <2>1, <2>4 DEF Upto
  <2>6. f[u] = g[u]
    BY <2>1 DEF f
  <2> QED BY <2>3, <2>5, <2>6
<1> HIDE DEF f
<1>5. F[f] \in [T -> R]
  BY <1>3 DEF Recursion
<1>6. F[f] = f
  BY <1>3, <1>4, <1>5
<1> QED BY <1>3, <1>6

-----------------------------------------------------------------------------
(* What is read of a type                                                   *)

(* The types at the positions of a circuit: its arguments in order, then its result. *)
LEMMA ArgumentsAndResult ==
  ASSUME NEW d, "argumentTypes" \in DOMAIN d, NEW V, d.argumentTypes \in Seq(V)
  PROVE  /\ Len(d.argumentTypes) \in Nat
         /\ DOMAIN TypesOf(d) = 1 .. Len(d.argumentTypes) + 1
         /\ Len(TypesOf(d)) = Len(d.argumentTypes) + 1
         /\ \A i \in 1 .. Len(d.argumentTypes) : TypesOf(d)[i] = d.argumentTypes[i]
         /\ TypesOf(d)[Len(d.argumentTypes) + 1] = Part(d, "resultType")
<1>1. PICK result : result = Part(d, "resultType")
  OBVIOUS
<1>2. PICK W : W = V \cup {result}
  OBVIOUS
<1>3. PICK types \in Seq(V) : types = d.argumentTypes
  OBVIOUS
<1>4. types \in Seq(W) /\ result \in W
  <2>1. V \subseteq W
    BY <1>2
  <2>2. types \in Seq(W)
    BY <2>1, SeqMonotonic
  <2> QED BY <1>2, <2>2
<1>5. TypesOf(d) = Append(types, result)
  BY <1>1, <1>3 DEF TypesOf
<1>6. /\ Len(types) \in Nat
      /\ DOMAIN Append(types, result) = 1 .. Len(types) + 1
      /\ Len(Append(types, result)) = Len(types) + 1
      /\ \A i \in 1 .. Len(types) : Append(types, result)[i] = types[i]
      /\ Append(types, result)[Len(types) + 1] = result
  BY <1>4
<1> QED BY <1>1, <1>3, <1>5, <1>6

(* A list of types reads if each does; otherwise it reports what one of them does. *)
LEMMA WalkReads ==
  ASSUME NEW k \in Nat, NEW types, DOMAIN types = 1 .. k, NEW read
  PROVE  /\ FirstUnreadable(read, types) = READABLE <=> \A i \in 1 .. k : read[types[i]] = READABLE
         /\ \/ FirstUnreadable(read, types) = READABLE
            \/ \E i \in 1 .. k : FirstUnreadable(read, types) = read[types[i]]
<1> DEFINE outcomes == [i \in DOMAIN types |-> read[types[i]]]
<1>1. DOMAIN outcomes = 1 .. k /\ \A i \in 1 .. k : outcomes[i] = read[types[i]]
  OBVIOUS
<1>2. FirstUnreadable(read, types) = FirstBad(outcomes, READABLE)
  BY DEF FirstUnreadable
<1> HIDE DEF outcomes
<1>3. (\A i \in 1 .. k : outcomes[i] = READABLE) => FirstBad(outcomes, READABLE) = READABLE
  BY <1>1, FirstBadOutcome
<1>4. (\E i \in 1 .. k : outcomes[i] # READABLE) =>
        \E i \in 1 .. k : FirstBad(outcomes, READABLE) = outcomes[i] /\ outcomes[i] # READABLE
  BY <1>1, FirstBadOutcome
<1> QED BY <1>1, <1>2, <1>3, <1>4

WholeDescriptor(descriptor) ==
  /\ IsFiniteSet(DOMAIN descriptor)
  /\ \A n \in DOMAIN descriptor : "argumentTypes" \in DOMAIN descriptor[n] =>
       descriptor[n].argumentTypes \in Seq(SignatureTypes)

(* Circuits read if each has its arguments and all its types read. *)
LEMMA DescriptorReads ==
  ASSUME NEW descriptor, WholeDescriptor(descriptor), NEW read
  PROVE  /\ FirstUnreadableInDescriptor(read, descriptor) = READABLE <=>
              \A n \in DOMAIN descriptor :
                /\ "argumentTypes" \in DOMAIN descriptor[n]
                /\ \A part \in ToSet(TypesOf(descriptor[n])) : read[part] = READABLE
         /\ \/ FirstUnreadableInDescriptor(read, descriptor) \in {READABLE, MALFORMED}
            \/ \E n \in DOMAIN descriptor : \E part \in ToSet(TypesOf(descriptor[n])) :
                 FirstUnreadableInDescriptor(read, descriptor) = read[part]
<1> DEFINE names == SetToSeq(DOMAIN descriptor)
           of(n) == IF "argumentTypes" \notin DOMAIN descriptor[n] THEN MALFORMED
                    ELSE FirstUnreadable(read, TypesOf(descriptor[n]))
           outcomes == [i \in DOMAIN names |-> of(names[i])]
           k == Cardinality(DOMAIN descriptor)
<1>1. /\ k \in Nat /\ DOMAIN names = 1 .. k
      /\ \A i \in 1 .. k : names[i] \in DOMAIN descriptor
      /\ \A n \in DOMAIN descriptor : \E i \in 1 .. k : names[i] = n
  BY SetAsSequence DEF WholeDescriptor
<1>2. FirstUnreadableInDescriptor(read, descriptor) = FirstBad(outcomes, READABLE)
  BY DEF FirstUnreadableInDescriptor
<1>3. ASSUME NEW n \in DOMAIN descriptor
      PROVE  /\ of(n) = READABLE <=> /\ "argumentTypes" \in DOMAIN descriptor[n]
                                     /\ \A part \in ToSet(TypesOf(descriptor[n])) : read[part] = READABLE
             /\ of(n) \in {READABLE, MALFORMED} \/ \E part \in ToSet(TypesOf(descriptor[n])) : of(n) = read[part]
  <2>1. CASE "argumentTypes" \notin DOMAIN descriptor[n]
    BY <2>1 DEF MALFORMED, READABLE
  <2>2. CASE "argumentTypes" \in DOMAIN descriptor[n]
    <3>1. PICK d : d = descriptor[n]
      OBVIOUS
    <3>2. PICK m \in Nat : DOMAIN TypesOf(d) = 1 .. m
      <4>1. d.argumentTypes \in Seq(SignatureTypes)
        BY <2>2, <3>1 DEF WholeDescriptor
      <4>2. Len(d.argumentTypes) + 1 \in Nat /\ DOMAIN TypesOf(d) = 1 .. Len(d.argumentTypes) + 1
        BY <2>2, <3>1, <4>1, ArgumentsAndResult
      <4> QED BY <4>2
    <3>3. PICK types : types = TypesOf(d)
      OBVIOUS
    <3>4. /\ FirstUnreadable(read, types) = READABLE <=> \A i \in 1 .. m : read[types[i]] = READABLE
          /\ \/ FirstUnreadable(read, types) = READABLE
             \/ \E i \in 1 .. m : FirstUnreadable(read, types) = read[types[i]]
      BY <3>2, <3>3, WalkReads
    <3>5. ToSet(types) = {types[i] : i \in 1 .. m}
      BY <3>2, <3>3 DEF ToSet
    <3>6. of(n) = FirstUnreadable(read, types)
      BY <2>2, <3>1, <3>3
    <3> HIDE DEF of
    <3> QED BY <2>2, <3>1, <3>3, <3>4, <3>5, <3>6
  <2> QED BY <2>1, <2>2
<1> HIDE DEF names, of, k
<1>4. DOMAIN outcomes = 1 .. k /\ \A i \in 1 .. k : outcomes[i] = of(names[i])
  BY <1>1
<1> HIDE DEF outcomes
<1>5. (\A i \in 1 .. k : outcomes[i] = READABLE) => FirstBad(outcomes, READABLE) = READABLE
  BY <1>1, <1>4, FirstBadOutcome
<1>6. (\E i \in 1 .. k : outcomes[i] # READABLE) =>
        \E i \in 1 .. k : FirstBad(outcomes, READABLE) = outcomes[i] /\ outcomes[i] # READABLE
  BY <1>1, <1>4, FirstBadOutcome
<1>7. FirstBad(outcomes, READABLE) = READABLE <=> \A n \in DOMAIN descriptor : of(n) = READABLE
  BY <1>1, <1>4, <1>5, <1>6
<1>8. FirstBad(outcomes, READABLE) = READABLE \/ \E n \in DOMAIN descriptor : FirstBad(outcomes, READABLE) = of(n)
  BY <1>1, <1>4, <1>5, <1>6
<1> QED BY <1>2, <1>3, <1>7, <1>8

(* The parts of a type, tag by tag. *)
LEMMA PartsFacts ==
  ASSUME NEW t, "tag" \in DOMAIN t
  PROVE  /\ t.tag \in {"Vector", "Alias"} => PartsOf(t) = <<Part(t, "type")>>
         /\ t.tag = "Tuple" /\ "types" \in DOMAIN t => PartsOf(t) = t.types
         /\ t.tag = "Struct" /\ "elements" \in DOMAIN t =>
              PartsOf(t) = [i \in DOMAIN t.elements |-> Part(t.elements[i], "type")]
         /\ t.tag = "Enum" => PartsOf(t) = <<>>
         /\ t.tag # "Contract" => AllParts(t) = ToSet(PartsOf(t))
         /\ t.tag = "Contract" /\ "circuits" \in DOMAIN t =>
              AllParts(t) = UNION {ToSet(TypesOf(t.circuits[n])) : n \in DOMAIN t.circuits}
<1>1. t.tag \in {"Vector", "Alias"} => PartsOf(t) = <<Part(t, "type")>>
  BY DEF PartsOf, Carries
<1>2. t.tag = "Tuple" /\ "types" \in DOMAIN t => PartsOf(t) = t.types
  BY DEF PartsOf, Carries
<1>3. t.tag = "Struct" /\ "elements" \in DOMAIN t =>
        PartsOf(t) = [i \in DOMAIN t.elements |-> Part(t.elements[i], "type")]
  BY DEF PartsOf, Carries
<1>4. t.tag # "Contract" => AllParts(t) = ToSet(PartsOf(t))
  BY DEF AllParts, Carries
<1>5. t.tag = "Contract" /\ "circuits" \in DOMAIN t =>
        AllParts(t) = UNION {ToSet(TypesOf(t.circuits[n])) : n \in DOMAIN t.circuits}
  BY DEF AllParts, Carries
<1>6. t.tag = "Enum" => PartsOf(t) = <<>>
  BY DEF PartsOf, Carries
<1> QED BY <1>1, <1>2, <1>3, <1>4, <1>5, <1>6

(* The payloads that are walked are sequences.                              *)
Walked(t) ==
  \/ t.tag \in {"Vector", "Alias", "Enum"}
  \/ t.tag = "Tuple" /\ "types" \in DOMAIN t
  \/ t.tag = "Struct" /\ "elements" \in DOMAIN t

(* The parts that are walked as a list are all the parts there are. *)
LEMMA WalkedParts ==
  ASSUME NEW t \in SignatureTypes, "tag" \in DOMAIN t, Walked(t)
  PROVE  \E k \in Nat : /\ DOMAIN PartsOf(t) = 1 .. k
                        /\ AllParts(t) = {PartsOf(t)[i] : i \in 1 .. k}
<1>1. \E k \in Nat : DOMAIN PartsOf(t) = 1 .. k
  <2>1. CASE t.tag \in {"Vector", "Alias"}
    <3>1. PartsOf(t) = <<Part(t, "type")>>
      BY <2>1, PartsFacts
    <3>2. DOMAIN PartsOf(t) = 1 .. 1
      BY <3>1
    <3> QED BY <3>2
  <2>2. CASE t.tag = "Tuple" /\ "types" \in DOMAIN t
    <3>1. PartsOf(t) = t.types
      BY <2>2, PartsFacts
    <3>2. t.types \in Seq(SignatureTypes)
      BY <2>2, EncodingsAreShaped DEF Carries
    <3> QED BY <3>1, <3>2, LenProperties
  <2>3. CASE t.tag = "Struct" /\ "elements" \in DOMAIN t
    <3>1. PartsOf(t) = [i \in DOMAIN t.elements |-> Part(t.elements[i], "type")]
      BY <2>3, PartsFacts
    <3>2. Len(t.elements) \in Nat /\ DOMAIN t.elements = 1 .. Len(t.elements)
      BY <2>3, EncodingsAreShaped DEF Carries
    <3> QED BY <3>1, <3>2
  <2>4. CASE t.tag = "Enum"
    <3>1. PartsOf(t) = <<>>
      BY <2>4, PartsFacts
    <3>2. DOMAIN PartsOf(t) = 1 .. 0
      BY <3>1
    <3> QED BY <3>2
  <2> QED BY <2>1, <2>2, <2>3, <2>4 DEF Walked
<1>2. t.tag # "Contract"
  BY DEF Walked
<1>3. AllParts(t) = {PartsOf(t)[i] : i \in DOMAIN PartsOf(t)}
  BY <1>2, PartsFacts DEF ToSet
<1> QED BY <1>1, <1>3

(* What is reported of a type depends on its parts only. *)
LEMMA TagLocal ==
  ASSUME NEW t \in SignatureTypes, NEW g, NEW h, \A part \in AllParts(t) : g[part] = h[part]
  PROVE  UnreadableTagOf(g, t) = UnreadableTagOf(h, t)
<1>1. CASE "tag" \notin DOMAIN t
  BY <1>1 DEF UnreadableTagOf
<1>2. CASE "tag" \in DOMAIN t /\ t.tag # "Contract"
  <2>1. PICK types : types = PartsOf(t)
    OBVIOUS
  <2>2. \A i \in DOMAIN types : g[types[i]] = h[types[i]]
    BY <1>2, <2>1, PartsFacts DEF ToSet
  <2>3. FirstUnreadable(g, types) = FirstUnreadable(h, types)
    BY <2>2, Zenon DEF FirstUnreadable
  <2> QED BY <1>2, <2>1, <2>3 DEF UnreadableTagOf
<1>3. CASE "tag" \in DOMAIN t /\ t.tag = "Contract" /\ "circuits" \notin DOMAIN t
  BY <1>3 DEF UnreadableTagOf
<1>4. CASE "tag" \in DOMAIN t /\ t.tag = "Contract" /\ "circuits" \in DOMAIN t
  <2>1. PICK circuits : circuits = t.circuits
    OBVIOUS
  <2>2. PICK names : names = SetToSeq(DOMAIN circuits)
    OBVIOUS
  <2>3. WholeDescriptor(circuits)
    BY <1>4, <2>1, EncodingsAreShaped DEF Carries, WholeDescriptor
  <2>4. \A i \in DOMAIN names : names[i] \in DOMAIN circuits
    BY <2>2, <2>3, SetAsSequence DEF WholeDescriptor
  <2> DEFINE of(read, n) == IF "argumentTypes" \notin DOMAIN circuits[n] THEN MALFORMED
                            ELSE FirstUnreadable(read, TypesOf(circuits[n]))
  <2>5. ASSUME NEW n \in DOMAIN circuits
        PROVE  of(g, n) = of(h, n)
    <3>1. PICK types : types = TypesOf(circuits[n])
      OBVIOUS
    <3>2. \A i \in DOMAIN types : types[i] \in AllParts(t)
      BY <1>4, <2>1, <3>1, PartsFacts DEF ToSet
    <3>3. \A i \in DOMAIN types : g[types[i]] = h[types[i]]
      BY <3>2
    <3>4. FirstUnreadable(g, types) = FirstUnreadable(h, types)
      BY <3>3, Zenon DEF FirstUnreadable
    <3> QED BY <3>1, <3>4
  <2>6. \A read : FirstUnreadableInDescriptor(read, circuits) = FirstBad([i \in DOMAIN names |-> of(read, names[i])], READABLE)
    BY <2>2 DEF FirstUnreadableInDescriptor
  <2> HIDE DEF of
  <2>7. \A i \in DOMAIN names : of(g, names[i]) = of(h, names[i])
    BY <2>4, <2>5
  <2>8. FirstUnreadableInDescriptor(g, circuits) = FirstUnreadableInDescriptor(h, circuits)
    BY <2>6, <2>7, Zenon
  <2> QED BY <1>4, <2>1, <2>8 DEF UnreadableTagOf
<1> QED BY <1>1, <1>2, <1>3, <1>4

Marks == {READABLE, MALFORMED} \cup {t.tag : t \in SignatureTypes}

(* What is reported is a mark, if a mark is reported of every part. *)
LEMMA TagIsAMark ==
  ASSUME NEW t \in SignatureTypes, NEW g \in [SignatureTypes -> Marks]
  PROVE  UnreadableTagOf(g, t) \in Marks
<1>1. t.tag \in Marks /\ READABLE \in Marks /\ MALFORMED \in Marks
  BY DEF Marks
<1>2. \A part \in AllParts(t) : g[part] \in Marks
  BY EncodingsAreTrees
<1>3. CASE "tag" \notin DOMAIN t
  BY <1>1, <1>3 DEF UnreadableTagOf
<1>4. CASE "tag" \in DOMAIN t /\ Walked(t)
  <2>1. PICK k \in Nat : DOMAIN PartsOf(t) = 1 .. k /\ AllParts(t) = {PartsOf(t)[i] : i \in 1 .. k}
    BY <1>4, WalkedParts
  <2>2. PICK types : types = PartsOf(t)
    OBVIOUS
  <2>3. \/ FirstUnreadable(g, types) = READABLE
        \/ \E i \in 1 .. k : FirstUnreadable(g, types) = g[types[i]]
    BY <2>1, <2>2, WalkReads
  <2>4. FirstUnreadable(g, types) \in Marks
    BY <1>1, <1>2, <2>1, <2>2, <2>3
  <2>5. UnreadableTagOf(g, t) \in {t.tag, READABLE, FirstUnreadable(g, types)}
    BY <1>4, <2>2 DEF UnreadableTagOf, KNOWN_SIGNATURE_TAGS, PLAIN_TAGS, Walked
  <2> QED BY <1>1, <2>4, <2>5
<1>5. CASE "tag" \in DOMAIN t /\ t.tag = "Contract" /\ "circuits" \in DOMAIN t
  <2>1. PICK circuits : circuits = t.circuits
    OBVIOUS
  <2>2. WholeDescriptor(circuits)
    BY <1>5, <2>1, EncodingsAreShaped DEF Carries, WholeDescriptor
  <2>3. \/ FirstUnreadableInDescriptor(g, circuits) \in {READABLE, MALFORMED}
        \/ \E n \in DOMAIN circuits : \E part \in ToSet(TypesOf(circuits[n])) :
             FirstUnreadableInDescriptor(g, circuits) = g[part]
    BY <2>2, DescriptorReads
  <2>4. FirstUnreadableInDescriptor(g, circuits) \in Marks
    BY <1>1, <1>2, <1>5, <2>1, <2>3, PartsFacts
  <2>5. UnreadableTagOf(g, t) \in {t.tag, FirstUnreadableInDescriptor(g, circuits)}
    BY <1>5, <2>1 DEF UnreadableTagOf, KNOWN_SIGNATURE_TAGS, PLAIN_TAGS
  <2> QED BY <1>1, <2>4, <2>5
<1>6. CASE "tag" \in DOMAIN t /\ ~Walked(t) /\ ~(t.tag = "Contract" /\ "circuits" \in DOMAIN t)
  <2>1. UnreadableTagOf(g, t) \in {t.tag, READABLE}
    BY <1>6 DEF UnreadableTagOf, KNOWN_SIGNATURE_TAGS, PLAIN_TAGS, Walked
  <2> QED BY <1>1, <2>1
<1> QED BY <1>3, <1>4, <1>5, <1>6

Heights == [t \in SignatureTypes |-> Height(t)]

(* Functions that agree below the height of a type agree on its parts. *)
LEMMA PartsAreLower ==
  ASSUME NEW t \in SignatureTypes, NEW g, NEW h,
         \A u \in SignatureTypes : Heights[u] < Heights[t] => g[u] = h[u]
  PROVE  \A part \in AllParts(t) : g[part] = h[part]
BY EncodingsAreTrees DEF Heights

(* The recursion of the walk.                                               *)
LEMMA TagDefined ==
  \A t \in SignatureTypes :
    FirstUnreadableTag(t) = UnreadableTagOf([u \in SignatureTypes |-> FirstUnreadableTag(u)], t)
<1>1. PICK T : T = SignatureTypes
  OBVIOUS
<1>2. PICK R : R = Marks /\ R # {}
  BY DEF Marks
<1> DEFINE F == [g \in [T -> R] |-> [t \in T |-> UnreadableTagOf(g, t)]]
<1>3. \A g \in [T -> R] : \A t \in T : UnreadableTagOf(g, t) \in R
  BY <1>1, <1>2, TagIsAMark
<1>4. F \in [[T -> R] -> [T -> R]]
  BY <1>3
<1>5. PICK D : D = Heights
  OBVIOUS
<1>6. D \in [T -> Nat]
  BY <1>1, <1>5, EncodingsAreTrees DEF Heights
<1>7. ASSUME NEW g \in [T -> R], NEW h \in [T -> R], NEW t \in T,
             \A u \in T : D[u] < D[t] => g[u] = h[u]
      PROVE  F[g][t] = F[h][t]
  <2>1. \A part \in AllParts(t) : g[part] = h[part]
    BY <1>1, <1>5, <1>7, PartsAreLower
  <2>2. UnreadableTagOf(g, t) = UnreadableTagOf(h, t)
    BY <1>1, <2>1, TagLocal
  <2> QED BY <2>2
<1>8. PICK G : G = F
  OBVIOUS
<1>9. Recursion(T, R, D, G)
  <2> HIDE DEF F
  <2>1. ASSUME NEW g \in [T -> R], NEW h \in [T -> R], NEW u \in T,
               \A v \in T : D[v] < D[u] => g[v] = h[v]
        PROVE  G[g][u] = G[h][u]
    BY <1>7, <1>8, <2>1
  <2>2. G \in [[T -> R] -> [T -> R]]
    BY <1>4, <1>8
  <2> QED BY <1>6, <2>1, <2>2, Zenon DEF Recursion
<1>10. PICK f \in [T -> R] : G[f] = f
  BY <1>2, <1>9, RecursionDefines
<1>11. f = [t \in T |-> UnreadableTagOf(f, t)]
  BY <1>8, <1>10
<1> DEFINE Table(g) == g = [t \in SignatureTypes |-> UnreadableTagOf(g, t)]
           read == CHOOSE g : Table(g)
<1>12. Table(read)
  BY <1>1, <1>11
<1>13. \A t : FirstUnreadableTag(t) = read[t]
  BY DEF FirstUnreadableTag
<1>14. read = [t \in SignatureTypes |-> FirstUnreadableTag(t)]
  BY <1>12, <1>13
<1>15. \A t \in SignatureTypes : read[t] = UnreadableTagOf(read, t)
  BY <1>12
<1> HIDE DEF read
<1>16. PICK table : table = [t \in SignatureTypes |-> FirstUnreadableTag(t)]
  OBVIOUS
<1>17. \A t \in SignatureTypes : FirstUnreadableTag(t) = UnreadableTagOf(table, t)
  <2>1. table = read
    BY <1>14, <1>16
  <2> QED BY <1>13, <1>15, <2>1
<1> QED BY <1>16, <1>17

-----------------------------------------------------------------------------
(* The well-formed types                                                    *)

(* The defining equation of WellFormed. *)
LEMMA WholeDefined ==
  \A t \in SignatureTypes : WellFormed(t) <=> Whole([u \in SignatureTypes |-> WellFormed(u)], t)
<1>1. PICK T : T = SignatureTypes
  OBVIOUS
<1>2. PICK R : R = BOOLEAN /\ R # {}
  OBVIOUS
<1> DEFINE F == [g \in [T -> R] |-> [t \in T |-> Whole(g, t)]]
<1>3. \A g \in [T -> R] : \A t \in T : Whole(g, t) \in R
  BY <1>2 DEF Whole
<1>4. F \in [[T -> R] -> [T -> R]]
  BY <1>3
<1>5. PICK D : D = Heights
  OBVIOUS
<1>6. D \in [T -> Nat]
  BY <1>1, <1>5, EncodingsAreTrees DEF Heights
<1>7. ASSUME NEW g \in [T -> R], NEW h \in [T -> R], NEW t \in T,
             \A u \in T : D[u] < D[t] => g[u] = h[u]
      PROVE  F[g][t] = F[h][t]
  <2>1. \A part \in AllParts(t) : g[part] = h[part]
    BY <1>1, <1>5, <1>7, PartsAreLower
  <2>2. Whole(g, t) = Whole(h, t)
    BY <2>1 DEF Whole
  <2> QED BY <2>2
<1>8. PICK G : G = F
  OBVIOUS
<1>9. Recursion(T, R, D, G)
  <2> HIDE DEF F
  <2>1. ASSUME NEW g \in [T -> R], NEW h \in [T -> R], NEW u \in T,
               \A v \in T : D[v] < D[u] => g[v] = h[v]
        PROVE  G[g][u] = G[h][u]
    BY <1>7, <1>8, <2>1
  <2>2. G \in [[T -> R] -> [T -> R]]
    BY <1>4, <1>8
  <2> QED BY <1>6, <2>1, <2>2, Zenon DEF Recursion
<1>10. PICK f \in [T -> R] : G[f] = f
  BY <1>2, <1>9, RecursionDefines
<1>11. f = [t \in T |-> Whole(f, t)]
  BY <1>8, <1>10
<1> DEFINE Table(g) == g = [t \in SignatureTypes |-> Whole(g, t)]
           whole == CHOOSE g : Table(g)
<1>12. Table(whole)
  BY <1>1, <1>11
<1>13. \A t : WellFormed(t) = whole[t]
  BY DEF WellFormed
<1>14. whole = [t \in SignatureTypes |-> WellFormed(t)]
  BY <1>12, <1>13
<1>15. \A t \in SignatureTypes : whole[t] = Whole(whole, t)
  BY <1>12
<1> HIDE DEF whole
<1>16. PICK table : table = [t \in SignatureTypes |-> WellFormed(t)]
  OBVIOUS
<1>17. \A t \in SignatureTypes : WellFormed(t) = Whole(table, t)
  <2>1. table = whole
    BY <1>14, <1>16
  <2> QED BY <1>13, <1>15, <2>1
<1> QED BY <1>16, <1>17

Leaves == PLAIN_TAGS \cup {"Uint", "Bytes", "Opaque"}

(* A leaf has no parts. *)
LEMMA LeavesHaveNoParts ==
  ASSUME NEW t, "tag" \in DOMAIN t, t.tag \in Leaves
  PROVE  AllParts(t) = {}
<1>1. t.tag \notin {"Vector", "Alias", "Tuple", "Struct", "Contract"}
  BY DEF Leaves, PLAIN_TAGS
<1>2. PartsOf(t) = <<>>
  BY <1>1 DEF PartsOf, Carries
<1>3. AllParts(t) = ToSet(PartsOf(t))
  BY <1>1 DEF AllParts, Carries
<1>4. ToSet(<<>>) = {}
  BY DEF ToSet
<1> QED BY <1>2, <1>3, <1>4

(* What is readable of the parts decides of the whole.                      *)
LEMMA ReadableStep ==
  ASSUME NEW t \in SignatureTypes, NEW g, NEW w,
         \A part \in AllParts(t) : g[part] = READABLE <=> w[part]
  PROVE  UnreadableTagOf(g, t) = READABLE <=> Whole(w, t)
<1>1. CASE "tag" \notin DOMAIN t
  BY <1>1 DEF UnreadableTagOf, Whole, MALFORMED, READABLE
<1>2. CASE "tag" \in DOMAIN t /\ t.tag \notin KNOWN_SIGNATURE_TAGS
  <2>1. UnreadableTagOf(g, t) = t.tag /\ t.tag # READABLE
    BY <1>2, EncodingsAreShaped DEF UnreadableTagOf, KNOWN_SIGNATURE_TAGS
  <2> QED BY <1>2, <2>1 DEF Whole
<1>3. CASE "tag" \in DOMAIN t /\ t.tag \in Leaves
  <2>1. UnreadableTagOf(g, t) = READABLE
    BY <1>3 DEF UnreadableTagOf, KNOWN_SIGNATURE_TAGS, PLAIN_TAGS, Leaves
  <2>2. t.tag \in KNOWN_SIGNATURE_TAGS /\ t.tag \notin {"Vector", "Alias", "Tuple", "Struct", "Contract", "Enum"}
    BY <1>3 DEF Leaves, PLAIN_TAGS, KNOWN_SIGNATURE_TAGS
  <2>3. AllParts(t) = {}
    BY <1>3, LeavesHaveNoParts
  <2> QED BY <1>3, <2>1, <2>2, <2>3 DEF Whole
<1>4. CASE "tag" \in DOMAIN t /\ Walked(t)
  <2>1. PICK k \in Nat : DOMAIN PartsOf(t) = 1 .. k /\ AllParts(t) = {PartsOf(t)[i] : i \in 1 .. k}
    BY <1>4, WalkedParts
  <2>2. PICK types : types = PartsOf(t)
    OBVIOUS
  <2>3. FirstUnreadable(g, types) = READABLE <=> \A i \in 1 .. k : g[types[i]] = READABLE
    BY <2>1, <2>2, WalkReads
  <2>4. FirstUnreadable(g, types) = READABLE <=> \A part \in AllParts(t) : w[part]
    BY <2>1, <2>2, <2>3
  <2>5. t.tag # READABLE /\ (t.tag = "Vector" => t.length \in Int)
    BY <1>4, EncodingsAreShaped
  <2>6. t.tag \in KNOWN_SIGNATURE_TAGS /\ t.tag # "Contract"
    BY <1>4 DEF Walked, KNOWN_SIGNATURE_TAGS
  <2>7. CASE t.tag = "Vector"
    <3>1. UnreadableTagOf(g, t) = IF t.length >= 0 THEN FirstUnreadable(g, types) ELSE t.tag
      BY <1>4, <2>2, <2>7 DEF UnreadableTagOf, KNOWN_SIGNATURE_TAGS, PLAIN_TAGS
    <3>2. Whole(w, t) <=> t.length \in Nat /\ \A part \in AllParts(t) : w[part]
      BY <1>4, <2>6, <2>7 DEF Whole
    <3> QED BY <2>4, <2>5, <2>7, <3>1, <3>2
  <2>8. CASE t.tag = "Enum"
    <3>1. UnreadableTagOf(g, t) = IF "names" \in DOMAIN t THEN FirstUnreadable(g, types) ELSE t.tag
      BY <1>4, <2>2, <2>8 DEF UnreadableTagOf, KNOWN_SIGNATURE_TAGS, PLAIN_TAGS
    <3>2. Whole(w, t) <=> "names" \in DOMAIN t /\ \A part \in AllParts(t) : w[part]
      BY <1>4, <2>6, <2>8 DEF Whole
    <3> QED BY <2>4, <2>5, <3>1, <3>2
  <2>9. CASE t.tag \in {"Alias", "Tuple", "Struct"}
    <3>1. UnreadableTagOf(g, t) = FirstUnreadable(g, types)
      BY <1>4, <2>2, <2>9 DEF UnreadableTagOf, KNOWN_SIGNATURE_TAGS, PLAIN_TAGS, Walked
    <3>2. Whole(w, t) <=> \A part \in AllParts(t) : w[part]
      BY <1>4, <2>6, <2>9 DEF Whole, Walked
    <3> QED BY <2>4, <3>1, <3>2
  <2> QED BY <1>4, <2>7, <2>8, <2>9 DEF Walked
<1>5. CASE "tag" \in DOMAIN t /\ t.tag = "Contract" /\ "circuits" \in DOMAIN t
  <2>1. PICK circuits : circuits = t.circuits
    OBVIOUS
  <2>2. WholeDescriptor(circuits)
    BY <1>5, <2>1, EncodingsAreShaped DEF Carries, WholeDescriptor
  <2>3. FirstUnreadableInDescriptor(g, circuits) = READABLE <=>
          \A n \in DOMAIN circuits :
            /\ "argumentTypes" \in DOMAIN circuits[n]
            /\ \A part \in ToSet(TypesOf(circuits[n])) : g[part] = READABLE
    BY <2>2, DescriptorReads
  <2>4. AllParts(t) = UNION {ToSet(TypesOf(circuits[n])) : n \in DOMAIN circuits}
    BY <1>5, <2>1, PartsFacts
  <2>5. UnreadableTagOf(g, t) = FirstUnreadableInDescriptor(g, circuits)
    BY <1>5, <2>1 DEF UnreadableTagOf, KNOWN_SIGNATURE_TAGS, PLAIN_TAGS
  <2>6. Whole(w, t) <=> /\ \A n \in DOMAIN circuits : "argumentTypes" \in DOMAIN circuits[n]
                        /\ \A part \in AllParts(t) : w[part]
    BY <1>5, <2>1 DEF Whole, KNOWN_SIGNATURE_TAGS
  <2> QED BY <2>3, <2>4, <2>5, <2>6
<1>6. CASE "tag" \in DOMAIN t /\ \/ t.tag = "Contract" /\ "circuits" \notin DOMAIN t
                                 \/ t.tag = "Tuple" /\ "types" \notin DOMAIN t
                                 \/ t.tag = "Struct" /\ "elements" \notin DOMAIN t
  <2>1. t.tag # READABLE
    BY <1>6, EncodingsAreShaped
  <2>2. UnreadableTagOf(g, t) = t.tag
    BY <1>6 DEF UnreadableTagOf, KNOWN_SIGNATURE_TAGS, PLAIN_TAGS
  <2>3. ~Whole(w, t)
    BY <1>6 DEF Whole
  <2> QED BY <2>1, <2>2, <2>3
<1>7. "tag" \in DOMAIN t /\ t.tag \in KNOWN_SIGNATURE_TAGS =>
        \/ t.tag \in Leaves \/ Walked(t)
        \/ t.tag \in {"Contract", "Tuple", "Struct"}
  BY DEF KNOWN_SIGNATURE_TAGS, Leaves, Walked
<1> QED BY <1>1, <1>2, <1>3, <1>4, <1>5, <1>6, <1>7 DEF Walked

(* The screen lets exactly the well-formed encodings through.               *)
LEMMA ReadableIsWellFormed ==
  \A t \in SignatureTypes : FirstUnreadableTag(t) = READABLE <=> WellFormed(t)
<1> DEFINE bad == {n \in Nat : \E t \in SignatureTypes :
                     n = Heights[t] /\ ~(FirstUnreadableTag(t) = READABLE <=> WellFormed(t))}
<1>1. bad = {}
  <2> SUFFICES ASSUME bad # {} PROVE FALSE
    OBVIOUS
  <2>1. PICK n \in bad : \A i \in bad : n <= i
    BY Least
  <2>2. PICK t \in SignatureTypes : n = Heights[t] /\ ~(FirstUnreadableTag(t) = READABLE <=> WellFormed(t))
    BY <2>1
  <2>3. PICK read : read = [u \in SignatureTypes |-> FirstUnreadableTag(u)]
    OBVIOUS
  <2>4. PICK whole : whole = [u \in SignatureTypes |-> WellFormed(u)]
    OBVIOUS
  <2>5. ASSUME NEW part \in AllParts(t)
        PROVE  read[part] = READABLE <=> whole[part]
    <3>1. part \in SignatureTypes /\ Heights[part] \in Nat /\ Heights[t] \in Nat /\ Heights[part] < Heights[t]
      BY EncodingsAreTrees DEF Heights
    <3>2. Heights[part] \notin bad
      <4>1. ~(n <= Heights[part])
        BY <2>2, <3>1
      <4> HIDE DEF bad
      <4> QED BY <2>1, <4>1
    <3> QED BY <2>3, <2>4, <3>1, <3>2
  <2>6. UnreadableTagOf(read, t) = READABLE <=> Whole(whole, t)
    BY <2>5, ReadableStep
  <2>7. FirstUnreadableTag(t) = UnreadableTagOf(read, t)
    BY <2>3, TagDefined
  <2>8. WellFormed(t) <=> Whole(whole, t)
    BY <2>4, WholeDefined
  <2> QED BY <2>2, <2>6, <2>7, <2>8
<1>2. \A t \in SignatureTypes : Heights[t] \in Nat
  BY EncodingsAreTrees DEF Heights
<1> QED BY <1>1, <1>2

(* The parts of a well-formed type are well formed, there, and lower. *)
LEMMA PartsOfWellFormed ==
  ASSUME NEW t \in WellFormedTypes
  PROVE  /\ t \in SignatureTypes /\ "tag" \in DOMAIN t /\ t.tag \in KNOWN_SIGNATURE_TAGS
         /\ \A part \in AllParts(t) : part \in WellFormedTypes /\ part # NotAType /\ Heights[part] < Heights[t]
<1>1. t \in SignatureTypes /\ WellFormed(t)
  BY DEF WellFormedTypes
<1>2. PICK whole : whole = [u \in SignatureTypes |-> WellFormed(u)]
  OBVIOUS
<1>3. \A u \in SignatureTypes : WellFormed(u) <=> Whole(whole, u)
  BY <1>2, WholeDefined
<1>4. "tag" \in DOMAIN t /\ t.tag \in KNOWN_SIGNATURE_TAGS /\ \A part \in AllParts(t) : whole[part]
  BY <1>1, <1>3 DEF Whole
<1>5. \A part \in AllParts(t) : part \in SignatureTypes /\ Heights[part] < Heights[t]
  BY <1>1, EncodingsAreTrees DEF Heights
<1>6. \A part \in AllParts(t) : WellFormed(part)
  BY <1>2, <1>4, <1>5
<1>7. NotAType \in SignatureTypes /\ "tag" \notin DOMAIN NotAType
  BY EncodingsAreTrees DEF NotAType
<1>8. ~WellFormed(NotAType)
  BY <1>3, <1>7 DEF Whole
<1> QED BY <1>1, <1>4, <1>5, <1>6, <1>8 DEF WellFormedTypes

(* A well-formed vector or alias has its type, and a vector its length. *)
LEMMA WellFormedNest ==
  ASSUME NEW t \in WellFormedTypes, t.tag \in {"Vector", "Alias"}
  PROVE  Part(t, "type") = t.type /\ t.type \in AllParts(t) /\ (t.tag = "Vector" => t.length \in Nat)
<1>1. t \in SignatureTypes /\ "tag" \in DOMAIN t /\ \A part \in AllParts(t) : part # NotAType
  BY PartsOfWellFormed
<1>2. PartsOf(t) = <<Part(t, "type")>> /\ t.tag # "Contract"
  BY <1>1, PartsFacts
<1>3. AllParts(t) = {Part(t, "type")}
  BY <1>1, <1>2, PartsFacts DEF ToSet
<1>4. Part(t, "type") = t.type
  BY <1>1, <1>3 DEF Part
<1>5. PICK whole : whole = [u \in SignatureTypes |-> WellFormed(u)]
  OBVIOUS
<1>6. Whole(whole, t)
  BY <1>1, <1>5, WholeDefined DEF WellFormedTypes
<1>7. t.tag = "Vector" => t.length \in Nat
  BY <1>6 DEF Whole
<1> QED BY <1>3, <1>4, <1>7

(* A well-formed tuple has its types, which are its parts. *)
LEMMA WellFormedTuple ==
  ASSUME NEW t \in WellFormedTypes, t.tag = "Tuple"
  PROVE  /\ "types" \in DOMAIN t /\ t.types \in Seq(SignatureTypes)
         /\ \A i \in DOMAIN t.types : t.types[i] \in AllParts(t)
<1>1. t \in SignatureTypes /\ "tag" \in DOMAIN t
  BY PartsOfWellFormed
<1>2. PICK whole : whole = [u \in SignatureTypes |-> WellFormed(u)]
  OBVIOUS
<1>3. Whole(whole, t)
  BY <1>1, <1>2, WholeDefined DEF WellFormedTypes
<1>4. "types" \in DOMAIN t
  BY <1>3 DEF Whole
<1>5. t.types \in Seq(SignatureTypes)
  BY <1>1, <1>4, EncodingsAreShaped DEF Carries
<1>6. AllParts(t) = ToSet(t.types)
  BY <1>1, <1>4, PartsFacts
<1> QED BY <1>4, <1>5, <1>6 DEF ToSet

(* A well-formed struct has its elements, whose types are its parts. *)
LEMMA WellFormedStruct ==
  ASSUME NEW t \in WellFormedTypes, t.tag = "Struct"
  PROVE  /\ "elements" \in DOMAIN t /\ Len(t.elements) \in Nat /\ DOMAIN t.elements = 1 .. Len(t.elements)
         /\ \A i \in DOMAIN t.elements :
              PartsOf(t)[i] = t.elements[i].type /\ t.elements[i].type \in AllParts(t)
<1>1. t \in SignatureTypes /\ "tag" \in DOMAIN t /\ \A part \in AllParts(t) : part # NotAType
  BY PartsOfWellFormed
<1>2. PICK whole : whole = [u \in SignatureTypes |-> WellFormed(u)]
  OBVIOUS
<1>3. Whole(whole, t)
  BY <1>1, <1>2, WholeDefined DEF WellFormedTypes
<1>4. "elements" \in DOMAIN t
  BY <1>3 DEF Whole
<1>5. Len(t.elements) \in Nat /\ DOMAIN t.elements = 1 .. Len(t.elements)
  BY <1>1, <1>4, EncodingsAreShaped DEF Carries
<1>6. AllParts(t) = ToSet(PartsOf(t))
  BY <1>1, PartsFacts
<1>7. PartsOf(t) = [i \in DOMAIN t.elements |-> Part(t.elements[i], "type")]
  BY <1>1, <1>4, PartsFacts
<1>8. \A i \in DOMAIN t.elements : PartsOf(t)[i] = Part(t.elements[i], "type") /\ PartsOf(t)[i] \in AllParts(t)
  BY <1>6, <1>7 DEF ToSet
<1>9. \A i \in DOMAIN t.elements : Part(t.elements[i], "type") = t.elements[i].type
  BY <1>1, <1>8 DEF Part
<1> QED BY <1>4, <1>5, <1>8, <1>9

(* A well-formed contract type has its circuits, whose types are its parts. *)
LEMMA WellFormedContract ==
  ASSUME NEW t \in WellFormedTypes, t.tag = "Contract"
  PROVE  /\ "circuits" \in DOMAIN t /\ WholeDescriptor(t.circuits)
         /\ \A n \in DOMAIN t.circuits :
              /\ "argumentTypes" \in DOMAIN t.circuits[n]
              /\ t.circuits[n].argumentTypes \in Seq(SignatureTypes)
              /\ \A i \in DOMAIN t.circuits[n].argumentTypes : t.circuits[n].argumentTypes[i] \in AllParts(t)
              /\ Part(t.circuits[n], "resultType") = t.circuits[n].resultType
              /\ t.circuits[n].resultType \in AllParts(t)
<1>1. t \in SignatureTypes /\ "tag" \in DOMAIN t /\ \A part \in AllParts(t) : part # NotAType
  BY PartsOfWellFormed
<1>2. PICK whole : whole = [u \in SignatureTypes |-> WellFormed(u)]
  OBVIOUS
<1>3. Whole(whole, t)
  BY <1>1, <1>2, WholeDefined DEF WellFormedTypes
<1>4. "circuits" \in DOMAIN t /\ \A n \in DOMAIN t.circuits : "argumentTypes" \in DOMAIN t.circuits[n]
  BY <1>3 DEF Whole
<1>5. WholeDescriptor(t.circuits)
  BY <1>1, <1>4, EncodingsAreShaped DEF Carries, WholeDescriptor
<1>6. AllParts(t) = UNION {ToSet(TypesOf(t.circuits[n])) : n \in DOMAIN t.circuits}
  BY <1>1, <1>4, PartsFacts
<1>7. ASSUME NEW n \in DOMAIN t.circuits
      PROVE  /\ t.circuits[n].argumentTypes \in Seq(SignatureTypes)
             /\ \A i \in DOMAIN t.circuits[n].argumentTypes : t.circuits[n].argumentTypes[i] \in AllParts(t)
             /\ Part(t.circuits[n], "resultType") = t.circuits[n].resultType
             /\ t.circuits[n].resultType \in AllParts(t)
  <2>1. PICK d : d = t.circuits[n]
    OBVIOUS
  <2>2. "argumentTypes" \in DOMAIN d /\ d.argumentTypes \in Seq(SignatureTypes)
    BY <1>4, <1>5, <2>1 DEF WholeDescriptor
  <2>3. PICK m \in Nat : m = Len(d.argumentTypes)
    BY <2>2
  <2>4. PICK types : types = TypesOf(d)
    OBVIOUS
  <2>5. /\ DOMAIN types = 1 .. m + 1
        /\ \A i \in 1 .. m : types[i] = d.argumentTypes[i]
        /\ types[m + 1] = Part(d, "resultType")
    <3>1. /\ DOMAIN TypesOf(d) = 1 .. Len(d.argumentTypes) + 1
          /\ \A i \in 1 .. Len(d.argumentTypes) : TypesOf(d)[i] = d.argumentTypes[i]
          /\ TypesOf(d)[Len(d.argumentTypes) + 1] = Part(d, "resultType")
      BY <2>2, ArgumentsAndResult
    <3>2. types = TypesOf(d) /\ Len(d.argumentTypes) = m
      BY <2>3, <2>4
    <3> QED BY <3>1, <3>2
  <2>6. \A i \in 1 .. m + 1 : types[i] \in AllParts(t)
    <3>1. ToSet(types) \subseteq AllParts(t)
      BY <1>6, <2>1, <2>4
    <3>2. \A i \in DOMAIN types : types[i] \in ToSet(types)
      BY DEF ToSet
    <3> QED BY <2>5, <3>1, <3>2
  <2>7. DOMAIN d.argumentTypes = 1 .. m
    BY <2>2, <2>3
  <2>8. \A i \in DOMAIN d.argumentTypes : d.argumentTypes[i] \in AllParts(t)
    BY <2>5, <2>6, <2>7
  <2>9. Part(d, "resultType") \in AllParts(t)
    BY <2>5, <2>6
  <2>10. Part(d, "resultType") = d.resultType
    BY <1>1, <2>9 DEF Part
  <2> QED BY <2>1, <2>2, <2>8, <2>9, <2>10
<1> QED BY <1>4, <1>5, <1>7

-----------------------------------------------------------------------------
(* The form of a type                                                       *)

(* The normal form of a type depends on the forms of its parts only. *)
LEMMA FormLocal ==
  ASSUME NEW t \in WellFormedTypes, NEW g, NEW h, \A part \in AllParts(t) : g[part] = h[part]
  PROVE  Form(g, t) = Form(h, t)
<1>1. CASE t.tag = "Vector"
  <2>1. g[t.type] = h[t.type]
    BY <1>1, WellFormedNest
  <2>2. \A f : Form(f, t) = [tag |-> "Tuple", types |-> [i \in 1 .. t.length |-> f[t.type]]]
    BY <1>1 DEF Form
  <2> QED BY <2>1, <2>2
<1>2. CASE t.tag = "Tuple"
  <2>1. \A i \in DOMAIN t.types : g[t.types[i]] = h[t.types[i]]
    BY <1>2, WellFormedTuple
  <2>2. [i \in DOMAIN t.types |-> g[t.types[i]]] = [i \in DOMAIN t.types |-> h[t.types[i]]]
    BY <2>1, Zenon
  <2>3. \A f : Form(f, t) = [tag |-> "Tuple", types |-> [i \in DOMAIN t.types |-> f[t.types[i]]]]
    BY <1>2 DEF Form
  <2> QED BY <2>2, <2>3, Zenon
<1>3. CASE t.tag = "Struct"
  <2> DEFINE elements(f) == [i \in DOMAIN t.elements |->
                              [name |-> t.elements[i].name, type |-> f[t.elements[i].type]]]
  <2>1. \A i \in DOMAIN t.elements : g[t.elements[i].type] = h[t.elements[i].type]
    BY <1>3, WellFormedStruct
  <2>2. elements(g) = elements(h)
    BY <2>1, Zenon
  <2>3. \A f : Form(f, t) = [tag |-> "Struct", name |-> t.name, elements |-> elements(f)]
    BY <1>3 DEF Form
  <2> HIDE DEF elements
  <2> QED BY <2>2, <2>3, Zenon
<1>4. CASE t.tag = "Alias"
  <2>1. g[t.type] = h[t.type]
    BY <1>4, WellFormedNest
  <2>2. \A f : Form(f, t) = [tag |-> "Alias", name |-> t.name, type |-> f[t.type]]
    BY <1>4 DEF Form
  <2> QED BY <2>1, <2>2
<1>5. CASE t.tag = "Contract"
  <2> DEFINE declaration(f, d) == [argumentTypes |-> [i \in DOMAIN d.argumentTypes |-> f[d.argumentTypes[i]]],
                                   resultType |-> f[d.resultType]]
             circuits(f) == [n \in DOMAIN t.circuits |-> declaration(f, t.circuits[n])]
  <2>1. ASSUME NEW n \in DOMAIN t.circuits
        PROVE  declaration(g, t.circuits[n]) = declaration(h, t.circuits[n])
    <3>1. PICK d : d = t.circuits[n]
      OBVIOUS
    <3>2. /\ \A i \in DOMAIN d.argumentTypes : d.argumentTypes[i] \in AllParts(t)
          /\ d.resultType \in AllParts(t)
      BY <1>5, <3>1, WellFormedContract
    <3>3. (\A i \in DOMAIN d.argumentTypes : g[d.argumentTypes[i]] = h[d.argumentTypes[i]]) /\ g[d.resultType] = h[d.resultType]
      BY <3>2
    <3>4. declaration(g, d) = declaration(h, d)
      BY <3>3, Zenon
    <3> HIDE DEF declaration
    <3> QED BY <3>1, <3>4
  <2>2. circuits(g) = circuits(h)
    <3> HIDE DEF declaration
    <3> QED BY <2>1, Zenon
  <2>3. \A f : Form(f, t) = [tag |-> "Contract", circuits |-> circuits(f)]
    BY <1>5, Zenon DEF Form
  <2> HIDE DEF circuits
  <2> QED BY <2>2, <2>3, Zenon
<1>6. CASE t.tag \notin {"Vector", "Tuple", "Struct", "Alias", "Contract"}
  <2>1. \A f : Form(f, t) = t
    BY <1>6 DEF Form
  <2> QED BY <2>1
<1> QED BY <1>1, <1>2, <1>3, <1>4, <1>5, <1>6

(* The forms of the types below a height.                                   *)
FormsUpto(g, n) == \A u \in WellFormedTypes : Heights[u] < n => g[u] = Form(g, u)

(* The well-formed types are closed under parts, which are lower. *)
LEMMA WellFormedHeights ==
  /\ \A t \in WellFormedTypes : Heights[t] \in Nat
  /\ \A t \in WellFormedTypes : \A part \in AllParts(t) : part \in WellFormedTypes /\ Heights[part] < Heights[t]
BY PartsOfWellFormed, EncodingsAreTrees DEF Heights, WellFormedTypes

(* For every n there are normal forms of the types below n. *)
LEMMA FormsExist ==
  ASSUME NEW n \in Nat
  PROVE  \E g : FormsUpto(g, n)
<1> DEFINE bad == {m \in Nat : ~\E g : FormsUpto(g, m)}
<1>1. bad = {}
  <2> SUFFICES ASSUME bad # {} PROVE FALSE
    OBVIOUS
  <2>1. PICK m \in bad : \A i \in bad : m <= i
    BY Least
  <2>2. m \in Nat /\ ~\E g : FormsUpto(g, m)
    BY <2>1
  <2>3. CASE m = 0
    <3>1. \A u \in WellFormedTypes : ~(Heights[u] < m)
      BY <2>3, WellFormedHeights
    <3>2. FormsUpto(<<>>, m)
      BY <3>1 DEF FormsUpto
    <3> QED BY <2>2, <3>2
  <2>4. CASE m # 0
    <3>1. PICK k \in Nat : k + 1 = m
      BY <2>2, <2>4
    <3>2. k \notin bad
      <4> HIDE DEF bad
      <4>1. ~(m <= k)
        BY <2>2, <3>1
      <4> QED BY <2>1, <4>1
    <3>3. PICK g : FormsUpto(g, k)
      BY <3>2
    <3>4. PICK h : h = [u \in WellFormedTypes |-> Form(g, u)]
      OBVIOUS
    <3>5. ASSUME NEW u \in WellFormedTypes, Heights[u] < m
          PROVE  h[u] = Form(h, u)
      <4>1. ASSUME NEW part \in AllParts(u)
            PROVE  g[part] = h[part]
        <5>1. part \in WellFormedTypes /\ Heights[part] \in Nat /\ Heights[u] \in Nat /\ Heights[part] < Heights[u]
          BY WellFormedHeights
        <5>2. Heights[part] < k
          BY <2>2, <3>1, <3>5, <5>1
        <5> QED BY <3>3, <3>4, <5>1, <5>2 DEF FormsUpto
      <4>2. Form(g, u) = Form(h, u)
        BY <4>1, FormLocal
      <4> QED BY <3>4, <4>2
    <3>6. FormsUpto(h, m)
      BY <3>5 DEF FormsUpto
    <3> QED BY <2>2, <3>6
  <2> QED BY <2>3, <2>4
<1> QED BY <1>1

(* Normal forms below n are unique. *)
LEMMA FormsAgree ==
  ASSUME NEW n \in Nat, NEW g, NEW h, FormsUpto(g, n), FormsUpto(h, n),
         NEW u \in WellFormedTypes, Heights[u] < n
  PROVE  g[u] = h[u]
<1> DEFINE bad == {k \in Nat : \E v \in WellFormedTypes : k = Heights[v] /\ Heights[v] < n /\ g[v] # h[v]}
<1>1. bad = {}
  <2> SUFFICES ASSUME bad # {} PROVE FALSE
    OBVIOUS
  <2>1. PICK m \in bad : \A i \in bad : m <= i
    BY Least
  <2>2. PICK v \in WellFormedTypes : m = Heights[v] /\ Heights[v] < n /\ g[v] # h[v]
    BY <2>1
  <2>3. ASSUME NEW w \in AllParts(v)
        PROVE  g[w] = h[w]
    <3>1. w \in WellFormedTypes /\ Heights[w] \in Nat /\ Heights[v] \in Nat /\ Heights[w] < Heights[v]
      BY WellFormedHeights
    <3>2. Heights[w] < n /\ ~(m <= Heights[w])
      BY <2>2, <3>1
    <3>3. Heights[w] \notin bad
      <4> HIDE DEF bad
      <4> QED BY <2>1, <3>2
    <3> QED BY <3>1, <3>2, <3>3
  <2>4. Form(g, v) = Form(h, v)
    BY <2>3, FormLocal
  <2> QED BY <2>2, <2>4 DEF FormsUpto
<1>2. Heights[u] \in Nat
  BY WellFormedHeights
<1> QED BY <1>1, <1>2

(* The recursion of the form.                                               *)
LEMMA FormDefined ==
  \A t \in WellFormedTypes : Normal(t) = Form([u \in WellFormedTypes |-> Normal(u)], t)
<1> DEFINE G(n) == CHOOSE g : FormsUpto(g, n)
           f == [u \in WellFormedTypes |-> G(Heights[u] + 1)[u]]
<1>1. \A n \in Nat : FormsUpto(G(n), n)
  BY FormsExist
<1> HIDE DEF G
<1>2. ASSUME NEW u \in WellFormedTypes
      PROVE  f[u] = Form(f, u)
  <2>1. Heights[u] \in Nat /\ Heights[u] + 1 \in Nat /\ Heights[u] < Heights[u] + 1
    BY WellFormedHeights
  <2>2. PICK g : g = G(Heights[u] + 1)
    OBVIOUS
  <2>3. FormsUpto(g, Heights[u] + 1)
    BY <1>1, <2>1, <2>2
  <2>4. ASSUME NEW v \in AllParts(u)
        PROVE  g[v] = f[v]
    <3>1. v \in WellFormedTypes /\ Heights[v] \in Nat /\ Heights[v] < Heights[u]
      BY WellFormedHeights
    <3>2. PICK n \in Nat : n = Heights[v] + 1
      BY <3>1
    <3>3. PICK h : h = G(n)
      OBVIOUS
    <3>4. FormsUpto(h, n)
      BY <1>1, <3>3
    <3>5. \A w \in WellFormedTypes : Heights[w] < n => Heights[w] < Heights[u] + 1
      BY <2>1, <3>1, <3>2, WellFormedHeights
    <3>6. FormsUpto(g, n)
      BY <2>3, <3>5 DEF FormsUpto
    <3>7. Heights[v] < n
      BY <3>1, <3>2
    <3>8. h[v] = g[v]
      BY <3>1, <3>4, <3>6, <3>7, FormsAgree
    <3> QED BY <3>1, <3>2, <3>3, <3>8
  <2> HIDE DEF f
  <2>5. Form(g, u) = Form(f, u)
    BY <2>4, FormLocal
  <2>6. g[u] = Form(g, u)
    BY <2>1, <2>3 DEF FormsUpto
  <2>7. f[u] = g[u]
    BY <2>2 DEF f
  <2> QED BY <2>5, <2>6, <2>7
<1> DEFINE Table(g) == g = [u \in WellFormedTypes |-> Form(g, u)]
           form == CHOOSE g : Table(g)
<1>3. PICK e : e = f
  OBVIOUS
<1>4. Table(e)
  <2>1. e = [u \in WellFormedTypes |-> e[u]]
    BY <1>3
  <2>2. \A u \in WellFormedTypes : e[u] = Form(e, u)
    BY <1>2, <1>3
  <2> QED BY <2>1, <2>2, Zenon
<1>5. Table(form)
  <2> HIDE DEF Table
  <2> QED BY <1>4
<1>6. \A t : Normal(t) = form[t]
  BY DEF Normal
<1>7. form = [t \in WellFormedTypes |-> Normal(t)]
  BY <1>5, <1>6
<1>8. \A t \in WellFormedTypes : form[t] = Form(form, t)
  BY <1>5
<1> HIDE DEF form
<1>9. PICK table : table = [t \in WellFormedTypes |-> Normal(t)]
  OBVIOUS
<1>10. \A t \in WellFormedTypes : Normal(t) = Form(table, t)
  <2>1. table = form
    BY <1>7, <1>9
  <2> QED BY <1>6, <1>8, <2>1
<1> QED BY <1>9, <1>10

-----------------------------------------------------------------------------
(* Comparing two types                                                      *)

(* What a declaration is made of is what is well formed. *)
LEMMA ReadableTypes == Readable = WellFormedTypes
BY ReadableIsWellFormed DEF Readable, WellFormedTypes

(* The outcome of several comparisons.                                      *)
LEMMA EveryOutcome ==
  ASSUME NEW k \in Nat, NEW outcomes, DOMAIN outcomes = 1 .. k
  PROVE  /\ FirstBad(outcomes, SAME) = SAME <=> \A i \in 1 .. k : outcomes[i] = SAME
         /\ FirstBad(outcomes, SAME) = SAME \/ \E i \in 1 .. k : FirstBad(outcomes, SAME) = outcomes[i]
<1>1. (\A i \in 1 .. k : outcomes[i] = SAME) => FirstBad(outcomes, SAME) = SAME
  BY FirstBadOutcome
<1>2. (\E i \in 1 .. k : outcomes[i] # SAME) =>
        \E i \in 1 .. k : FirstBad(outcomes, SAME) = outcomes[i] /\ outcomes[i] # SAME
  BY FirstBadOutcome
<1> QED BY <1>1, <1>2

TypesOutcome(compare, k, s, t) ==
  /\ TypesEqual(compare, s, t) = SAME <=>
       Len(t) = k /\ \A i \in 1 .. k : compare[<<s[i], t[i]>>] = SAME
  /\ \/ TypesEqual(compare, s, t) \in {SAME, DIFFERENT}
     \/ Len(t) = k /\ \E i \in 1 .. k : TypesEqual(compare, s, t) = compare[<<s[i], t[i]>>]

(* How two lists of types compare. *)
LEMMA TypesCompare ==
  ASSUME NEW k \in Nat, NEW s, NEW t, DOMAIN s = 1 .. k, Len(s) = k, NEW compare
  PROVE  TypesOutcome(compare, k, s, t)
<1> DEFINE outcomes == [i \in DOMAIN s |-> compare[<<s[i], t[i]>>]]
<1>1. DOMAIN outcomes = 1 .. k /\ \A i \in 1 .. k : outcomes[i] = compare[<<s[i], t[i]>>]
  OBVIOUS
<1>2. TypesEqual(compare, s, t) = IF k # Len(t) THEN DIFFERENT ELSE FirstBad(outcomes, SAME)
  BY DEF TypesEqual
<1> HIDE DEF outcomes
<1>3. /\ FirstBad(outcomes, SAME) = SAME <=> \A i \in 1 .. k : outcomes[i] = SAME
      /\ FirstBad(outcomes, SAME) = SAME \/ \E i \in 1 .. k : FirstBad(outcomes, SAME) = outcomes[i]
  BY <1>1, EveryOutcome
<1> QED BY <1>1, <1>2, <1>3 DEF SAME, DIFFERENT, TypesOutcome

(* How two sequence types compare. *)
LEMMA SequencesCompare ==
  ASSUME NEW a, NEW b, SequenceLength(a) \in Nat, NEW compare
  PROVE  /\ SequencesEqual(compare, a, b) = SAME <=>
              /\ SequenceLength(a) = SequenceLength(b)
              /\ \A i \in 1 .. SequenceLength(a) : compare[<<ElementAt(a, i), ElementAt(b, i)>>] = SAME
         /\ \/ SequencesEqual(compare, a, b) \in {SAME, DIFFERENT}
            \/ /\ SequenceLength(a) = SequenceLength(b)
               /\ \E i \in 1 .. SequenceLength(a) :
                    SequencesEqual(compare, a, b) = compare[<<ElementAt(a, i), ElementAt(b, i)>>]
<1>1. PICK k \in Nat : k = SequenceLength(a)
  OBVIOUS
<1> DEFINE outcomes == [i \in 1 .. k |-> compare[<<ElementAt(a, i), ElementAt(b, i)>>]]
<1>2. DOMAIN outcomes = 1 .. k /\ \A i \in 1 .. k : outcomes[i] = compare[<<ElementAt(a, i), ElementAt(b, i)>>]
  OBVIOUS
<1>3. SequencesEqual(compare, a, b) = IF k # SequenceLength(b) THEN DIFFERENT ELSE FirstBad(outcomes, SAME)
  BY <1>1 DEF SequencesEqual
<1> HIDE DEF outcomes
<1>4. /\ FirstBad(outcomes, SAME) = SAME <=> \A i \in 1 .. k : outcomes[i] = SAME
      /\ FirstBad(outcomes, SAME) = SAME \/ \E i \in 1 .. k : FirstBad(outcomes, SAME) = outcomes[i]
  BY <1>2, EveryOutcome
<1> QED BY <1>1, <1>2, <1>3, <1>4 DEF SAME, DIFFERENT

ElementsOutcome(compare, a, b) ==
  /\ ElementsEqual(compare, a, b) = SAME <=>
       /\ Len(a.elements) = Len(b.elements)
       /\ \A i \in 1 .. Len(a.elements) :
            /\ a.elements[i].name = b.elements[i].name
            /\ compare[<<PartsOf(a)[i], PartsOf(b)[i]>>] = SAME
  /\ \/ ElementsEqual(compare, a, b) \in {SAME, DIFFERENT}
     \/ /\ Len(a.elements) = Len(b.elements)
        /\ \E i \in 1 .. Len(a.elements) :
             ElementsEqual(compare, a, b) = compare[<<PartsOf(a)[i], PartsOf(b)[i]>>]

(* How the elements of two structs compare. *)
LEMMA ElementsCompare ==
  ASSUME NEW a, NEW b, Len(a.elements) \in Nat, DOMAIN a.elements = 1 .. Len(a.elements),
         NEW compare
  PROVE  ElementsOutcome(compare, a, b)
<1>1. PICK k \in Nat : k = Len(a.elements)
  OBVIOUS
<1> DEFINE of(i) == IF a.elements[i].name # b.elements[i].name THEN DIFFERENT
                    ELSE compare[<<PartsOf(a)[i], PartsOf(b)[i]>>]
           outcomes == [i \in DOMAIN a.elements |-> of(i)]
<1>2. /\ DOMAIN outcomes = 1 .. k
      /\ \A i \in 1 .. k : outcomes[i] = of(i)
  <2> HIDE DEF of
  <2> QED BY <1>1
<1>3. ElementsEqual(compare, a, b) = IF k # Len(b.elements) THEN DIFFERENT ELSE FirstBad(outcomes, SAME)
  BY <1>1 DEF ElementsEqual
<1> HIDE DEF outcomes
<1>4. /\ FirstBad(outcomes, SAME) = SAME <=> \A i \in 1 .. k : outcomes[i] = SAME
      /\ FirstBad(outcomes, SAME) = SAME \/ \E i \in 1 .. k : FirstBad(outcomes, SAME) = outcomes[i]
  BY <1>2, EveryOutcome
<1>5. \A i : /\ of(i) = SAME <=> /\ a.elements[i].name = b.elements[i].name
                                 /\ compare[<<PartsOf(a)[i], PartsOf(b)[i]>>] = SAME
             /\ of(i) = DIFFERENT \/ of(i) = compare[<<PartsOf(a)[i], PartsOf(b)[i]>>]
  BY DEF SAME, DIFFERENT
<1> HIDE DEF of
<1>6. SAME # DIFFERENT
  BY DEF SAME, DIFFERENT
<1>7. /\ ElementsEqual(compare, a, b) = SAME <=> k = Len(b.elements) /\ \A i \in 1 .. k : of(i) = SAME
      /\ \/ ElementsEqual(compare, a, b) \in {SAME, DIFFERENT}
         \/ k = Len(b.elements) /\ \E i \in 1 .. k : ElementsEqual(compare, a, b) = of(i)
  BY <1>2, <1>3, <1>4, <1>6
<1> QED BY <1>1, <1>5, <1>7 DEF ElementsOutcome

DeclaresCircuits(descriptor) ==
  /\ WholeDescriptor(descriptor)
  /\ \A n \in DOMAIN descriptor : "argumentTypes" \in DOMAIN descriptor[n]

(* How the circuits of two contract types compare. *)
LEMMA CircuitsCompare ==
  ASSUME NEW a, NEW b, DeclaresCircuits(a), WholeDescriptor(b), NEW compare
  PROVE  /\ ContractCircuitsEqual(compare, a, b) = SAME <=>
              /\ DOMAIN a = DOMAIN b
              /\ \A n \in DOMAIN a : /\ "argumentTypes" \in DOMAIN b[n]
                                     /\ TypesEqual(compare, TypesOf(a[n]), TypesOf(b[n])) = SAME
         /\ \/ ContractCircuitsEqual(compare, a, b) \in {SAME, DIFFERENT}
            \/ \E n \in DOMAIN a \cap DOMAIN b :
                 ContractCircuitsEqual(compare, a, b) =
                   IF "argumentTypes" \notin DOMAIN b[n] THEN THROWS
                   ELSE TypesEqual(compare, TypesOf(a[n]), TypesOf(b[n]))
<1> DEFINE names == SetToSeq(DOMAIN a)
           of(n) == IF n \notin DOMAIN b THEN DIFFERENT
                    ELSE IF "argumentTypes" \notin DOMAIN b[n] THEN THROWS
                    ELSE TypesEqual(compare, TypesOf(a[n]), TypesOf(b[n]))
           outcomes == [i \in DOMAIN names |-> of(names[i])]
           k == Cardinality(DOMAIN a)
<1>1. /\ k \in Nat /\ DOMAIN names = 1 .. k
      /\ \A i \in 1 .. k : names[i] \in DOMAIN a
      /\ \A n \in DOMAIN a : \E i \in 1 .. k : names[i] = n
  BY SetAsSequence DEF DeclaresCircuits, WholeDescriptor
<1>2. ContractCircuitsEqual(compare, a, b) =
        IF Cardinality(DOMAIN a) # Cardinality(DOMAIN b) THEN DIFFERENT ELSE FirstBad(outcomes, SAME)
  BY DEF ContractCircuitsEqual
<1>3. \A n : /\ of(n) = SAME <=> /\ n \in DOMAIN b /\ "argumentTypes" \in DOMAIN b[n]
                                 /\ TypesEqual(compare, TypesOf(a[n]), TypesOf(b[n])) = SAME
             /\ \/ of(n) = DIFFERENT
                \/ n \in DOMAIN b /\ of(n) = IF "argumentTypes" \notin DOMAIN b[n] THEN THROWS
                                             ELSE TypesEqual(compare, TypesOf(a[n]), TypesOf(b[n]))
  BY DEF SAME, DIFFERENT, THROWS
<1> HIDE DEF names, of, k
<1>4. DOMAIN outcomes = 1 .. k /\ \A i \in 1 .. k : outcomes[i] = of(names[i])
  BY <1>1
<1> HIDE DEF outcomes
<1>5. /\ FirstBad(outcomes, SAME) = SAME <=> \A i \in 1 .. k : outcomes[i] = SAME
      /\ FirstBad(outcomes, SAME) = SAME \/ \E i \in 1 .. k : FirstBad(outcomes, SAME) = outcomes[i]
  BY <1>1, <1>4, EveryOutcome
<1>6. /\ FirstBad(outcomes, SAME) = SAME <=> \A n \in DOMAIN a : of(n) = SAME
      /\ FirstBad(outcomes, SAME) = SAME \/ \E n \in DOMAIN a : FirstBad(outcomes, SAME) = of(n)
  BY <1>1, <1>4, <1>5
<1>7. SAME # DIFFERENT
  BY DEF SAME, DIFFERENT
<1>8. IsFiniteSet(DOMAIN a) /\ IsFiniteSet(DOMAIN b)
  BY DEF DeclaresCircuits, WholeDescriptor
<1>9. DOMAIN a \subseteq DOMAIN b /\ Cardinality(DOMAIN a) = Cardinality(DOMAIN b) => DOMAIN a = DOMAIN b
  BY <1>8, FS_Subset
<1>10. (\A n \in DOMAIN a : of(n) = SAME) <=>
         /\ DOMAIN a \subseteq DOMAIN b
         /\ \A n \in DOMAIN a : /\ "argumentTypes" \in DOMAIN b[n]
                                /\ TypesEqual(compare, TypesOf(a[n]), TypesOf(b[n])) = SAME
  BY <1>3
<1>11. ContractCircuitsEqual(compare, a, b) = SAME <=>
         Cardinality(DOMAIN a) = Cardinality(DOMAIN b) /\ \A n \in DOMAIN a : of(n) = SAME
  BY <1>2, <1>6, <1>7
<1>12. \/ ContractCircuitsEqual(compare, a, b) \in {SAME, DIFFERENT}
       \/ \E n \in DOMAIN a : ContractCircuitsEqual(compare, a, b) = of(n)
  BY <1>2, <1>6
<1>13. \/ ContractCircuitsEqual(compare, a, b) \in {SAME, DIFFERENT}
       \/ \E n \in DOMAIN a \cap DOMAIN b :
            ContractCircuitsEqual(compare, a, b) =
              IF "argumentTypes" \notin DOMAIN b[n] THEN THROWS
              ELSE TypesEqual(compare, TypesOf(a[n]), TypesOf(b[n]))
  BY <1>3, <1>12
<1> QED BY <1>9, <1>10, <1>11, <1>13

(* A sequence type has an integer length, and its elements are parts. *)
LEMMA SequenceFacts ==
  ASSUME NEW t \in SignatureTypes, "tag" \in DOMAIN t, IsSequence(t), t.tag = "Tuple" => "types" \in DOMAIN t
  PROVE  /\ SequenceLength(t) \in Int
         /\ \A i \in 1 .. SequenceLength(t) : ElementAt(t, i) \in AllParts(t)
<1>1. CASE t.tag = "Vector"
  <2>1. t.length \in Int
    BY <1>1, EncodingsAreShaped
  <2>2. PartsOf(t) = <<Part(t, "type")>> /\ AllParts(t) = ToSet(PartsOf(t))
    BY <1>1, PartsFacts
  <2>3. Part(t, "type") \in AllParts(t)
    BY <2>2 DEF ToSet
  <2> QED BY <1>1, <2>1, <2>3 DEF SequenceLength, ElementAt
<1>2. CASE t.tag = "Tuple"
  <2>1. t.types \in Seq(SignatureTypes)
    BY <1>2, EncodingsAreShaped DEF Carries
  <2>2. AllParts(t) = ToSet(t.types)
    BY <1>2, PartsFacts
  <2>3. PICK types : types = t.types
    OBVIOUS
  <2>4. Len(types) \in Nat /\ \A i \in 1 .. Len(types) : types[i] \in ToSet(types)
    BY <2>1, <2>3 DEF ToSet
  <2> QED BY <1>2, <2>2, <2>3, <2>4 DEF SequenceLength, ElementAt
<1> QED BY <1>1, <1>2 DEF IsSequence

(* The elements of two sequences that are compared are parts. *)
LEMMA SequencePairs ==
  ASSUME NEW a \in WellFormedTypes, NEW b \in SignatureTypes, "tag" \in DOMAIN b, IsSequence(a),
         IsSequence(b),
         b.tag = "Tuple" => "types" \in DOMAIN b
  PROVE  /\ SequenceLength(a) \in Nat
         /\ SequenceLength(a) = SequenceLength(b) =>
              \A i \in 1 .. SequenceLength(a) : ElementAt(a, i) \in AllParts(a) /\ ElementAt(b, i) \in AllParts(b)
<1>1. a \in SignatureTypes /\ "tag" \in DOMAIN a
  BY PartsOfWellFormed
<1>2. a.tag = "Tuple" => "types" \in DOMAIN a /\ a.types \in Seq(SignatureTypes)
  BY WellFormedTuple
<1>3. a.tag = "Vector" => a.length \in Nat
  BY WellFormedNest
<1>4. SequenceLength(a) \in Nat
  BY <1>2, <1>3 DEF SequenceLength, IsSequence
<1> QED BY <1>1, <1>2, <1>4, SequenceFacts

(* The elements of two structs that are compared are parts. *)
LEMMA ElementPairs ==
  ASSUME NEW a \in WellFormedTypes, NEW b \in SignatureTypes, "tag" \in DOMAIN b,
         a.tag = "Struct", b.tag = "Struct",
         "elements" \in DOMAIN b
  PROVE  /\ Len(a.elements) \in Nat /\ DOMAIN a.elements = 1 .. Len(a.elements)
         /\ Len(a.elements) = Len(b.elements) =>
              \A i \in 1 .. Len(a.elements) : PartsOf(a)[i] \in AllParts(a) /\ PartsOf(b)[i] \in AllParts(b)
<1>1. /\ Len(a.elements) \in Nat /\ DOMAIN a.elements = 1 .. Len(a.elements)
      /\ \A i \in DOMAIN a.elements : PartsOf(a)[i] \in AllParts(a)
  BY WellFormedStruct
<1>2. Len(b.elements) \in Nat /\ DOMAIN b.elements = 1 .. Len(b.elements)
  BY EncodingsAreShaped DEF Carries
<1>3. /\ PartsOf(b) = [i \in DOMAIN b.elements |-> Part(b.elements[i], "type")]
      /\ AllParts(b) = ToSet(PartsOf(b))
  BY PartsFacts
<1>4. \A i \in DOMAIN b.elements : PartsOf(b)[i] \in AllParts(b)
  BY <1>3 DEF ToSet
<1> QED BY <1>1, <1>2, <1>4

(* The positions of two contract types that are compared are parts. *)
LEMMA CircuitPairs ==
  ASSUME NEW a \in WellFormedTypes, NEW b \in SignatureTypes, "tag" \in DOMAIN b,
         a.tag = "Contract", b.tag = "Contract",
         "circuits" \in DOMAIN b
  PROVE  /\ DeclaresCircuits(a.circuits) /\ WholeDescriptor(b.circuits)
         /\ \A n \in DOMAIN a.circuits \cap DOMAIN b.circuits : "argumentTypes" \in DOMAIN b.circuits[n] =>
              \E k \in Nat : /\ DOMAIN TypesOf(a.circuits[n]) = 1 .. k /\ Len(TypesOf(a.circuits[n])) = k
                             /\ Len(TypesOf(b.circuits[n])) = k =>
                                  \A i \in 1 .. k : /\ TypesOf(a.circuits[n])[i] \in AllParts(a)
                                                    /\ TypesOf(b.circuits[n])[i] \in AllParts(b)
<1>1. /\ "circuits" \in DOMAIN a /\ WholeDescriptor(a.circuits)
      /\ \A n \in DOMAIN a.circuits : "argumentTypes" \in DOMAIN a.circuits[n]
  BY WellFormedContract
<1>2. a \in SignatureTypes /\ "tag" \in DOMAIN a
  BY PartsOfWellFormed
<1>3. DeclaresCircuits(a.circuits)
  BY <1>1 DEF DeclaresCircuits
<1>4. WholeDescriptor(b.circuits)
  BY EncodingsAreShaped DEF Carries, WholeDescriptor
<1>5. /\ AllParts(a) = UNION {ToSet(TypesOf(a.circuits[n])) : n \in DOMAIN a.circuits}
      /\ AllParts(b) = UNION {ToSet(TypesOf(b.circuits[n])) : n \in DOMAIN b.circuits}
  BY <1>1, <1>2, PartsFacts
<1>6. ASSUME NEW n \in DOMAIN a.circuits, n \in DOMAIN b.circuits,
             "argumentTypes" \in DOMAIN b.circuits[n]
      PROVE  \E k \in Nat : /\ DOMAIN TypesOf(a.circuits[n]) = 1 .. k /\ Len(TypesOf(a.circuits[n])) = k
                            /\ Len(TypesOf(b.circuits[n])) = k =>
                                 \A i \in 1 .. k : /\ TypesOf(a.circuits[n])[i] \in AllParts(a)
                                                   /\ TypesOf(b.circuits[n])[i] \in AllParts(b)
  <2>1. PICK c : c = a.circuits[n]
    OBVIOUS
  <2>2. PICK d : d = b.circuits[n]
    OBVIOUS
  <2>3. /\ "argumentTypes" \in DOMAIN c /\ c.argumentTypes \in Seq(SignatureTypes)
        /\ "argumentTypes" \in DOMAIN d /\ d.argumentTypes \in Seq(SignatureTypes)
    BY <1>1, <1>4, <1>6, <2>1, <2>2 DEF WholeDescriptor
  <2>4. Len(c.argumentTypes) \in Nat /\ DOMAIN TypesOf(c) = 1 .. Len(c.argumentTypes) + 1 /\ Len(TypesOf(c)) = Len(c.argumentTypes) + 1
    BY <2>3, ArgumentsAndResult
  <2>5. DOMAIN TypesOf(d) = 1 .. Len(d.argumentTypes) + 1 /\ Len(TypesOf(d)) = Len(d.argumentTypes) + 1
    BY <2>3, ArgumentsAndResult
  <2>6. PICK k \in Nat : k = Len(c.argumentTypes) + 1
    BY <2>4
  <2>7. PICK s : s = TypesOf(c)
    OBVIOUS
  <2>8. PICK t : t = TypesOf(d)
    OBVIOUS
  <2>9. ToSet(s) \subseteq AllParts(a) /\ ToSet(t) \subseteq AllParts(b)
    BY <1>5, <1>6, <2>1, <2>2, <2>7, <2>8
  <2>10. (\A i \in DOMAIN s : s[i] \in ToSet(s)) /\ \A i \in DOMAIN t : t[i] \in ToSet(t)
    BY DEF ToSet
  <2>11. DOMAIN s = 1 .. k /\ Len(s) = k /\ (Len(t) = k => DOMAIN t = 1 .. k)
    BY <2>4, <2>5, <2>6, <2>7, <2>8
  <2>12. Len(t) = k => \A i \in 1 .. k : s[i] \in AllParts(a) /\ t[i] \in AllParts(b)
    BY <2>9, <2>10, <2>11
  <2> QED BY <2>1, <2>2, <2>7, <2>8, <2>11, <2>12
<1> QED BY <1>3, <1>4, <1>6

(* What is compared of two aliases are parts. *)
LEMMA NestPairs ==
  ASSUME NEW a \in WellFormedTypes, NEW b \in SignatureTypes, "tag" \in DOMAIN b, a.tag = "Alias",
         b.tag = "Alias"
  PROVE  Part(a, "type") \in AllParts(a) /\ Part(b, "type") \in AllParts(b)
<1>1. Part(a, "type") = a.type /\ a.type \in AllParts(a)
  BY WellFormedNest
<1>2. PartsOf(b) = <<Part(b, "type")>> /\ AllParts(b) = ToSet(PartsOf(b))
  BY PartsFacts
<1>3. Part(b, "type") \in AllParts(b)
  BY <1>2 DEF ToSet
<1> QED BY <1>1, <1>3

(* Comparison, case by case: structs. *)
LEMMA StructComparison ==
  ASSUME NEW a, NEW b, "tag" \in DOMAIN b, a.tag = "Struct", b.tag = "Struct", NEW compare
  PROVE  Comparison(compare, a, b) =
           IF a.name # b.name THEN DIFFERENT
           ELSE IF "elements" \notin DOMAIN b THEN THROWS ELSE ElementsEqual(compare, a, b)
BY DEF Comparison, IsSequence, PLAIN_TAGS

(* Comparison of aliases. *)
LEMMA AliasComparison ==
  ASSUME NEW a, NEW b, "tag" \in DOMAIN b, a.tag = "Alias", b.tag = "Alias", NEW compare
  PROVE  Comparison(compare, a, b) =
           IF a.name # b.name THEN DIFFERENT ELSE compare[<<Part(a, "type"), Part(b, "type")>>]
BY DEF Comparison, IsSequence, PLAIN_TAGS

(* Comparison of contract types. *)
LEMMA ContractComparison ==
  ASSUME NEW a, NEW b, "tag" \in DOMAIN b, a.tag = "Contract", b.tag = "Contract", NEW compare
  PROVE  Comparison(compare, a, b) =
           IF "circuits" \notin DOMAIN b THEN THROWS ELSE ContractCircuitsEqual(compare, a.circuits, b.circuits)
BY DEF Comparison, IsSequence, PLAIN_TAGS

(* Comparison of enums. *)
LEMMA EnumComparison ==
  ASSUME NEW a, NEW b, "tag" \in DOMAIN b, a.tag = "Enum", b.tag = "Enum", NEW compare
  PROVE  Comparison(compare, a, b) =
           IF a.name # b.name THEN DIFFERENT
           ELSE IF "names" \notin DOMAIN b THEN THROWS
           ELSE IF a.names = b.names THEN SAME ELSE DIFFERENT
BY DEF Comparison, IsSequence, PLAIN_TAGS

(* Comparison of leaves. *)
LEMMA LeafComparison ==
  ASSUME NEW a, NEW b, "tag" \in DOMAIN b, a.tag \in Leaves, b.tag = a.tag, NEW compare
  PROVE  Comparison(compare, a, b) =
           IF /\ a.tag = "Uint" => a.maxval = b.maxval
              /\ a.tag = "Bytes" => a.length = b.length
              /\ a.tag = "Opaque" => a.tsType = b.tsType
           THEN SAME ELSE DIFFERENT
<1>1. ~IsSequence(a)
  BY DEF IsSequence, Leaves, PLAIN_TAGS
<1>2. CASE a.tag \in PLAIN_TAGS
  BY <1>1, <1>2 DEF Comparison, PLAIN_TAGS
<1>3. CASE a.tag = "Uint"
  BY <1>1, <1>3 DEF Comparison, PLAIN_TAGS
<1>4. CASE a.tag = "Bytes"
  BY <1>1, <1>4 DEF Comparison, PLAIN_TAGS
<1>5. CASE a.tag = "Opaque"
  BY <1>1, <1>5 DEF Comparison, PLAIN_TAGS
<1> QED BY <1>2, <1>3, <1>4, <1>5 DEF Leaves

(* Comparison of sequences, and of types with different tags. *)
LEMMA ComparisonAcrossTags ==
  ASSUME NEW a, NEW b, NEW compare
  PROVE  /\ "tag" \notin DOMAIN b => Comparison(compare, a, b) = THROWS
         /\ "tag" \in DOMAIN b /\ IsSequence(a) => Comparison(compare, a, b) =
              IF ~IsSequence(b) THEN DIFFERENT
              ELSE IF b.tag = "Tuple" /\ "types" \notin DOMAIN b THEN THROWS
              ELSE SequencesEqual(compare, a, b)
         /\ "tag" \in DOMAIN b /\ ~IsSequence(a) /\ a.tag # b.tag => Comparison(compare, a, b) = DIFFERENT
BY DEF Comparison

(* The cases of a well-formed type. *)
LEMMA KnownTag ==
  ASSUME NEW t \in WellFormedTypes
  PROVE  IsSequence(t) \/ t.tag \in Leaves \/ t.tag \in {"Enum", "Struct", "Alias", "Contract"}
<1>1. t.tag \in KNOWN_SIGNATURE_TAGS
  BY PartsOfWellFormed
<1> QED BY <1>1 DEF IsSequence, KNOWN_SIGNATURE_TAGS, Leaves

(* A comparison depends on how the parts compare only. *)
LEMMA CompareLocal ==
  ASSUME NEW a \in WellFormedTypes, NEW b \in SignatureTypes, NEW g, NEW h,
         \A x \in AllParts(a) : \A y \in AllParts(b) : g[<<x, y>>] = h[<<x, y>>]
  PROVE  Comparison(g, a, b) = Comparison(h, a, b)
<1>1. CASE "tag" \notin DOMAIN b
  BY <1>1, ComparisonAcrossTags
<1>2. CASE "tag" \in DOMAIN b /\ IsSequence(a)
  <2>1. CASE IsSequence(b) /\ (b.tag = "Tuple" => "types" \in DOMAIN b)
    <3>1. SequenceLength(a) = SequenceLength(b) =>
            \A i \in 1 .. SequenceLength(a) : g[<<ElementAt(a, i), ElementAt(b, i)>>] = h[<<ElementAt(a, i), ElementAt(b, i)>>]
      BY <1>2, <2>1, SequencePairs
    <3>2. SequencesEqual(g, a, b) = SequencesEqual(h, a, b)
      <4>1. CASE SequenceLength(a) # SequenceLength(b)
        BY <4>1 DEF SequencesEqual
      <4>2. CASE SequenceLength(a) = SequenceLength(b)
        <5>1. [i \in 1 .. SequenceLength(a) |-> g[<<ElementAt(a, i), ElementAt(b, i)>>]]
              = [i \in 1 .. SequenceLength(a) |-> h[<<ElementAt(a, i), ElementAt(b, i)>>]]
          BY <3>1, <4>2, Zenon
        <5> QED BY <5>1, Zenon DEF SequencesEqual
      <4> QED BY <4>1, <4>2
    <3> QED BY <1>2, <2>1, <3>2, ComparisonAcrossTags
  <2>2. CASE ~(IsSequence(b) /\ (b.tag = "Tuple" => "types" \in DOMAIN b))
    BY <1>2, <2>2, ComparisonAcrossTags
  <2> QED BY <2>1, <2>2
<1>3. CASE "tag" \in DOMAIN b /\ ~IsSequence(a) /\ a.tag # b.tag
  BY <1>3, ComparisonAcrossTags
<1>4. CASE "tag" \in DOMAIN b /\ a.tag = b.tag /\ a.tag = "Struct"
  <2>2. CASE "elements" \in DOMAIN b
    <3>1. /\ DOMAIN a.elements = 1 .. Len(a.elements)
          /\ Len(a.elements) = Len(b.elements) =>
               \A i \in 1 .. Len(a.elements) : g[<<PartsOf(a)[i], PartsOf(b)[i]>>] = h[<<PartsOf(a)[i], PartsOf(b)[i]>>]
      BY <1>4, <2>2, ElementPairs
    <3>2. ElementsEqual(g, a, b) = ElementsEqual(h, a, b)
      <4>1. CASE Len(a.elements) # Len(b.elements)
        BY <4>1 DEF ElementsEqual
      <4>2. CASE Len(a.elements) = Len(b.elements)
        <5> DEFINE of(f, i) == IF a.elements[i].name # b.elements[i].name THEN DIFFERENT
                               ELSE f[<<PartsOf(a)[i], PartsOf(b)[i]>>]
        <5>1. \A i \in DOMAIN a.elements : of(g, i) = of(h, i)
          BY <3>1, <4>2
        <5>2. \A f : ElementsEqual(f, a, b) = FirstBad([i \in DOMAIN a.elements |-> of(f, i)], SAME)
          BY <4>2 DEF ElementsEqual
        <5> HIDE DEF of
        <5> QED BY <5>1, <5>2, Zenon
      <4> QED BY <4>1, <4>2
    <3> QED BY <1>4, <2>2, <3>2, StructComparison
  <2>3. CASE "elements" \notin DOMAIN b
    BY <1>4, <2>3, StructComparison
  <2> QED BY <2>2, <2>3
<1>5. CASE "tag" \in DOMAIN b /\ a.tag = b.tag /\ a.tag = "Alias"
  <2>2. g[<<Part(a, "type"), Part(b, "type")>>] = h[<<Part(a, "type"), Part(b, "type")>>]
    BY <1>5, NestPairs
  <2> QED BY <1>5, <2>2, AliasComparison
<1>6. CASE "tag" \in DOMAIN b /\ a.tag = b.tag /\ a.tag = "Contract"
  <2>2. CASE "circuits" \in DOMAIN b
    <3>1. PICK c : c = a.circuits
      OBVIOUS
    <3>2. PICK d : d = b.circuits
      OBVIOUS
    <3>3. /\ DeclaresCircuits(c)
          /\ \A n \in DOMAIN c \cap DOMAIN d : "argumentTypes" \in DOMAIN d[n] =>
               \E k \in Nat : /\ DOMAIN TypesOf(c[n]) = 1 .. k /\ Len(TypesOf(c[n])) = k
                              /\ Len(TypesOf(d[n])) = k =>
                                   \A i \in 1 .. k : TypesOf(c[n])[i] \in AllParts(a) /\ TypesOf(d[n])[i] \in AllParts(b)
      BY <1>6, <2>2, <3>1, <3>2, CircuitPairs
    <3>4. ASSUME NEW n \in DOMAIN c, n \in DOMAIN d, "argumentTypes" \in DOMAIN d[n]
          PROVE  TypesEqual(g, TypesOf(c[n]), TypesOf(d[n])) = TypesEqual(h, TypesOf(c[n]), TypesOf(d[n]))
      <4>1. PICK s : s = TypesOf(c[n])
        OBVIOUS
      <4>2. PICK t : t = TypesOf(d[n])
        OBVIOUS
      <4>3. Len(s) = Len(t) => \A i \in DOMAIN s : g[<<s[i], t[i]>>] = h[<<s[i], t[i]>>]
        BY <3>3, <3>4, <4>1, <4>2
      <4>4. CASE Len(s) # Len(t)
        BY <4>1, <4>2, <4>4 DEF TypesEqual
      <4>5. CASE Len(s) = Len(t)
        <5>1. [i \in DOMAIN s |-> g[<<s[i], t[i]>>]] = [i \in DOMAIN s |-> h[<<s[i], t[i]>>]]
          BY <4>3, <4>5, Zenon
        <5>2. \A f : TypesEqual(f, s, t) = FirstBad([i \in DOMAIN s |-> f[<<s[i], t[i]>>]], SAME)
          BY <4>5 DEF TypesEqual
        <5>3. TypesEqual(g, s, t) = TypesEqual(h, s, t)
          BY <5>1, <5>2, Zenon
        <5> QED BY <4>1, <4>2, <5>3
      <4> QED BY <4>4, <4>5
    <3> DEFINE of(f, n) == IF n \notin DOMAIN d THEN DIFFERENT
                           ELSE IF "argumentTypes" \notin DOMAIN d[n] THEN THROWS
                           ELSE TypesEqual(f, TypesOf(c[n]), TypesOf(d[n]))
    <3>5. PICK names : names = SetToSeq(DOMAIN c)
      OBVIOUS
    <3>6. \A n \in DOMAIN c : of(g, n) = of(h, n)
      BY <3>4
    <3>7. \A i \in DOMAIN names : names[i] \in DOMAIN c
      BY <3>3, <3>5, SetAsSequence DEF DeclaresCircuits, WholeDescriptor
    <3>8. \A f : ContractCircuitsEqual(f, c, d) =
                   IF Cardinality(DOMAIN c) # Cardinality(DOMAIN d) THEN DIFFERENT
                   ELSE FirstBad([i \in DOMAIN names |-> of(f, names[i])], SAME)
      BY <3>5 DEF ContractCircuitsEqual
    <3> HIDE DEF of
    <3>9. \A i \in DOMAIN names : of(g, names[i]) = of(h, names[i])
      BY <3>6, <3>7
    <3>10. [i \in DOMAIN names |-> of(g, names[i])] = [i \in DOMAIN names |-> of(h, names[i])]
      BY <3>9, Zenon
    <3>11. ContractCircuitsEqual(g, c, d) = ContractCircuitsEqual(h, c, d)
      BY <3>8, <3>10, Zenon
    <3> QED BY <1>6, <2>2, <3>1, <3>2, <3>11, ContractComparison
  <2>3. CASE "circuits" \notin DOMAIN b
    BY <1>6, <2>3, ContractComparison
  <2> QED BY <2>2, <2>3, Zenon
<1>7. CASE "tag" \in DOMAIN b /\ a.tag = b.tag /\ a.tag = "Enum"
  <2>1. \A f : Comparison(f, a, b) =
                 IF a.name # b.name THEN DIFFERENT
                 ELSE IF "names" \notin DOMAIN b THEN THROWS
                 ELSE IF a.names = b.names THEN SAME ELSE DIFFERENT
    <3>1. b.tag = "Enum"
      BY <1>7
    <3> QED BY <1>7, <3>1, EnumComparison
  <2> QED BY <2>1
<1>8. CASE "tag" \in DOMAIN b /\ a.tag = b.tag /\ a.tag \in Leaves
  BY <1>8, LeafComparison
<1> QED BY <1>1, <1>2, <1>3, <1>4, <1>5, <1>6, <1>7, <1>8, KnownTag

Comparisons == {SAME, DIFFERENT, THROWS}

(* A comparison answers or throws, if those of the parts do. *)
LEMMA CompareAnswers ==
  ASSUME NEW a \in WellFormedTypes, NEW b \in SignatureTypes, NEW g,
         \A x \in AllParts(a) : \A y \in AllParts(b) : g[<<x, y>>] \in Comparisons
  PROVE  Comparison(g, a, b) \in Comparisons
<1> USE DEF Comparisons
<1>1. CASE "tag" \notin DOMAIN b
  BY <1>1, ComparisonAcrossTags
<1>2. CASE "tag" \in DOMAIN b /\ IsSequence(a)
  <2>1. CASE IsSequence(b) /\ (b.tag = "Tuple" => "types" \in DOMAIN b)
    <3>1. /\ SequenceLength(a) \in Nat
          /\ SequenceLength(a) = SequenceLength(b) =>
               \A i \in 1 .. SequenceLength(a) : g[<<ElementAt(a, i), ElementAt(b, i)>>] \in Comparisons
      BY <1>2, <2>1, SequencePairs
    <3>2. SequencesEqual(g, a, b) \in Comparisons
      BY <3>1, SequencesCompare
    <3> QED BY <1>2, <2>1, <3>2, ComparisonAcrossTags
  <2>2. CASE ~(IsSequence(b) /\ (b.tag = "Tuple" => "types" \in DOMAIN b))
    BY <1>2, <2>2, ComparisonAcrossTags
  <2> QED BY <2>1, <2>2
<1>3. CASE "tag" \in DOMAIN b /\ ~IsSequence(a) /\ a.tag # b.tag
  BY <1>3, ComparisonAcrossTags
<1>4. CASE "tag" \in DOMAIN b /\ a.tag = b.tag /\ a.tag = "Struct"
  <2>2. CASE "elements" \in DOMAIN b
    <3>1. /\ Len(a.elements) \in Nat /\ DOMAIN a.elements = 1 .. Len(a.elements)
          /\ Len(a.elements) = Len(b.elements) =>
               \A i \in 1 .. Len(a.elements) : g[<<PartsOf(a)[i], PartsOf(b)[i]>>] \in Comparisons
      BY <1>4, <2>2, ElementPairs
    <3>2. ElementsEqual(g, a, b) \in Comparisons
      <4>1. ElementsOutcome(g, a, b)
        BY <3>1, ElementsCompare
      <4> QED BY <3>1, <4>1 DEF ElementsOutcome
    <3> QED BY <1>4, <3>2, StructComparison
  <2>3. CASE "elements" \notin DOMAIN b
    BY <1>4, <2>3, StructComparison
  <2> QED BY <2>2, <2>3
<1>5. CASE "tag" \in DOMAIN b /\ a.tag = b.tag /\ a.tag = "Alias"
  <2>2. g[<<Part(a, "type"), Part(b, "type")>>] \in Comparisons
    BY <1>5, NestPairs
  <2> QED BY <1>5, <2>2, AliasComparison
<1>6. CASE "tag" \in DOMAIN b /\ a.tag = b.tag /\ a.tag = "Contract"
  <2>2. CASE "circuits" \in DOMAIN b
    <3>1. PICK c : c = a.circuits
      OBVIOUS
    <3>2. PICK d : d = b.circuits
      OBVIOUS
    <3>3. /\ DeclaresCircuits(c) /\ WholeDescriptor(d)
          /\ \A n \in DOMAIN c \cap DOMAIN d : "argumentTypes" \in DOMAIN d[n] =>
               \E k \in Nat : /\ DOMAIN TypesOf(c[n]) = 1 .. k /\ Len(TypesOf(c[n])) = k
                              /\ Len(TypesOf(d[n])) = k =>
                                   \A i \in 1 .. k : TypesOf(c[n])[i] \in AllParts(a) /\ TypesOf(d[n])[i] \in AllParts(b)
      BY <1>6, <2>2, <3>1, <3>2, CircuitPairs
    <3>4. ASSUME NEW n \in DOMAIN c, n \in DOMAIN d, "argumentTypes" \in DOMAIN d[n]
          PROVE  TypesEqual(g, TypesOf(c[n]), TypesOf(d[n])) \in Comparisons
      <4>1. PICK s : s = TypesOf(c[n])
        OBVIOUS
      <4>2. PICK t : t = TypesOf(d[n])
        OBVIOUS
      <4>3. PICK k \in Nat : /\ DOMAIN s = 1 .. k /\ Len(s) = k
                             /\ Len(t) = k => \A i \in 1 .. k : g[<<s[i], t[i]>>] \in Comparisons
        BY <3>3, <3>4, <4>1, <4>2
      <4>4. TypesEqual(g, s, t) \in Comparisons
        <5>1. TypesOutcome(g, k, s, t)
          BY <4>3, TypesCompare
        <5> QED BY <4>3, <5>1 DEF TypesOutcome
      <4> QED BY <4>1, <4>2, <4>4
    <3>5. ContractCircuitsEqual(g, c, d) \in Comparisons
      BY <3>3, <3>4, CircuitsCompare
    <3> QED BY <1>6, <3>1, <3>2, <3>5, ContractComparison
  <2>3. CASE "circuits" \notin DOMAIN b
    BY <1>6, <2>3, ContractComparison
  <2> QED BY <2>2, <2>3, Zenon
<1>7. CASE "tag" \in DOMAIN b /\ a.tag = b.tag /\ a.tag = "Enum"
  <2>1. \A f : Comparison(f, a, b) =
                 IF a.name # b.name THEN DIFFERENT
                 ELSE IF "names" \notin DOMAIN b THEN THROWS
                 ELSE IF a.names = b.names THEN SAME ELSE DIFFERENT
    <3>1. b.tag = "Enum"
      BY <1>7
    <3> QED BY <1>7, <3>1, EnumComparison
  <2> QED BY <2>1
<1>8. CASE "tag" \in DOMAIN b /\ a.tag = b.tag /\ a.tag \in Leaves
  BY <1>8, LeafComparison
<1> QED BY <1>1, <1>2, <1>3, <1>4, <1>5, <1>6, <1>7, <1>8, KnownTag

(* The recursion of the comparison.                                         *)
LEMMA CompareDefined ==
  \A a \in WellFormedTypes : \A b \in SignatureTypes :
    /\ SignatureTypesEqual(a, b)
         = Comparison([p \in WellFormedTypes \X SignatureTypes |-> SignatureTypesEqual(p[1], p[2])], a, b)
<1>1. PICK T : T = WellFormedTypes \X SignatureTypes
  OBVIOUS
<1>2. PICK R : R = Comparisons /\ R # {}
  BY DEF Comparisons
<1> DEFINE F == [g \in [T -> R] |-> [p \in T |-> Comparison(g, p[1], p[2])]]
<1>3. \A g \in [T -> R] : \A p \in T : Comparison(g, p[1], p[2]) \in R
  <2> SUFFICES ASSUME NEW g \in [T -> R], NEW p \in T
               PROVE  Comparison(g, p[1], p[2]) \in R
    OBVIOUS
  <2>1. PICK a \in WellFormedTypes : a = p[1]
    BY <1>1
  <2>2. PICK b \in SignatureTypes : b = p[2]
    BY <1>1
  <2>3. ASSUME NEW x \in AllParts(a), NEW y \in AllParts(b)
        PROVE  g[<<x, y>>] \in R
    <3>1. x \in WellFormedTypes /\ y \in SignatureTypes
      BY WellFormedHeights, EncodingsAreTrees
    <3>2. <<x, y>> \in T
      BY <1>1, <3>1
    <3> QED BY <3>2
  <2>4. Comparison(g, a, b) \in R
    BY <1>2, <2>3, CompareAnswers
  <2> QED BY <2>1, <2>2, <2>4
<1>4. F \in [[T -> R] -> [T -> R]]
  BY <1>3
<1> DEFINE E == [p \in T |-> Heights[p[1]]]
<1>5. PICK D : D = E
  OBVIOUS
<1>6. D \in [T -> Nat]
  BY <1>1, <1>5, WellFormedHeights
<1>7. ASSUME NEW g \in [T -> R], NEW h \in [T -> R], NEW p \in T,
             \A q \in T : D[q] < D[p] => g[q] = h[q]
      PROVE  F[g][p] = F[h][p]
  <2>1. PICK a \in WellFormedTypes : a = p[1]
    BY <1>1
  <2>2. PICK b \in SignatureTypes : b = p[2]
    BY <1>1
  <2>3. ASSUME NEW x \in AllParts(a), NEW y \in AllParts(b)
        PROVE  g[<<x, y>>] = h[<<x, y>>]
    <3>1. x \in WellFormedTypes /\ y \in SignatureTypes /\ Heights[x] < Heights[a]
      BY WellFormedHeights, EncodingsAreTrees
    <3>2. PICK q : q = <<x, y>>
      OBVIOUS
    <3>3. q \in T /\ q[1] = x
      BY <1>1, <3>1, <3>2
    <3>4. D[q] < D[p]
      BY <1>5, <2>1, <3>1, <3>3
    <3> QED BY <1>7, <3>2, <3>3, <3>4
  <2>4. Comparison(g, a, b) = Comparison(h, a, b)
    BY <2>3, CompareLocal
  <2>5. F[g][p] = Comparison(g, p[1], p[2]) /\ F[h][p] = Comparison(h, p[1], p[2])
    OBVIOUS
  <2> HIDE DEF F
  <2> QED BY <2>1, <2>2, <2>4, <2>5
<1>8. PICK G : G = F
  OBVIOUS
<1>9. Recursion(T, R, D, G)
  <2> HIDE DEF F
  <2> QED BY <1>4, <1>6, <1>7, <1>8 DEF Recursion
<1>10. PICK f \in [T -> R] : G[f] = f
  BY <1>2, <1>9, RecursionDefines
<1>11. f = [p \in T |-> Comparison(f, p[1], p[2])]
  BY <1>8, <1>10
<1> DEFINE Table(g) == g = [p \in Readable \X SignatureTypes |-> Comparison(g, p[1], p[2])]
           compare == CHOOSE g : Table(g)
<1>12. Table(compare)
  <2>1. Table(f)
    BY <1>1, <1>11, ReadableTypes
  <2> HIDE DEF Table
  <2> QED BY <2>1
<1>13. \A a, b : SignatureTypesEqual(a, b) = compare[<<a, b>>]
  BY DEF SignatureTypesEqual
<1>14. /\ compare = [p \in T |-> compare[p]]
       /\ \A p \in T : compare[p] = Comparison(compare, p[1], p[2])
  BY <1>1, <1>12, ReadableTypes
<1> HIDE DEF compare
<1>15. \A p \in T : compare[p] = SignatureTypesEqual(p[1], p[2])
  <2> SUFFICES ASSUME NEW p \in T PROVE compare[p] = SignatureTypesEqual(p[1], p[2])
    OBVIOUS
  <2>1. p = <<p[1], p[2]>>
    BY <1>1
  <2> QED BY <1>13, <2>1
<1>16. [p \in T |-> SignatureTypesEqual(p[1], p[2])] = compare
  BY <1>14, <1>15
<1>17. ASSUME NEW a \in WellFormedTypes, NEW b \in SignatureTypes
       PROVE  SignatureTypesEqual(a, b) = Comparison(compare, a, b)
  <2>1. PICK p : p = <<a, b>>
    OBVIOUS
  <2>2. p \in T /\ p[1] = a /\ p[2] = b
    BY <1>1, <2>1
  <2>3. compare[p] = Comparison(compare, a, b)
    BY <1>14, <2>2
  <2> QED BY <1>13, <2>1, <2>3
<1>18. [p \in WellFormedTypes \X SignatureTypes |-> SignatureTypesEqual(p[1], p[2])] = compare
  BY <1>1, <1>16
<1> QED BY <1>17, <1>18

(* The normal form of a sequence: a tuple of the forms of its elements. *)
LEMMA SequenceForm ==
  ASSUME NEW t \in WellFormedTypes, IsSequence(t), NEW form
  PROVE  /\ SequenceLength(t) \in Nat
         /\ Form(form, t) = [tag |-> "Tuple",
                             types |-> [i \in 1 .. SequenceLength(t) |-> form[ElementAt(t, i)]]]
<1>1. CASE t.tag = "Vector"
  <2>1. Part(t, "type") = t.type /\ t.length \in Nat
    BY <1>1, WellFormedNest
  <2>2. SequenceLength(t) = t.length /\ \A i : ElementAt(t, i) = t.type
    BY <1>1, <2>1 DEF SequenceLength, ElementAt
  <2>3. Form(form, t) = [tag |-> "Tuple", types |-> [i \in 1 .. t.length |-> form[t.type]]]
    BY <1>1 DEF Form
  <2> QED BY <2>1, <2>2, <2>3
<1>2. CASE t.tag = "Tuple"
  <2>1. PICK types : types = t.types
    OBVIOUS
  <2>2. types \in Seq(SignatureTypes)
    BY <1>2, <2>1, WellFormedTuple
  <2>3. DOMAIN types = 1 .. Len(types) /\ Len(types) \in Nat
    BY <2>2
  <2>4. SequenceLength(t) = Len(types) /\ \A i : ElementAt(t, i) = types[i]
    BY <1>2, <2>1 DEF SequenceLength, ElementAt
  <2>5. Form(form, t) = [tag |-> "Tuple", types |-> [i \in DOMAIN types |-> form[types[i]]]]
    BY <1>2, <2>1 DEF Form
  <2> QED BY <2>3, <2>4, <2>5
<1> QED BY <1>1, <1>2 DEF IsSequence

(* The tag of a normal form: a vector becomes a tuple. *)
LEMMA TagOfForm ==
  ASSUME NEW t \in WellFormedTypes, NEW form
  PROVE  Form(form, t).tag = IF IsSequence(t) THEN "Tuple" ELSE t.tag
<1>1. CASE IsSequence(t)
  BY <1>1, SequenceForm
<1>2. CASE ~IsSequence(t)
  <2>1. t.tag \notin {"Vector", "Tuple"}
    BY <1>2 DEF IsSequence
  <2>2. CASE t.tag = "Struct"
    BY <1>2, <2>2 DEF Form
  <2>3. CASE t.tag = "Alias"
    BY <1>2, <2>3 DEF Form
  <2>4. CASE t.tag = "Contract"
    BY <1>2, <2>4 DEF Form
  <2>5. CASE t.tag \notin {"Struct", "Alias", "Contract"}
    BY <1>2, <2>1, <2>5 DEF Form
  <2> QED BY <2>2, <2>3, <2>4, <2>5
<1> QED BY <1>1, <1>2

Agreement(compare, form, a, b) ==
  \A x \in AllParts(a) : \A y \in AllParts(b) :
    compare[<<x, y>>] = IF form[x] = form[y] THEN SAME ELSE DIFFERENT

(* Comparing sequences is comparing their forms, given that of the parts. *)
LEMMA SequencesAgree ==
  ASSUME NEW a \in WellFormedTypes, NEW b \in WellFormedTypes, IsSequence(a), IsSequence(b),
         NEW compare, NEW form,
         Agreement(compare, form, a, b)
  PROVE  Comparison(compare, a, b) = IF Form(form, a) = Form(form, b) THEN SAME ELSE DIFFERENT
<1>1. b \in SignatureTypes /\ "tag" \in DOMAIN b
  BY PartsOfWellFormed
<1>2. b.tag = "Tuple" => "types" \in DOMAIN b
  BY WellFormedTuple
<1>3. Comparison(compare, a, b) = SequencesEqual(compare, a, b)
  BY <1>1, <1>2, ComparisonAcrossTags
<1>4. PICK k \in Nat : k = SequenceLength(a)
  BY SequenceForm
<1>5. PICK m \in Nat : m = SequenceLength(b)
  BY SequenceForm
<1>6. k = m => \A i \in 1 .. k : compare[<<ElementAt(a, i), ElementAt(b, i)>>]
                                 = IF form[ElementAt(a, i)] = form[ElementAt(b, i)] THEN SAME ELSE DIFFERENT
  BY <1>1, <1>2, <1>4, <1>5, SequencePairs DEF Agreement
<1>7. /\ SequencesEqual(compare, a, b) = SAME <=>
           k = m /\ \A i \in 1 .. k : compare[<<ElementAt(a, i), ElementAt(b, i)>>] = SAME
      /\ \/ SequencesEqual(compare, a, b) \in {SAME, DIFFERENT}
         \/ k = m /\ \E i \in 1 .. k : SequencesEqual(compare, a, b) = compare[<<ElementAt(a, i), ElementAt(b, i)>>]
  BY <1>4, <1>5, SequencesCompare
<1>8. SAME # DIFFERENT
  BY DEF SAME, DIFFERENT
<1>9. SequencesEqual(compare, a, b) =
        IF k = m /\ \A i \in 1 .. k : form[ElementAt(a, i)] = form[ElementAt(b, i)] THEN SAME ELSE DIFFERENT
  BY <1>6, <1>7, <1>8
<1> DEFINE A == [i \in 1 .. k |-> form[ElementAt(a, i)]]
           B == [i \in 1 .. m |-> form[ElementAt(b, i)]]
<1>10. Form(form, a) = [tag |-> "Tuple", types |-> A] /\ Form(form, b) = [tag |-> "Tuple", types |-> B]
  BY <1>4, <1>5, SequenceForm
<1>11. A = B <=> k = m /\ \A i \in 1 .. k : form[ElementAt(a, i)] = form[ElementAt(b, i)]
  <2>1. ASSUME A = B
        PROVE  k = m /\ \A i \in 1 .. k : form[ElementAt(a, i)] = form[ElementAt(b, i)]
    <3>1. DOMAIN A = 1 .. k /\ DOMAIN B = 1 .. m
      OBVIOUS
    <3>2. 1 .. k = 1 .. m
      BY <2>1, <3>1
    <3>3. k = m
      BY <3>2
    <3>4. \A i \in 1 .. k : A[i] = B[i]
      BY <2>1
    <3>5. \A i \in 1 .. k : A[i] = form[ElementAt(a, i)] /\ B[i] = form[ElementAt(b, i)]
      BY <3>3
    <3> HIDE DEF A, B
    <3> QED BY <3>3, <3>4, <3>5
  <2>2. ASSUME k = m, \A i \in 1 .. k : form[ElementAt(a, i)] = form[ElementAt(b, i)]
        PROVE  A = B
    BY <2>2, Zenon
  <2> QED BY <2>1, <2>2
<1> HIDE DEF A, B
<1>12. Form(form, a) = Form(form, b) <=> A = B
  BY <1>10
<1> QED BY <1>3, <1>9, <1>11, <1>12

-----------------------------------------------------------------------------
(* The comparison and the forms                                             *)

(* The same of structs. *)
LEMMA StructsAgree ==
  ASSUME NEW a \in WellFormedTypes, NEW b \in WellFormedTypes, a.tag = "Struct", b.tag = "Struct",
         NEW compare, NEW form,
         Agreement(compare, form, a, b)
  PROVE  Comparison(compare, a, b) = IF Form(form, a) = Form(form, b) THEN SAME ELSE DIFFERENT
<1>1. b \in SignatureTypes /\ "tag" \in DOMAIN b
  BY PartsOfWellFormed
<1>2. /\ Len(a.elements) \in Nat /\ DOMAIN a.elements = 1 .. Len(a.elements)
      /\ \A i \in DOMAIN a.elements : PartsOf(a)[i] = a.elements[i].type /\ PartsOf(a)[i] \in AllParts(a)
  BY WellFormedStruct
<1>3. /\ "elements" \in DOMAIN b /\ Len(b.elements) \in Nat /\ DOMAIN b.elements = 1 .. Len(b.elements)
      /\ \A i \in DOMAIN b.elements : PartsOf(b)[i] = b.elements[i].type /\ PartsOf(b)[i] \in AllParts(b)
  BY WellFormedStruct
<1>4. Comparison(compare, a, b) = IF a.name # b.name THEN DIFFERENT ELSE ElementsEqual(compare, a, b)
  BY <1>1, <1>3, StructComparison
<1>5. PICK c : c = a.elements
  OBVIOUS
<1>6. PICK d : d = b.elements
  OBVIOUS
<1>7. PICK k \in Nat : k = Len(c)
  BY <1>2, <1>5
<1>8. PICK m \in Nat : m = Len(d)
  BY <1>3, <1>6
<1>9. ElementsOutcome(compare, a, b)
  BY <1>2, ElementsCompare
<1>10. k = m => \A i \in 1 .. k : compare[<<PartsOf(a)[i], PartsOf(b)[i]>>]
                                  = IF form[c[i].type] = form[d[i].type] THEN SAME ELSE DIFFERENT
  BY <1>2, <1>3, <1>5, <1>6, <1>7, <1>8 DEF Agreement
<1>11. SAME # DIFFERENT
  BY DEF SAME, DIFFERENT
<1>12. ElementsEqual(compare, a, b) =
         IF k = m /\ \A i \in 1 .. k : c[i].name = d[i].name /\ form[c[i].type] = form[d[i].type]
         THEN SAME ELSE DIFFERENT
  BY <1>5, <1>6, <1>7, <1>8, <1>9, <1>10, <1>11 DEF ElementsOutcome
<1> DEFINE C == [i \in 1 .. k |-> [name |-> c[i].name, type |-> form[c[i].type]]]
           E == [i \in 1 .. m |-> [name |-> d[i].name, type |-> form[d[i].type]]]
<1>13. /\ Form(form, a) = [tag |-> "Struct", name |-> a.name, elements |-> C]
       /\ Form(form, b) = [tag |-> "Struct", name |-> b.name, elements |-> E]
  BY <1>2, <1>3, <1>5, <1>6, <1>7, <1>8 DEF Form
<1>14. C = E <=> k = m /\ \A i \in 1 .. k : c[i].name = d[i].name /\ form[c[i].type] = form[d[i].type]
  <2>1. ASSUME C = E
        PROVE  k = m /\ \A i \in 1 .. k : c[i].name = d[i].name /\ form[c[i].type] = form[d[i].type]
    <3>1. DOMAIN C = 1 .. k /\ DOMAIN E = 1 .. m
      OBVIOUS
    <3>2. 1 .. k = 1 .. m
      BY <2>1, <3>1
    <3>3. k = m
      BY <3>2
    <3>4. \A i \in 1 .. k : C[i] = E[i]
      BY <2>1
    <3>5. \A i \in 1 .. k : /\ C[i].name = c[i].name /\ C[i].type = form[c[i].type]
                            /\ E[i].name = d[i].name /\ E[i].type = form[d[i].type]
      BY <3>3
    <3> HIDE DEF C, E
    <3> QED BY <3>3, <3>4, <3>5
  <2>2. ASSUME k = m, \A i \in 1 .. k : c[i].name = d[i].name /\ form[c[i].type] = form[d[i].type]
        PROVE  C = E
    BY <2>2, Zenon
  <2> QED BY <2>1, <2>2
<1> HIDE DEF C, E
<1>15. Form(form, a) = Form(form, b) <=> a.name = b.name /\ C = E
  BY <1>13
<1> QED BY <1>4, <1>12, <1>14, <1>15

(* The same of aliases. *)
LEMMA AliasesAgree ==
  ASSUME NEW a \in WellFormedTypes, NEW b \in WellFormedTypes, a.tag = "Alias", b.tag = "Alias",
         NEW compare, NEW form,
         Agreement(compare, form, a, b)
  PROVE  Comparison(compare, a, b) = IF Form(form, a) = Form(form, b) THEN SAME ELSE DIFFERENT
<1>1. "tag" \in DOMAIN b
  BY PartsOfWellFormed
<1>2. /\ Part(a, "type") = a.type /\ a.type \in AllParts(a)
      /\ Part(b, "type") = b.type /\ b.type \in AllParts(b)
  BY WellFormedNest
<1>3. compare[<<Part(a, "type"), Part(b, "type")>>] = IF form[a.type] = form[b.type] THEN SAME ELSE DIFFERENT
  BY <1>2 DEF Agreement
<1>4. Comparison(compare, a, b) = IF a.name # b.name THEN DIFFERENT ELSE compare[<<Part(a, "type"), Part(b, "type")>>]
  BY <1>1, AliasComparison
<1>5. /\ Form(form, a) = [tag |-> "Alias", name |-> a.name, type |-> form[a.type]]
      /\ Form(form, b) = [tag |-> "Alias", name |-> b.name, type |-> form[b.type]]
  BY DEF Form
<1>6. Form(form, a) = Form(form, b) <=> a.name = b.name /\ form[a.type] = form[b.type]
  BY <1>5
<1> QED BY <1>3, <1>4, <1>6

(* The same of enums. *)
LEMMA EnumsAgree ==
  ASSUME NEW a \in WellFormedTypes, NEW b \in WellFormedTypes, a.tag = "Enum", b.tag = "Enum",
         NEW compare, NEW form
  PROVE  Comparison(compare, a, b) = IF Form(form, a) = Form(form, b) THEN SAME ELSE DIFFERENT
<1>1. \A t \in WellFormedTypes : t.tag = "Enum" => "names" \in DOMAIN t
  <2> SUFFICES ASSUME NEW t \in WellFormedTypes, t.tag = "Enum" PROVE "names" \in DOMAIN t
    OBVIOUS
  <2>1. PICK whole : whole = [u \in SignatureTypes |-> WellFormed(u)]
    OBVIOUS
  <2>2. Whole(whole, t)
    BY <2>1, WholeDefined DEF WellFormedTypes
  <2> QED BY <2>2 DEF Whole
<1>2. \A t \in WellFormedTypes : t.tag = "Enum" => "tag" \in DOMAIN t /\ t = [tag |-> "Enum", name |-> t.name, names |-> t.names]
  BY <1>1, PartsOfWellFormed, EncodingsAreShaped DEF Carries
<1>3. Comparison(compare, a, b) =
        IF a.name # b.name THEN DIFFERENT ELSE IF a.names = b.names THEN SAME ELSE DIFFERENT
  BY <1>1, <1>2, EnumComparison
<1>4. Form(form, a) = a /\ Form(form, b) = b
  BY DEF Form
<1>5. a = b <=> a.name = b.name /\ a.names = b.names
  <2>1. PICK p : p = [tag |-> "Enum", name |-> a.name, names |-> a.names]
    OBVIOUS
  <2>2. PICK q : q = [tag |-> "Enum", name |-> b.name, names |-> b.names]
    OBVIOUS
  <2>3. p = a /\ q = b
    BY <1>2, <2>1, <2>2
  <2>4. a.name = b.name /\ a.names = b.names => p = q
    BY <2>1, <2>2
  <2> QED BY <2>3, <2>4
<1> QED BY <1>3, <1>4, <1>5

(* The same of leaves. *)
LEMMA LeavesAgree ==
  ASSUME NEW a \in WellFormedTypes, NEW b \in WellFormedTypes, a.tag \in Leaves, b.tag = a.tag,
         NEW compare, NEW form
  PROVE  Comparison(compare, a, b) = IF Form(form, a) = Form(form, b) THEN SAME ELSE DIFFERENT
<1>1. /\ a \in SignatureTypes /\ "tag" \in DOMAIN a
      /\ b \in SignatureTypes /\ "tag" \in DOMAIN b
  BY PartsOfWellFormed
<1>2. a.tag \notin {"Vector", "Tuple", "Struct", "Alias", "Contract"}
  BY DEF Leaves, PLAIN_TAGS
<1>3. Form(form, a) = a /\ Form(form, b) = b
  BY <1>2 DEF Form
<1>4. Comparison(compare, a, b) =
        IF /\ a.tag = "Uint" => a.maxval = b.maxval
           /\ a.tag = "Bytes" => a.length = b.length
           /\ a.tag = "Opaque" => a.tsType = b.tsType
        THEN SAME ELSE DIFFERENT
  BY <1>1, LeafComparison
<1>5. CASE a.tag = "Uint"
  <2>1. a = [tag |-> "Uint", maxval |-> a.maxval] /\ b = [tag |-> "Uint", maxval |-> b.maxval]
    BY <1>1, <1>5, EncodingsAreShaped
  <2>2. a = b <=> a.maxval = b.maxval
    BY <2>1, Zenon
  <2> QED BY <1>3, <1>4, <1>5, <2>2
<1>6. CASE a.tag = "Bytes"
  <2>1. a = [tag |-> "Bytes", length |-> a.length] /\ b = [tag |-> "Bytes", length |-> b.length]
    BY <1>1, <1>6, EncodingsAreShaped
  <2>2. a = b <=> a.length = b.length
    BY <2>1, Zenon
  <2> QED BY <1>3, <1>4, <1>6, <2>2
<1>7. CASE a.tag = "Opaque"
  <2>1. a = [tag |-> "Opaque", tsType |-> a.tsType] /\ b = [tag |-> "Opaque", tsType |-> b.tsType]
    BY <1>1, <1>7, EncodingsAreShaped
  <2>2. a = b <=> a.tsType = b.tsType
    BY <2>1, Zenon
  <2> QED BY <1>3, <1>4, <1>7, <2>2
<1>8. CASE a.tag \in PLAIN_TAGS
  <2>1. a = [tag |-> a.tag] /\ b = [tag |-> b.tag]
    BY <1>1, <1>8, EncodingsAreShaped
  <2>2. a = b
    BY <2>1, Zenon
  <2>3. a.tag \notin {"Uint", "Bytes", "Opaque"}
    BY <1>8 DEF PLAIN_TAGS
  <2> QED BY <1>3, <1>4, <2>2, <2>3
<1> QED BY <1>5, <1>6, <1>7, <1>8 DEF Leaves

(* The types at the positions of two circuits of contract types.            *)
PositionsAgree(compare, form, c, d) ==
  \A x \in ToSet(TypesOf(c)) : \A y \in ToSet(TypesOf(d)) :
    compare[<<x, y>>] = IF form[x] = form[y] THEN SAME ELSE DIFFERENT

DeclaredForm(form, d) ==
  [argumentTypes |-> [i \in DOMAIN d.argumentTypes |-> form[d.argumentTypes[i]]],
   resultType |-> form[d.resultType]]

(* The same of two circuits: arguments and result. *)
LEMMA DeclarationsAgree ==
  ASSUME NEW c, NEW d, "argumentTypes" \in DOMAIN c, "argumentTypes" \in DOMAIN d,
         c.argumentTypes \in Seq(SignatureTypes), d.argumentTypes \in Seq(SignatureTypes),
         Part(c, "resultType") = c.resultType, Part(d, "resultType") = d.resultType,
         NEW compare, NEW form,
         PositionsAgree(compare, form, c, d)
  PROVE  TypesEqual(compare, TypesOf(c), TypesOf(d)) =
           IF DeclaredForm(form, c) = DeclaredForm(form, d) THEN SAME ELSE DIFFERENT
<1>1. PICK x : x = c.argumentTypes
  OBVIOUS
<1>2. PICK y : y = d.argumentTypes
  OBVIOUS
<1>3. PICK s : s = TypesOf(c)
  OBVIOUS
<1>4. PICK t : t = TypesOf(d)
  OBVIOUS
<1>5. PICK k \in Nat : k = Len(x) /\ DOMAIN x = 1 .. k
  BY <1>1
<1>6. PICK m \in Nat : m = Len(y) /\ DOMAIN y = 1 .. m
  BY <1>2
<1>7. /\ DOMAIN s = 1 .. k + 1 /\ Len(s) = k + 1
      /\ \A i \in 1 .. k : s[i] = x[i]
      /\ s[k + 1] = c.resultType
  <2>1. /\ DOMAIN TypesOf(c) = 1 .. Len(c.argumentTypes) + 1
        /\ Len(TypesOf(c)) = Len(c.argumentTypes) + 1
        /\ \A i \in 1 .. Len(c.argumentTypes) : TypesOf(c)[i] = c.argumentTypes[i]
        /\ TypesOf(c)[Len(c.argumentTypes) + 1] = Part(c, "resultType")
    BY ArgumentsAndResult
  <2> QED BY <1>1, <1>3, <1>5, <2>1
<1>8. /\ DOMAIN t = 1 .. m + 1 /\ Len(t) = m + 1
      /\ \A i \in 1 .. m : t[i] = y[i]
      /\ t[m + 1] = d.resultType
  <2>1. /\ DOMAIN TypesOf(d) = 1 .. Len(d.argumentTypes) + 1
        /\ Len(TypesOf(d)) = Len(d.argumentTypes) + 1
        /\ \A i \in 1 .. Len(d.argumentTypes) : TypesOf(d)[i] = d.argumentTypes[i]
        /\ TypesOf(d)[Len(d.argumentTypes) + 1] = Part(d, "resultType")
    BY ArgumentsAndResult
  <2> QED BY <1>2, <1>4, <1>6, <2>1
<1>9. PICK n \in Nat : n = k + 1
  OBVIOUS
<1>10. k = m => \A i \in 1 .. n : compare[<<s[i], t[i]>>] = IF form[s[i]] = form[t[i]] THEN SAME ELSE DIFFERENT
  <2>1. (\A i \in DOMAIN s : s[i] \in ToSet(s)) /\ \A i \in DOMAIN t : t[i] \in ToSet(t)
    BY DEF ToSet
  <2>2. k = m => \A i \in 1 .. n : s[i] \in ToSet(TypesOf(c)) /\ t[i] \in ToSet(TypesOf(d))
    BY <1>3, <1>4, <1>7, <1>8, <1>9, <2>1
  <2> QED BY <2>2, Zenon DEF PositionsAgree
<1>11. TypesOutcome(compare, n, s, t)
  BY <1>7, <1>9, TypesCompare
<1>12. SAME # DIFFERENT
  BY DEF SAME, DIFFERENT
<1>13. Len(t) = n <=> k = m
  BY <1>8, <1>9
<1>14. TypesEqual(compare, s, t) = IF k = m /\ \A i \in 1 .. n : form[s[i]] = form[t[i]] THEN SAME ELSE DIFFERENT
  BY <1>10, <1>11, <1>12, <1>13 DEF TypesOutcome
<1>15. k = m => ((\A i \in 1 .. n : form[s[i]] = form[t[i]]) <=>
                   /\ \A i \in 1 .. k : form[x[i]] = form[y[i]]
                   /\ form[c.resultType] = form[d.resultType])
  <2> SUFFICES ASSUME k = m
               PROVE  (\A i \in 1 .. n : form[s[i]] = form[t[i]]) <=>
                        /\ \A i \in 1 .. k : form[x[i]] = form[y[i]]
                        /\ form[c.resultType] = form[d.resultType]
    OBVIOUS
  <2>1. \A i \in 1 .. n : i \in 1 .. k \/ i = n
    BY <1>9
  <2>2. n \in 1 .. n /\ \A i \in 1 .. k : i \in 1 .. n
    BY <1>9
  <2>3. \A i \in 1 .. k : s[i] = x[i] /\ t[i] = y[i]
    BY <1>7, <1>8
  <2>4. s[n] = c.resultType /\ t[n] = d.resultType
    BY <1>7, <1>8, <1>9
  <2> QED BY <2>1, <2>2, <2>3, <2>4
<1> DEFINE X == [i \in DOMAIN x |-> form[x[i]]]
           Y == [i \in DOMAIN y |-> form[y[i]]]
<1>16. X = Y <=> k = m /\ \A i \in 1 .. k : form[x[i]] = form[y[i]]
  <2>1. ASSUME X = Y
        PROVE  k = m /\ \A i \in 1 .. k : form[x[i]] = form[y[i]]
    <3>1. DOMAIN X = 1 .. k /\ DOMAIN Y = 1 .. m
      BY <1>5, <1>6
    <3>2. 1 .. k = 1 .. m
      BY <2>1, <3>1
    <3>3. k = m
      BY <3>2
    <3>4. \A i \in 1 .. k : X[i] = Y[i]
      BY <2>1
    <3>5. \A i \in 1 .. k : X[i] = form[x[i]] /\ Y[i] = form[y[i]]
      BY <1>5, <1>6, <3>3
    <3> HIDE DEF X, Y
    <3> QED BY <3>3, <3>4, <3>5
  <2>2. ASSUME k = m, \A i \in 1 .. k : form[x[i]] = form[y[i]]
        PROVE  X = Y
    <3>1. DOMAIN x = DOMAIN y /\ \A i \in DOMAIN x : form[x[i]] = form[y[i]]
      BY <1>5, <1>6, <2>2
    <3> QED BY <3>1, Zenon
  <2> QED BY <2>1, <2>2
<1>17. /\ DeclaredForm(form, c) = [argumentTypes |-> X, resultType |-> form[c.resultType]]
       /\ DeclaredForm(form, d) = [argumentTypes |-> Y, resultType |-> form[d.resultType]]
  BY <1>1, <1>2 DEF DeclaredForm
<1> HIDE DEF X, Y
<1>18. TypesEqual(compare, s, t) = IF X = Y /\ form[c.resultType] = form[d.resultType] THEN SAME ELSE DIFFERENT
  BY <1>14, <1>15, <1>16
<1>19. DeclaredForm(form, c) = DeclaredForm(form, d) <=> X = Y /\ form[c.resultType] = form[d.resultType]
  BY <1>17
<1> QED BY <1>3, <1>4, <1>18, <1>19, Zenon

(* The same of contract types. *)
LEMMA ContractsAgree ==
  ASSUME NEW a \in WellFormedTypes, NEW b \in WellFormedTypes, a.tag = "Contract",
         b.tag = "Contract", NEW compare, NEW form,
         Agreement(compare, form, a, b)
  PROVE  Comparison(compare, a, b) = IF Form(form, a) = Form(form, b) THEN SAME ELSE DIFFERENT
<1>1. /\ a \in SignatureTypes /\ "tag" \in DOMAIN a
      /\ b \in SignatureTypes /\ "tag" \in DOMAIN b
  BY PartsOfWellFormed
<1>2. PICK c : c = a.circuits
  OBVIOUS
<1>3. PICK d : d = b.circuits
  OBVIOUS
<1>4. /\ "circuits" \in DOMAIN a /\ WholeDescriptor(c)
      /\ \A n \in DOMAIN c : /\ "argumentTypes" \in DOMAIN c[n]
                             /\ c[n].argumentTypes \in Seq(SignatureTypes)
                             /\ Part(c[n], "resultType") = c[n].resultType
  BY <1>2, WellFormedContract
<1>5. /\ "circuits" \in DOMAIN b /\ WholeDescriptor(d)
      /\ \A n \in DOMAIN d : /\ "argumentTypes" \in DOMAIN d[n]
                             /\ d[n].argumentTypes \in Seq(SignatureTypes)
                             /\ Part(d[n], "resultType") = d[n].resultType
  BY <1>3, WellFormedContract
<1>6. Comparison(compare, a, b) = ContractCircuitsEqual(compare, c, d)
  BY <1>1, <1>2, <1>3, <1>5, ContractComparison
<1>7. DeclaresCircuits(c)
  BY <1>4 DEF DeclaresCircuits
<1>8. ASSUME NEW n \in DOMAIN c, n \in DOMAIN d
      PROVE  TypesEqual(compare, TypesOf(c[n]), TypesOf(d[n])) =
               IF DeclaredForm(form, c[n]) = DeclaredForm(form, d[n]) THEN SAME ELSE DIFFERENT
  <2>1. PICK e : e = c[n]
    OBVIOUS
  <2>2. PICK f : f = d[n]
    OBVIOUS
  <2>3. ToSet(TypesOf(e)) \subseteq AllParts(a) /\ ToSet(TypesOf(f)) \subseteq AllParts(b)
    <3>1. /\ AllParts(a) = UNION {ToSet(TypesOf(c[k])) : k \in DOMAIN c}
          /\ AllParts(b) = UNION {ToSet(TypesOf(d[k])) : k \in DOMAIN d}
      BY <1>1, <1>2, <1>3, <1>4, <1>5, PartsFacts
    <3> QED BY <1>8, <2>1, <2>2, <3>1
  <2>4. PositionsAgree(compare, form, e, f)
    BY <2>3, Zenon DEF Agreement, PositionsAgree
  <2>5. /\ "argumentTypes" \in DOMAIN e /\ e.argumentTypes \in Seq(SignatureTypes) /\ Part(e, "resultType") = e.resultType
        /\ "argumentTypes" \in DOMAIN f /\ f.argumentTypes \in Seq(SignatureTypes) /\ Part(f, "resultType") = f.resultType
    BY <1>4, <1>5, <1>8, <2>1, <2>2
  <2>6. TypesEqual(compare, TypesOf(e), TypesOf(f)) =
          IF DeclaredForm(form, e) = DeclaredForm(form, f) THEN SAME ELSE DIFFERENT
    BY <2>4, <2>5, DeclarationsAgree
  <2> QED BY <2>1, <2>2, <2>6
<1> DEFINE C == [n \in DOMAIN c |-> DeclaredForm(form, c[n])]
           E == [n \in DOMAIN d |-> DeclaredForm(form, d[n])]
<1>9. /\ Form(form, a) = [tag |-> "Contract", circuits |-> C]
      /\ Form(form, b) = [tag |-> "Contract", circuits |-> E]
  BY <1>2, <1>3 DEF Form, DeclaredForm
<1>10. Form(form, a) = Form(form, b) <=> C = E
  <2> HIDE DEF C, E
  <2> QED BY <1>9
<1>11. C = E <=> DOMAIN c = DOMAIN d /\ \A n \in DOMAIN c : DeclaredForm(form, c[n]) = DeclaredForm(form, d[n])
  <2>1. ASSUME C = E
        PROVE  DOMAIN c = DOMAIN d /\ \A n \in DOMAIN c : DeclaredForm(form, c[n]) = DeclaredForm(form, d[n])
    <3>1. DOMAIN C = DOMAIN c /\ DOMAIN E = DOMAIN d
      OBVIOUS
    <3>2. DOMAIN c = DOMAIN d
      BY <2>1, <3>1
    <3>3. \A n \in DOMAIN c : C[n] = DeclaredForm(form, c[n]) /\ E[n] = DeclaredForm(form, d[n])
      BY <3>2
    <3> HIDE DEF C, E
    <3> QED BY <2>1, <3>2, <3>3
  <2>2. ASSUME DOMAIN c = DOMAIN d,
               \A n \in DOMAIN c : DeclaredForm(form, c[n]) = DeclaredForm(form, d[n])
        PROVE  C = E
    BY <2>2, Zenon
  <2> QED BY <2>1, <2>2
<1> HIDE DEF C, E
<1>12. /\ ContractCircuitsEqual(compare, c, d) = SAME <=>
            /\ DOMAIN c = DOMAIN d
            /\ \A n \in DOMAIN c : /\ "argumentTypes" \in DOMAIN d[n]
                                   /\ TypesEqual(compare, TypesOf(c[n]), TypesOf(d[n])) = SAME
       /\ \/ ContractCircuitsEqual(compare, c, d) \in {SAME, DIFFERENT}
          \/ \E n \in DOMAIN c \cap DOMAIN d :
               ContractCircuitsEqual(compare, c, d) =
                 IF "argumentTypes" \notin DOMAIN d[n] THEN THROWS
                 ELSE TypesEqual(compare, TypesOf(c[n]), TypesOf(d[n]))
  BY <1>5, <1>7, CircuitsCompare
<1>13. SAME # DIFFERENT
  BY DEF SAME, DIFFERENT
<1>14. ContractCircuitsEqual(compare, c, d) = SAME <=> C = E
  BY <1>5, <1>8, <1>11, <1>12, <1>13
<1>15. ContractCircuitsEqual(compare, c, d) \in {SAME, DIFFERENT}
  BY <1>5, <1>8, <1>12
<1> QED BY <1>6, <1>10, <1>14, <1>15

(* Types that agree on their parts agree as their forms do.                 *)
LEMMA CompareAgrees ==
  ASSUME NEW a \in WellFormedTypes, NEW b \in WellFormedTypes, NEW compare, NEW form,
         Agreement(compare, form, a, b)
  PROVE  Comparison(compare, a, b) = IF Form(form, a) = Form(form, b) THEN SAME ELSE DIFFERENT
<1>1. "tag" \in DOMAIN b
  BY PartsOfWellFormed
<1>2. CASE IsSequence(a) /\ IsSequence(b)
  BY <1>2, SequencesAgree
<1>3. CASE IsSequence(a) /\ ~IsSequence(b)
  <2>1. Form(form, a).tag = "Tuple" /\ Form(form, b).tag = b.tag
    BY <1>3, TagOfForm
  <2>2. Form(form, a) # Form(form, b)
    BY <1>3, <2>1 DEF IsSequence
  <2>3. Comparison(compare, a, b) = DIFFERENT
    BY <1>1, <1>3, ComparisonAcrossTags
  <2> QED BY <2>2, <2>3
<1>4. CASE ~IsSequence(a) /\ a.tag # b.tag
  <2>1. Form(form, a).tag = a.tag /\ Form(form, b).tag \in {"Tuple", b.tag}
    BY <1>4, TagOfForm
  <2>2. Form(form, a) # Form(form, b)
    BY <1>4, <2>1 DEF IsSequence
  <2>3. Comparison(compare, a, b) = DIFFERENT
    BY <1>1, <1>4, ComparisonAcrossTags
  <2> QED BY <2>2, <2>3
<1>5. CASE ~IsSequence(a) /\ a.tag = b.tag
  <2>1. CASE a.tag = "Struct"
    BY <1>5, <2>1, StructsAgree
  <2>2. CASE a.tag = "Alias"
    BY <1>5, <2>2, AliasesAgree
  <2>3. CASE a.tag = "Contract"
    BY <1>5, <2>3, ContractsAgree
  <2>4. CASE a.tag = "Enum"
    BY <1>5, <2>4, EnumsAgree
  <2>5. CASE a.tag \in Leaves
    BY <1>5, <2>5, LeavesAgree
  <2> QED BY <1>5, <2>1, <2>2, <2>3, <2>4, <2>5, KnownTag
<1> QED BY <1>2, <1>3, <1>4, <1>5

(* The comparison tells two encodings apart exactly when their forms do.    *)
LEMMA ComparisonDecides ==
  \A a \in WellFormedTypes : \A b \in WellFormedTypes :
    SignatureTypesEqual(a, b) = IF Normal(a) = Normal(b) THEN SAME ELSE DIFFERENT
<1> DEFINE Decides(a, b) == SignatureTypesEqual(a, b) = IF Normal(a) = Normal(b) THEN SAME ELSE DIFFERENT
           bad == {n \in Nat : \E a, b \in WellFormedTypes : n = Heights[a] /\ ~Decides(a, b)}
<1>1. bad = {}
  <2> SUFFICES ASSUME bad # {} PROVE FALSE
    OBVIOUS
  <2>1. PICK n \in bad : \A i \in bad : n <= i
    BY Least
  <2>2. PICK a \in WellFormedTypes, b \in WellFormedTypes : n = Heights[a] /\ ~Decides(a, b)
    BY <2>1
  <2>3. PICK compare : compare = [p \in WellFormedTypes \X SignatureTypes |-> SignatureTypesEqual(p[1], p[2])]
    OBVIOUS
  <2>4. PICK form : form = [u \in WellFormedTypes |-> Normal(u)]
    OBVIOUS
  <2>5. ASSUME NEW x \in AllParts(a), NEW y \in AllParts(b)
        PROVE  compare[<<x, y>>] = IF form[x] = form[y] THEN SAME ELSE DIFFERENT
    <3>1. /\ x \in WellFormedTypes /\ Heights[x] \in Nat /\ Heights[a] \in Nat /\ Heights[x] < Heights[a]
          /\ y \in WellFormedTypes /\ y \in SignatureTypes
      BY WellFormedHeights DEF WellFormedTypes
    <3>2. Heights[x] \notin bad
      <4>1. ~(n <= Heights[x])
        BY <2>2, <3>1
      <4> HIDE DEF bad
      <4> QED BY <2>1, <4>1
    <3>3. Decides(x, y)
      <4> HIDE DEF Decides
      <4> QED BY <3>1, <3>2
    <3>4. compare[<<x, y>>] = SignatureTypesEqual(x, y)
      <4>1. PICK p : p = <<x, y>>
        OBVIOUS
      <4>2. p \in WellFormedTypes \X SignatureTypes /\ p[1] = x /\ p[2] = y
        BY <3>1, <4>1
      <4> QED BY <2>3, <4>1, <4>2
    <3>5. form[x] = Normal(x) /\ form[y] = Normal(y)
      BY <2>4, <3>1
    <3> QED BY <3>3, <3>4, <3>5
  <2>6. Agreement(compare, form, a, b)
    BY <2>5 DEF Agreement
  <2>7. Comparison(compare, a, b) = IF Form(form, a) = Form(form, b) THEN SAME ELSE DIFFERENT
    BY <2>6, CompareAgrees
  <2>8. b \in SignatureTypes
    BY DEF WellFormedTypes
  <2>9. SignatureTypesEqual(a, b) = Comparison(compare, a, b)
    BY <2>3, <2>8, CompareDefined
  <2>10. Normal(a) = Form(form, a) /\ Normal(b) = Form(form, b)
    BY <2>4, FormDefined
  <2> QED BY <2>2, <2>7, <2>9, <2>10
<1> HIDE DEF Decides
<1>2. \A a \in WellFormedTypes : Heights[a] \in Nat
  BY WellFormedHeights
<1>3. \A a \in WellFormedTypes : \A b \in WellFormedTypes : Decides(a, b)
  BY <1>1, <1>2
<1> QED BY <1>3 DEF Decides

-----------------------------------------------------------------------------
(* What conformance answers                                                 *)

(* What a position answers: unreadable, different, or conformant. *)
LEMMA PositionDecides ==
  ASSUME NEW id, NEW index, NEW declared \in WellFormedTypes, NEW implemented \in SignatureTypes,
         NEW rule
  PROVE  CheckPosition(id, index, declared, implemented, rule) =
           IF ~WellFormed(implemented) THEN Unreadable(id, FirstUnreadableTag(implemented), index)
           ELSE IF Normal(declared) # Normal(implemented) THEN Violation(id, rule, index)
           ELSE Conformant
<1> DEFINE tag == FirstUnreadableTag(implemented)
           comparison == SignatureTypesEqual(declared, implemented)
<1>1. tag = READABLE <=> WellFormed(implemented)
  BY ReadableIsWellFormed
<1>2. WellFormed(implemented) => comparison = IF Normal(declared) = Normal(implemented) THEN SAME ELSE DIFFERENT
  BY ComparisonDecides DEF WellFormedTypes
<1>3. CheckPosition(id, index, declared, implemented, rule) =
        CASE tag # READABLE -> Unreadable(id, tag, index)
          [] tag = READABLE /\ comparison = DIFFERENT -> Violation(id, rule, index)
          [] tag = READABLE /\ comparison = THROWS    -> Threw
          [] OTHER -> Conformant
  BY Zenon DEF CheckPosition
<1>4. SAME # DIFFERENT /\ SAME # THROWS /\ DIFFERENT # THROWS
  BY DEF SAME, DIFFERENT, THROWS
<1>5. FirstUnreadableTag(implemented) = tag
  OBVIOUS
<1> HIDE DEF tag, comparison
<1>6. CASE ~WellFormed(implemented)
  BY <1>1, <1>3, <1>5, <1>6
<1>7. CASE WellFormed(implemented) /\ Normal(declared) = Normal(implemented)
  BY <1>1, <1>2, <1>3, <1>4, <1>7
<1>8. CASE WellFormed(implemented) /\ Normal(declared) # Normal(implemented)
  BY <1>1, <1>2, <1>3, <1>4, <1>8
<1> QED BY <1>6, <1>7, <1>8

(* What a refusal may say of a circuit.                                     *)
TypeAt(c, i) == IF i = RESULT THEN Part(c, "resultType") ELSE c.argumentTypes[i]

Comparable(declared, implemented) ==
  implemented.provable /\ Len(implemented.argumentTypes) = Len(declared.argumentTypes)

ViolationIn(f, declared, implementation) ==
  \/ f.check = "Existence" /\ f.circuitId \notin DOMAIN implementation
  \/ f.check = "Provability" /\ ~implementation[f.circuitId].provable
  \/ /\ f.check = "Arity" /\ implementation[f.circuitId].provable
     /\ ~Comparable(declared, implementation[f.circuitId])
  \/ /\ f.check \in {"ArgumentType", "ResultType"} /\ Comparable(declared, implementation[f.circuitId])
     /\ WellFormed(TypeAt(implementation[f.circuitId], f.argumentIndex))
     /\ Normal(TypeAt(implementation[f.circuitId], f.argumentIndex)) # Normal(TypeAt(declared, f.argumentIndex))

UnreadableIn(f, declared, implementation) ==
  \/ "argumentTypes" \notin DOMAIN implementation[f.circuitId]
  \/ /\ Comparable(declared, implementation[f.circuitId])
     /\ ~WellFormed(TypeAt(implementation[f.circuitId], f.argumentIndex))

FaultOf(f, id, declared, implementation) ==
  /\ f.circuitId = id
  /\ \/ f.outcome = "Violation" /\ ViolationIn(f, declared, implementation)
     \/ f.outcome = "Unreadable" /\ UnreadableIn(f, declared, implementation)

DeclaredCircuit(d) ==
  /\ {"argumentTypes", "resultType"} \subseteq DOMAIN d
  /\ d.argumentTypes \in Seq(WellFormedTypes) /\ d.resultType \in WellFormedTypes

ImplementedCircuit(c) ==
  /\ "argumentTypes" \in DOMAIN c => c.argumentTypes \in Seq(SignatureTypes)
  /\ Part(c, "resultType") \in SignatureTypes

(* What is not a type is not well formed. *)
LEMMA NotATypeIsMalformed == ~WellFormed(NotAType)
<1>1. NotAType \in SignatureTypes /\ "tag" \notin DOMAIN NotAType
  BY EncodingsAreTrees DEF NotAType
<1> QED BY <1>1, WholeDefined DEF Whole

(* A circuit conforms exactly if the module implements it as declared, and a fault names
   what is wrong with it. *)
LEMMA CircuitDecides ==
  ASSUME NEW id, NEW declared, DeclaredCircuit(declared), NEW implementation,
         id \in DOMAIN implementation => ImplementedCircuit(implementation[id])
  PROVE  /\ CheckCircuit(id, declared, implementation) = Conformant <=> Implements(implementation, id, declared)
         /\ CheckCircuit(id, declared, implementation) # Conformant =>
              FaultOf(CheckCircuit(id, declared, implementation), id, declared, implementation)
<1>1. CASE id \notin DOMAIN implementation
  <2>1. PICK f : f = Violation(id, "Existence", RESULT)
    OBVIOUS
  <2>2. CheckCircuit(id, declared, implementation) = f
    BY <1>1, <2>1 DEF CheckCircuit
  <2>3. f.outcome = "Violation" /\ f.circuitId = id /\ f.check = "Existence"
    BY <2>1 DEF Violation
  <2>4. f # Conformant /\ FaultOf(f, id, declared, implementation)
    BY <1>1, <2>3 DEF FaultOf, ViolationIn, Conformant
  <2> QED BY <1>1, <2>2, <2>4 DEF Implements
<1>2. CASE id \in DOMAIN implementation
  <2>1. PICK c : c = implementation[id]
    OBVIOUS
  <2>2. CASE "argumentTypes" \notin DOMAIN c
    <3>1. PICK f : f = Unreadable(id, MALFORMED, RESULT)
      OBVIOUS
    <3>2. CheckCircuit(id, declared, implementation) = f
      BY <1>2, <2>1, <2>2, <3>1 DEF CheckCircuit
    <3>3. f.outcome = "Unreadable" /\ f.circuitId = id
      BY <3>1 DEF Unreadable
    <3>4. f # Conformant /\ FaultOf(f, id, declared, implementation)
      BY <2>1, <2>2, <3>3 DEF FaultOf, UnreadableIn, Conformant
    <3> QED BY <2>1, <2>2, <3>2, <3>4 DEF Implements
  <2>3. CASE "argumentTypes" \in DOMAIN c /\ ~c.provable
    <3>1. PICK f : f = Violation(id, "Provability", RESULT)
      OBVIOUS
    <3>2. CheckCircuit(id, declared, implementation) = f
      BY <1>2, <2>1, <2>3, <3>1 DEF CheckCircuit
    <3>3. f.outcome = "Violation" /\ f.circuitId = id /\ f.check = "Provability"
      BY <3>1 DEF Violation
    <3>4. f # Conformant /\ FaultOf(f, id, declared, implementation)
      BY <2>1, <2>3, <3>3 DEF FaultOf, ViolationIn, Conformant
    <3> QED BY <2>1, <2>3, <3>2, <3>4 DEF Implements
  <2>4. CASE "argumentTypes" \in DOMAIN c /\ c.provable /\ Len(declared.argumentTypes) # Len(c.argumentTypes)
    <3>1. PICK f : f = Violation(id, "Arity", RESULT)
      OBVIOUS
    <3>2. CheckCircuit(id, declared, implementation) = f
      BY <1>2, <2>1, <2>4, <3>1 DEF CheckCircuit
    <3>3. f.outcome = "Violation" /\ f.circuitId = id /\ f.check = "Arity"
      BY <3>1 DEF Violation
    <3>4. f # Conformant /\ FaultOf(f, id, declared, implementation)
      BY <2>1, <2>4, <3>3 DEF FaultOf, ViolationIn, Comparable, Conformant
    <3> QED BY <2>1, <2>4, <3>2, <3>4 DEF Implements
  <2>5. CASE "argumentTypes" \in DOMAIN c /\ c.provable /\ Len(declared.argumentTypes) = Len(c.argumentTypes)
    <3>1. PICK x \in Seq(WellFormedTypes) : x = declared.argumentTypes
      BY DEF DeclaredCircuit
    <3>2. PICK y \in Seq(SignatureTypes) : y = c.argumentTypes
      BY <1>2, <2>1, <2>5 DEF ImplementedCircuit
    <3>3. PICK k \in Nat : k = Len(x) /\ k = Len(y) /\ DOMAIN x = 1 .. k /\ DOMAIN y = 1 .. k
      BY <2>5, <3>1, <3>2
    <3>4. PICK r \in WellFormedTypes : r = declared.resultType /\ r = Part(declared, "resultType")
      BY DEF DeclaredCircuit, Part
    <3>5. PICK q \in SignatureTypes : q = Part(c, "resultType")
      BY <1>2, <2>1 DEF ImplementedCircuit
    <3> DEFINE arguments == [i \in DOMAIN x |-> CheckPosition(id, i, x[i], y[i], "ArgumentType")]
               result == CheckPosition(id, RESULT, r, q, "ResultType")
               outcomes == arguments \o <<result>>
    <3>6. CheckCircuit(id, declared, implementation) = FirstBad(outcomes, Conformant)
      BY <1>2, <2>1, <2>5, <3>1, <3>2, <3>4, <3>5 DEF CheckCircuit
    <3>7. DOMAIN arguments = 1 .. k /\ \A i \in 1 .. k : arguments[i] = CheckPosition(id, i, x[i], y[i], "ArgumentType")
      BY <3>3
    <3>8. PICK n \in Nat : n = k + 1
      OBVIOUS
    <3> HIDE DEF arguments
    <3>9. /\ DOMAIN outcomes = 1 .. n
          /\ \A i \in 1 .. k : outcomes[i] = arguments[i]
          /\ outcomes[n] = result
      BY <3>7, <3>8
    <3> HIDE DEF outcomes
    (* The type a position declares, the one it has, and what is said of them. *)
    <3> DEFINE R(i) == IF i = RESULT THEN r ELSE x[i]
               Q(i) == IF i = RESULT THEN q ELSE y[i]
               rule(i) == IF i = RESULT THEN "ResultType" ELSE "ArgumentType"
               of(i) == CheckPosition(id, i, R(i), Q(i), rule(i))
               good(i) == WellFormed(Q(i)) /\ Normal(R(i)) = Normal(Q(i))
    <3>10. \A i \in 0 .. k : R(i) \in WellFormedTypes /\ Q(i) \in SignatureTypes
      BY <3>3 DEF RESULT
    <3>11. \A i \in 0 .. k : of(i) = IF ~WellFormed(Q(i)) THEN Unreadable(id, FirstUnreadableTag(Q(i)), i)
                                     ELSE IF Normal(R(i)) # Normal(Q(i)) THEN Violation(id, rule(i), i)
                                     ELSE Conformant
      <4> HIDE DEF R, Q, rule
      <4> QED BY <3>10, PositionDecides
    <3>12. (\A i \in 1 .. k : outcomes[i] = of(i)) /\ outcomes[n] = of(RESULT)
      BY <3>7, <3>9 DEF RESULT
    <3>13. \A i \in 0 .. k : TypeAt(declared, i) = R(i) /\ TypeAt(c, i) = Q(i)
      BY <3>1, <3>2, <3>4, <3>5 DEF TypeAt
    <3>14. /\ Comparable(declared, c)
           /\ \A i \in 0 .. k : rule(i) \in {"ArgumentType", "ResultType"}
      BY <2>5 DEF Comparable
    <3> HIDE DEF R, Q, rule, of, result
    <3>15. ASSUME NEW i \in 0 .. k
           PROVE  /\ of(i) = Conformant <=> good(i)
                  /\ of(i) # Conformant => FaultOf(of(i), id, declared, implementation)
      <4>1. CASE ~WellFormed(Q(i))
        <5>1. PICK f : f = Unreadable(id, FirstUnreadableTag(Q(i)), i)
          OBVIOUS
        <5>2. of(i) = f
          BY <3>11, <4>1, <5>1
        <5>3. f.outcome = "Unreadable" /\ f.circuitId = id /\ f.argumentIndex = i
          BY <5>1 DEF Unreadable
        <5>4. f # Conformant
          BY <5>3 DEF Conformant
        <5>5. UnreadableIn(f, declared, implementation)
          BY <2>1, <3>13, <3>14, <4>1, <5>3 DEF UnreadableIn
        <5>6. FaultOf(f, id, declared, implementation)
          BY <5>3, <5>5 DEF FaultOf
        <5> QED BY <4>1, <5>2, <5>4, <5>6
      <4>2. CASE WellFormed(Q(i)) /\ Normal(R(i)) # Normal(Q(i))
        <5>1. PICK f : f = Violation(id, rule(i), i)
          OBVIOUS
        <5>2. of(i) = f
          BY <3>11, <4>2, <5>1
        <5>3. f.outcome = "Violation" /\ f.circuitId = id /\ f.argumentIndex = i /\ f.check = rule(i)
          BY <5>1 DEF Violation
        <5>4. f # Conformant
          BY <5>3 DEF Conformant
        <5>5. f.check \in {"ArgumentType", "ResultType"}
          BY <3>14, <5>3
        <5>6. ViolationIn(f, declared, implementation)
          BY <2>1, <3>13, <3>14, <4>2, <5>3, <5>5 DEF ViolationIn
        <5>7. FaultOf(f, id, declared, implementation)
          BY <5>3, <5>6 DEF FaultOf
        <5> QED BY <4>2, <5>2, <5>4, <5>7
      <4>3. CASE WellFormed(Q(i)) /\ Normal(R(i)) = Normal(Q(i))
        BY <3>11, <4>3
      <4> QED BY <4>1, <4>2, <4>3
    <3>16. Implements(implementation, id, declared) <=> \A i \in 0 .. k : good(i)
      <4>1. WellFormed(q) => "resultType" \in DOMAIN c
        BY <3>5, NotATypeIsMalformed DEF Part
      <4>2. "resultType" \in DOMAIN c => q = c.resultType
        BY <3>5 DEF Part
      <4>3. Q(RESULT) = q /\ RESULT \in 0 .. k
        BY DEF Q, RESULT
      <4> DEFINE at(e, i) == IF i = RESULT THEN e.resultType ELSE e.argumentTypes[i]
      <4>4. \A i \in 0 .. k : at(declared, i) = R(i)
        BY <3>1, <3>4 DEF R
      <4>5. "resultType" \in DOMAIN c => \A i \in 0 .. k : at(c, i) = Q(i)
        BY <3>2, <4>2 DEF Q
      <4>6. Implements(implementation, id, declared) <=>
              /\ {"argumentTypes", "resultType"} \subseteq DOMAIN c
              /\ \A i \in 0 .. k : WellFormed(at(c, i)) /\ Normal(at(c, i)) = Normal(at(declared, i))
        BY <1>2, <2>1, <2>5, <3>1, <3>3 DEF Implements
      <4> HIDE DEF at
      <4>7. ASSUME "resultType" \in DOMAIN c
            PROVE  Implements(implementation, id, declared) <=> \A i \in 0 .. k : good(i)
        BY <2>5, <4>4, <4>5, <4>6, <4>7
      <4>8. (\A i \in 0 .. k : good(i)) => "resultType" \in DOMAIN c
        BY <4>1, <4>3
      <4> QED BY <4>6, <4>7, <4>8
    <3> HIDE DEF good
    <3>17. \A i \in 1 .. n : i \in 1 .. k \/ i = n
      BY <3>8
    <3>18. \A i \in 0 .. k : i = RESULT \/ i \in 1 .. k
      BY DEF RESULT
    <3>19. RESULT \in 0 .. k /\ n \in 1 .. n /\ \A i \in 1 .. k : i \in 1 .. n /\ i \in 0 .. k
      BY <3>8 DEF RESULT
    <3>20. (\A i \in 1 .. n : outcomes[i] = Conformant) <=> \A i \in 0 .. k : good(i)
      BY <3>12, <3>15, <3>17, <3>18, <3>19
    <3>21. \A i \in 1 .. n : outcomes[i] # Conformant => FaultOf(outcomes[i], id, declared, implementation)
      BY <3>12, <3>15, <3>17, <3>19
    <3>22. /\ (\A i \in 1 .. n : outcomes[i] = Conformant) => FirstBad(outcomes, Conformant) = Conformant
           /\ (\E i \in 1 .. n : outcomes[i] # Conformant) =>
                \E i \in 1 .. n : FirstBad(outcomes, Conformant) = outcomes[i] /\ outcomes[i] # Conformant
      BY <3>9, FirstBadOutcome
    <3> QED BY <3>6, <3>16, <3>20, <3>21, <3>22
  <2> QED BY <2>2, <2>3, <2>4, <2>5
<1> QED BY <1>1, <1>2

(* The same of a declaration and a module: the first circuit with a fault. *)
LEMMA DeclarationDecides ==
  ASSUME NEW declaration \in Declarations, NEW m \in Modules, "circuitSignatures" \in m.exports
  PROVE  /\ CheckConformance(declaration, m.circuitSignatures) = Conformant <=>
              \A id \in DOMAIN declaration : Implements(m.circuitSignatures, id, declaration[id])
         /\ CheckConformance(declaration, m.circuitSignatures) # Conformant =>
              \E id \in DOMAIN declaration :
                FaultOf(CheckConformance(declaration, m.circuitSignatures), id, declaration[id], m.circuitSignatures)
<1> DEFINE ids == SetToSeq(DOMAIN declaration)
           n == Cardinality(DOMAIN declaration)
<1>1. PICK implementation : implementation = m.circuitSignatures
  OBVIOUS
<1> DEFINE of(id) == CheckCircuit(id, declaration[id], implementation)
           outcomes == [i \in DOMAIN ids |-> of(ids[i])]
<1>2. IsFiniteSet(DOMAIN declaration)
  BY TablesAssumption
<1>3. /\ n \in Nat /\ DOMAIN ids = 1 .. n
      /\ \A i \in 1 .. n : ids[i] \in DOMAIN declaration
      /\ \A id \in DOMAIN declaration : \E i \in 1 .. n : ids[i] = id
  BY <1>2, SetAsSequence
<1>4. CheckConformance(declaration, implementation) = FirstBad(outcomes, Conformant)
  BY DEF CheckConformance
<1> HIDE DEF ids, n
<1>5. ASSUME NEW id \in DOMAIN declaration
      PROVE  /\ of(id) = Conformant <=> Implements(implementation, id, declaration[id])
             /\ of(id) # Conformant => FaultOf(of(id), id, declaration[id], implementation)
  <2>1. PICK declared : declared = declaration[id]
    OBVIOUS
  <2>2. DeclaredCircuit(declared)
    BY <2>1, TablesAssumption, ReadableTypes DEF DeclaredCircuit
  <2>3. id \in DOMAIN implementation => ImplementedCircuit(implementation[id])
    BY <1>1, TablesAssumption DEF ImplementedCircuit
  <2> QED BY <2>1, <2>2, <2>3, CircuitDecides
<1> HIDE DEF of
<1>6. DOMAIN outcomes = 1 .. n /\ \A i \in 1 .. n : outcomes[i] = of(ids[i])
  BY <1>3
<1> HIDE DEF outcomes
<1>7. /\ (\A i \in 1 .. n : outcomes[i] = Conformant) => FirstBad(outcomes, Conformant) = Conformant
      /\ (\E i \in 1 .. n : outcomes[i] # Conformant) =>
           \E i \in 1 .. n : FirstBad(outcomes, Conformant) = outcomes[i] /\ outcomes[i] # Conformant
  BY <1>3, <1>6, FirstBadOutcome
<1>8. (\A i \in 1 .. n : outcomes[i] = Conformant) <=>
        \A id \in DOMAIN declaration : Implements(implementation, id, declaration[id])
  BY <1>3, <1>5, <1>6
<1>9. \A i \in 1 .. n : outcomes[i] # Conformant =>
        \E id \in DOMAIN declaration : FaultOf(outcomes[i], id, declaration[id], implementation)
  BY <1>3, <1>5, <1>6
<1> QED BY <1>1, <1>4, <1>7, <1>8, <1>9

-----------------------------------------------------------------------------
(* The two checks                                                           *)

(* The module has what its caller declared.                                 *)
Conforms == \A id \in DOMAIN call.declaration : Implements(module.circuitSignatures, id, call.declaration[id])

KeyFailures == {"ImplementationMismatch", "MalformedVerifierKeyHash"}

ConformanceFailures == {"NonconformantImplementation", "UnreadableModule"}

(* What a failure says of the module is true of it.                         *)
Explained(failure) ==
  failure.kind \in ConformanceFailures =>
    /\ \E id \in DOMAIN call.declaration :
         FaultOf(failure.at, id, call.declaration[id], module.circuitSignatures)
    /\ failure.kind = "NonconformantImplementation" => failure.at.outcome = "Violation"
    /\ failure.kind = "UnreadableModule" => failure.at.outcome = "Unreadable"

(* The check of a call: it passes exactly if the module conforms, and what it refuses is
   explained. *)
LEMMA ConformanceDecides ==
  ASSUME call.declaration \in Declarations, module \in Modules,
         "circuitSignatures" \in module.exports
  PROVE  /\ CheckModuleConformance = NotRefused <=> Conforms
         /\ CheckModuleConformance.kind \in {"none"} \cup ConformanceFailures
         /\ Explained(CheckModuleConformance)
<1> DEFINE result == CheckConformance(call.declaration, module.circuitSignatures)
<1>1. /\ result = Conformant <=> Conforms
      /\ result # Conformant =>
           \E id \in DOMAIN call.declaration : FaultOf(result, id, call.declaration[id], module.circuitSignatures)
  BY DeclarationDecides DEF Conforms
<1>2. CheckModuleConformance =
        CASE result.outcome = "Conformant" -> NotRefused
          [] result.outcome = "Violation"  -> [kind |-> "NonconformantImplementation", at |-> result]
          [] result.outcome = "Unreadable" -> [kind |-> "UnreadableModule", at |-> result]
          [] result.outcome = "Threw"      -> Failure("TypeError")
  BY Zenon DEF CheckModuleConformance
<1> HIDE DEF result
<1>3. PICK failure : failure = CheckModuleConformance
  OBVIOUS
<1>4. CASE result = Conformant
  <2>1. failure = NotRefused
    BY <1>2, <1>3, <1>4 DEF Conformant
  <2> QED BY <1>1, <1>3, <1>4, <2>1 DEF NotRefused, Explained, ConformanceFailures
<1>5. CASE result # Conformant /\ result.outcome = "Violation"
  <2>1. failure.kind = "NonconformantImplementation" /\ failure.at = result
    BY <1>2, <1>3, <1>5
  <2>2. Explained(failure)
    BY <1>1, <1>5, <2>1 DEF Explained
  <2> QED BY <1>1, <1>3, <1>5, <2>1, <2>2 DEF NotRefused, ConformanceFailures
<1>6. CASE result # Conformant /\ result.outcome = "Unreadable"
  <2>1. failure.kind = "UnreadableModule" /\ failure.at = result
    BY <1>2, <1>3, <1>6
  <2>2. Explained(failure)
    BY <1>1, <1>6, <2>1 DEF Explained
  <2> QED BY <1>1, <1>3, <1>6, <2>1, <2>2 DEF NotRefused, ConformanceFailures
<1>7. result # Conformant => result.outcome \in {"Violation", "Unreadable"}
  BY <1>1 DEF FaultOf
<1> QED BY <1>4, <1>5, <1>6, <1>7

(* The check of the keys passes exactly if the module agrees with the chain. *)
LEMMA KeysDecide ==
  ASSUME state \in DeployedStates, module \in Modules, "expectedVk" \in module.exports
  PROVE  /\ CheckImplementation(call.circuit) = NotRefused <=> KeysAgree
         /\ CheckImplementation(call.circuit).kind \in {"none", "OperationAbsent"} \cup KeyFailures
<1> DEFINE c == call.circuit
           recorded == module.expectedVk
           compare(id) == IF ~IsVerifierKeyHash(recorded[id]) THEN MalformedAt(id)
                          ELSE IF recorded[id] # DeployedHash(id) THEN MismatchAt(id)
                          ELSE NotRefused
           S == {id \in DOMAIN recorded \ {c} : DeployedHash(id) # NoKey}
           others == SetToSeq(S)
           n == Cardinality(S)
           outcomes == <<compare(c)>> \o [i \in DOMAIN others |-> compare(others[i])]
           check == CheckImplementation(c)
<1>1. check = IF DeployedHash(c) = NoKey THEN Failure("OperationAbsent")
              ELSE IF c \notin DOMAIN recorded THEN MismatchAt(c)
              ELSE FirstBad(outcomes, NotRefused)
  BY Zenon DEF CheckImplementation
<1>2. \A id : /\ DeployedHash(id) \in Keys \cup {NoKey}
              /\ DeployedHash(id) # Garbage
  BY KeysAssumption DEF DeployedHash
<1>3. \A id : /\ DeployedHash(id) # NoKey /\ recorded[id] = DeployedHash(id) => compare(id) = NotRefused
              /\ recorded[id] # DeployedHash(id) => compare(id).kind \in KeyFailures
              /\ compare(id).kind \in {"none"} \cup KeyFailures
  BY <1>2 DEF IsVerifierKeyHash, MalformedAt, MismatchAt, NotRefused, KeyFailures
<1>4. IsFiniteSet(S)
  <2>1. IsFiniteSet(DOMAIN recorded)
    BY TablesAssumption
  <2>2. S \subseteq DOMAIN recorded
    OBVIOUS
  <2> QED BY <2>1, <2>2, FS_Subset
<1>5. /\ n \in Nat /\ DOMAIN others = 1 .. n
      /\ \A i \in 1 .. n : others[i] \in S
      /\ \A id \in S : \E i \in 1 .. n : others[i] = id
  BY <1>4, SetAsSequence
<1>6. /\ KeysAgree <=> /\ DeployedHash(c) # NoKey /\ c \in DOMAIN recorded
                       /\ recorded[c] = DeployedHash(c)
                       /\ \A id \in S : recorded[id] = DeployedHash(id)
  BY <1>2, KeysAssumption DEF KeysAgree
<1> HIDE DEF compare, others, n, S
<1>7. /\ DOMAIN outcomes = 1 .. n + 1 /\ outcomes[1] = compare(c)
      /\ \A i \in 1 .. n : outcomes[i + 1] = compare(others[i])
      /\ \A i \in 1 .. n + 1 : i = 1 \/ (i - 1 \in 1 .. n /\ outcomes[i] = compare(others[i - 1]))
  BY <1>5
<1> HIDE DEF outcomes
<1>8. NotRefused.kind = "none" /\ "none" \notin KeyFailures
  BY DEF NotRefused, KeyFailures
<1> DEFINE bad == FirstBad(outcomes, NotRefused)
<1>9. ASSUME DeployedHash(c) # NoKey, recorded[c] = DeployedHash(c),
             \A id \in S : recorded[id] = DeployedHash(id)
      PROVE  bad = NotRefused
  <2>1. \A id \in S : DeployedHash(id) # NoKey
    BY DEF S
  <2>2. \A i \in 1 .. n + 1 : outcomes[i] = NotRefused
    BY <1>3, <1>5, <1>7, <1>9, <2>1
  <2> QED BY <1>5, <1>7, <2>2, FirstBadOutcome
<1>10. ASSUME NEW i \in 1 .. n + 1, outcomes[i] # NotRefused
       PROVE  bad # NotRefused /\ bad.kind \in {"none"} \cup KeyFailures
  <2>1. \E k \in 1 .. n + 1 : bad = outcomes[k] /\ outcomes[k] # NotRefused
    BY <1>5, <1>7, <1>10, FirstBadOutcome
  <2>2. \A k \in 1 .. n + 1 : outcomes[k].kind \in {"none"} \cup KeyFailures
    BY <1>3, <1>7
  <2> HIDE DEF bad
  <2> QED BY <2>1, <2>2
<1>11. ASSUME recorded[c] # DeployedHash(c) \/ \E id \in S : recorded[id] # DeployedHash(id)
       PROVE  \E i \in 1 .. n + 1 : outcomes[i] # NotRefused
  <2>1. CASE recorded[c] # DeployedHash(c)
    <3>1. 1 \in 1 .. n + 1 /\ outcomes[1] # NotRefused
      BY <1>3, <1>5, <1>7, <1>8, <2>1
    <3> QED BY <3>1
  <2>2. CASE \E id \in S : recorded[id] # DeployedHash(id)
    <3>1. PICK id \in S : recorded[id] # DeployedHash(id)
      BY <2>2
    <3>2. PICK i \in 1 .. n : others[i] = id
      BY <1>5
    <3>3. i + 1 \in 1 .. n + 1 /\ outcomes[i + 1] # NotRefused
      BY <1>3, <1>5, <1>7, <1>8, <3>1, <3>2
    <3> QED BY <3>3
  <2> QED BY <1>11, <2>1, <2>2
<1> HIDE DEF recorded, check, bad
<1>12. CASE DeployedHash(c) = NoKey
  <2>1. check = Failure("OperationAbsent") /\ ~KeysAgree
    BY <1>1, <1>6, <1>12
  <2> QED BY <2>1 DEF Failure, NotRefused, check
<1>13. CASE DeployedHash(c) # NoKey /\ c \notin DOMAIN recorded
  <2>1. check = MismatchAt(c) /\ ~KeysAgree
    BY <1>1, <1>6, <1>13
  <2> QED BY <2>1 DEF MismatchAt, NotRefused, KeyFailures, check
<1>14. CASE DeployedHash(c) # NoKey /\ c \in DOMAIN recorded
  <2>1. check = bad
    BY <1>1, <1>14 DEF bad
  <2>2. CASE KeysAgree
    <3>1. bad = NotRefused
      BY <1>6, <1>9, <2>2
    <3> QED BY <1>8, <2>1, <2>2, <3>1 DEF check
  <2>3. CASE ~KeysAgree
    <3>1. bad # NotRefused /\ bad.kind \in {"none"} \cup KeyFailures
      BY <1>6, <1>10, <1>11, <1>14, <2>3
    <3> QED BY <2>1, <2>3, <3>1 DEF check
  <2> QED BY <2>2, <2>3
<1> QED BY <1>12, <1>13, <1>14

-----------------------------------------------------------------------------
(* The invariant                                                            *)

Entry == [circuit : Circuits, fingerprint : Keys]

(* Once the called module is there, the call runs exactly if it has what    *)
(* was declared, the keys agree, and the module constructs and can prove    *)
(* the circuit; the keys are blamed only of a module that conforms, and an  *)
(* error that is not classified is one of a callee that was accepted and    *)
(* whose state is memoized.                                                 *)
RawErrors == {"CompactError", "StateProviderError", "ConstructorError"}

Decided ==
  phase \in {"running", "refused"} /\ module # NoModule =>
    /\ phase = "running" <=> /\ Conforms /\ KeysAgree
                             /\ module.constructs
                             /\ call.circuit \in module.provableCircuits
    /\ refusal.kind \in KeyFailures => Conforms /\ ~KeysAgree
    /\ refusal.kind \in RawErrors => memo = <<state>> /\ Conforms /\ KeysAgree

(* The faults that are found in no module.                                  *)
OtherFailures ==
  RawErrors \cup
    {"none", "ModuleProviderAbsent", "ProviderThrew", "UnsupportedImplementation",
     "ModuleLoadRejected", "IncompleteModule", "OperationAbsent"}

(* A refusal that blames the module is made of one that was resolved, and   *)
(* names a fault it has.                                                    *)
Blamed ==
  \/ refusal.kind \in OtherFailures
  \/ /\ phase = "refused" /\ module # NoModule
     /\ refusal.kind \in ConformanceFailures \cup KeyFailures
     /\ Explained(refusal)

(* What the steps of a call may rely on.  The state is the memoized one as  *)
(* soon as there is one.                                                    *)
Underway ==
  /\ phase \in {"idle", "state", "module", "loading", "loaded", "running", "refused"}
  /\ phase # "refused" => refusal = NotRefused
  /\ phase \in {"state", "module", "loading", "loaded"} =>
       call.declaration \in Declarations /\ call.circuit \in Circuits
  /\ phase \in {"module", "loading", "loaded"} =>
       state \in DeployedStates /\ memo \in {<<>>, <<state>>}
  /\ phase \in {"idle", "state", "module", "loading"} => module = NoModule
  /\ phase = "loaded" => module \in Modules /\ RESOLVED_MODULE_EXPORTS \subseteq module.exports

(* Every call that was entered ran the key of the memoized state.           *)
BoundToTheMemo ==
  /\ bound \in Seq(Entry)
  /\ memo = <<>> => bound = <<>>
  /\ memo # <<>> =>
       \E deployed \in DeployedStates :
         /\ memo = <<deployed>>
         /\ \A i \in 1 .. Len(bound) :
              bound[i].circuit \in DOMAIN deployed /\ bound[i].fingerprint = deployed[bound[i].circuit]

IInv == Underway /\ Decided /\ Blamed /\ BoundToTheMemo

(* The invariant holds at first. *)
LEMMA InitIInv == Init => IInv
BY DEF Init, IInv, Underway, Decided, Blamed, OtherFailures, RawErrors, NotRefused, BoundToTheMemo

(* A step that leaves the calls that were entered, and the memo.            *)
LEMMA MemoStays ==
  ASSUME BoundToTheMemo, UNCHANGED <<memo, bound>>
  PROVE  BoundToTheMemo'
BY DEF BoundToTheMemo

(* No failure is not a failure of the keys, and no error. *)
LEMMA NotRefusedIsNoFailure ==
  /\ NotRefused.kind = "none" /\ PlainError.kind = "CompactError"
  /\ StateProviderError.kind = "StateProviderError" /\ ConstructorError.kind = "ConstructorError"
  /\ NotRefused.kind \notin KeyFailures \cup RawErrors /\ NotRefused # PlainError
BY DEF NotRefused, PlainError, StateProviderError, ConstructorError, Failure, KeyFailures, RawErrors

(* An accepted module fails exactly if it cannot be constructed or lacks the *)
(* circuit, and never with a classified failure.                            *)
LEMMA FailureOfDecides ==
  ASSUME NEW m, NEW c
  PROVE  /\ FailureOf(m, c) = NotRefused <=> m.constructs /\ c \in m.provableCircuits
         /\ FailureOf(m, c) # NotRefused => FailureOf(m, c).kind \in RawErrors
<1>1. /\ PlainError.kind \in RawErrors /\ ConstructorError.kind \in RawErrors
      /\ NotRefused.kind \notin RawErrors
  BY NotRefusedIsNoFailure DEF RawErrors
<1>2. CASE ~m.constructs
  <2>1. FailureOf(m, c) = ConstructorError
    BY <1>2 DEF FailureOf
  <2> QED BY <1>1, <1>2, <2>1
<1>3. CASE m.constructs /\ c \notin m.provableCircuits
  <2>1. FailureOf(m, c) = PlainError
    BY <1>3 DEF FailureOf
  <2> QED BY <1>1, <1>3, <2>1
<1>4. CASE m.constructs /\ c \in m.provableCircuits
  <2>1. FailureOf(m, c) = NotRefused
    BY <1>4 DEF FailureOf
  <2> QED BY <1>4, <2>1
<1> QED BY <1>2, <1>3, <1>4

(* The invariant is kept, action by action. *)
LEMMA StartCallKeeps == IInv /\ StartCall => IInv'
<1> SUFFICES ASSUME IInv, StartCall PROVE IInv'
  OBVIOUS
<1>1. PICK declaration \in Declarations, circuit \in Circuits :
        /\ call' = [declaration |-> declaration, circuit |-> circuit]
        /\ IF circuit \notin DOMAIN declaration THEN phase' = "refused" /\ refusal' = PlainError
           ELSE IF ~hasProvider THEN phase' = "refused" /\ refusal' = Failure("ModuleProviderAbsent")
           ELSE phase' = "state" /\ UNCHANGED refusal
  BY DEF StartCall
<1>2. phase = "idle" /\ UNCHANGED <<state, module, memo, bound>>
  BY DEF StartCall
<1>3. Underway'
  BY <1>1, <1>2 DEF IInv, Underway
<1>4. Decided'
  BY <1>1, <1>2 DEF IInv, Underway, Decided
<1>5. Blamed'
  BY <1>1, <1>2, NotRefusedIsNoFailure DEF IInv, Underway, Blamed, OtherFailures, RawErrors, Failure
<1> QED BY <1>2, <1>3, <1>4, <1>5, MemoStays DEF IInv

(* A deployed state is resolved. *)
LEMMA ResolveDeployedStateKeeps == IInv /\ ResolveDeployedState => IInv'
<1> SUFFICES ASSUME IInv, ResolveDeployedState PROVE IInv'
  OBVIOUS
<1>1. UNCHANGED <<call, module, memo, bound>> /\ phase = "state" /\ module = NoModule
  BY DEF ResolveDeployedState, Refuse, IInv, Underway
<1>2. \/ /\ phase' = "module" /\ refusal' = refusal
         /\ state' \in DeployedStates /\ memo \in {<<>>, <<state'>>}
      \/ phase' = "refused" /\ refusal' \in {PlainError, StateProviderError}
  <2>1. CASE memo # <<>>
    <3>1. PICK deployed \in DeployedStates : memo = <<deployed>>
      BY <2>1 DEF IInv, BoundToTheMemo
    <3>2. phase' = "module" /\ refusal' = refusal /\ state' = memo[1]
      BY <2>1 DEF ResolveDeployedState
    <3> QED BY <3>1, <3>2
  <2>2. CASE memo = <<>>
    BY <2>2 DEF ResolveDeployedState, Refuse
  <2> QED BY <2>1, <2>2
<1>3. Underway'
  BY <1>1, <1>2 DEF IInv, Underway
<1>4. Decided'
  BY <1>1, <1>2 DEF Decided
<1>5. Blamed'
  BY <1>1, <1>2, NotRefusedIsNoFailure DEF IInv, Underway, Blamed, OtherFailures, RawErrors
<1> QED BY <1>1, <1>3, <1>4, <1>5, MemoStays DEF IInv

(* The provider answers. *)
LEMMA ProviderResolvesKeeps == IInv /\ ProviderResolves => IInv'
<1> SUFFICES ASSUME IInv, ProviderResolves PROVE IInv'
  OBVIOUS
<1>1. /\ UNCHANGED <<call, state, module, memo, bound>> /\ phase = "module" /\ module = NoModule
      /\ \/ phase' = "refused" /\ refusal'.kind \in OtherFailures
         \/ phase' = "loading" /\ refusal' = refusal
  BY DEF ProviderResolves, Refuse, IInv, Underway, OtherFailures, Failure
<1>2. Underway'
  BY <1>1 DEF IInv, Underway
<1>3. Decided'
  BY <1>1 DEF Decided
<1>4. Blamed'
  BY <1>1, NotRefusedIsNoFailure DEF IInv, Underway, Blamed, OtherFailures, RawErrors
<1> QED BY <1>1, <1>2, <1>3, <1>4, MemoStays DEF IInv

(* The module loads. *)
LEMMA ModuleLoadsKeeps == IInv /\ ModuleLoads => IInv'
<1> SUFFICES ASSUME IInv, ModuleLoads PROVE IInv'
  OBVIOUS
<1>1. UNCHANGED <<call, state, memo, bound>> /\ phase = "loading" /\ module = NoModule
  BY DEF ModuleLoads, Refuse, IInv, Underway
<1>2. \/ phase' = "refused" /\ module' = module /\ refusal'.kind \in OtherFailures
      \/ /\ phase' = "loaded" /\ refusal' = refusal
         /\ module' \in Modules /\ RESOLVED_MODULE_EXPORTS \subseteq module'.exports
  BY DEF ModuleLoads, Refuse, OtherFailures, Failure
<1>3. Underway'
  BY <1>1, <1>2 DEF IInv, Underway
<1>4. Decided'
  BY <1>1, <1>2 DEF Decided
<1>5. Blamed'
  BY <1>1, <1>2, NotRefusedIsNoFailure DEF IInv, Underway, Blamed, OtherFailures, RawErrors
<1> QED BY <1>1, <1>3, <1>4, <1>5, MemoStays DEF IInv

(* The caller goes on. *)
LEMMA ContinueKeeps == IInv /\ Continue => IInv'
<1> SUFFICES ASSUME IInv, Continue PROVE IInv'
  OBVIOUS
<1>1. /\ phase' = "idle" /\ refusal' = NotRefused /\ module' = NoModule
      /\ UNCHANGED <<memo, bound>>
  BY DEF Continue
<1>2. Underway' /\ Decided' /\ Blamed'
  BY <1>1, NotRefusedIsNoFailure DEF Underway, Decided, Blamed, OtherFailures, RawErrors
<1> QED BY <1>1, <1>2, MemoStays DEF IInv

(* The comparison: conformance first, then the keys.                        *)
LEMMA CheckAndEnterKeeps == IInv /\ CheckAndEnter => IInv'
<1> SUFFICES ASSUME IInv, CheckAndEnter PROVE IInv'
  OBVIOUS
<1> DEFINE c == call.circuit
           checks == <<CheckModuleConformance, CheckImplementation(c)>>
           failure == FirstBad(checks, NotRefused)
<1>1. /\ phase = "loaded" /\ refusal = NotRefused /\ UNCHANGED <<call, state, module>>
      /\ call.declaration \in Declarations /\ c \in Circuits
      /\ state \in DeployedStates /\ memo \in {<<>>, <<state>>}
      /\ module \in Modules /\ {"circuitSignatures", "expectedVk"} \subseteq module.exports
  BY DEF CheckAndEnter, Refuse, IInv, Underway, RESOLVED_MODULE_EXPORTS
<1>2. /\ CheckModuleConformance = NotRefused <=> Conforms
      /\ CheckModuleConformance.kind \in {"none"} \cup ConformanceFailures
      /\ Explained(CheckModuleConformance)
  BY <1>1, ConformanceDecides
<1>3. /\ CheckImplementation(c) = NotRefused <=> KeysAgree
      /\ CheckImplementation(c).kind \in {"none", "OperationAbsent"} \cup KeyFailures
  BY <1>1, KeysDecide
<1>4. /\ failure = NotRefused <=> Conforms /\ KeysAgree
      /\ failure # NotRefused /\ failure.kind \in KeyFailures => Conforms /\ ~KeysAgree
      /\ failure.kind \notin RawErrors
      /\ failure.kind \in OtherFailures \cup ConformanceFailures \cup KeyFailures
      /\ Explained(failure)
  <2>1. PICK first : first = CheckModuleConformance
    OBVIOUS
  <2>2. PICK second : second = CheckImplementation(c)
    OBVIOUS
  <2>3. /\ first = NotRefused /\ second = NotRefused => failure = NotRefused
        /\ first # NotRefused => failure = first
        /\ first = NotRefused /\ second # NotRefused => failure = second
    <3>1. PICK good : good = NotRefused
      OBVIOUS
    <3>2. failure = FirstBad(<<first, second>>, good)
      BY <2>1, <2>2, <3>1
    <3> HIDE DEF failure
    <3> QED BY <3>1, <3>2, FirstOfTwo
  <2> HIDE DEF failure
  <2>4. /\ KeyFailures = {"ImplementationMismatch", "MalformedVerifierKeyHash"}
        /\ ConformanceFailures = {"NonconformantImplementation", "UnreadableModule"}
        /\ {"none", "OperationAbsent"} \subseteq OtherFailures
    BY DEF KeyFailures, ConformanceFailures, OtherFailures
  <2>5. second.kind \notin ConformanceFailures
    BY <1>3, <2>2, <2>4
  <2>6. Explained(second) /\ Explained(first)
    BY <1>2, <2>1, <2>5, Zenon DEF Explained
  <2>7. failure = first \/ failure = second
    BY <2>1, <2>2, <2>3
  <2>8. failure.kind \in OtherFailures \cup ConformanceFailures \cup KeyFailures
    BY <1>2, <1>3, <2>1, <2>2, <2>4, <2>7
  <2>9. Explained(failure)
    BY <2>6, <2>7
  <2>10. failure.kind \notin RawErrors
    BY <1>2, <1>3, <2>1, <2>2, <2>4, <2>7 DEF RawErrors
  <2> QED BY <1>2, <1>3, <2>1, <2>2, <2>3, <2>4, <2>8, <2>9, <2>10, NotRefusedIsNoFailure
<1>5. IF failure # NotRefused
        THEN Refuse(failure)
        ELSE /\ memo' = <<state>>
             /\ IF FailureOf(module, c) = NotRefused
                  THEN /\ phase' = "running" /\ UNCHANGED refusal
                       /\ bound' = Append(bound, [circuit |-> c, fingerprint |-> module.expectedVk[c]])
                  ELSE /\ phase' = "refused" /\ refusal' = FailureOf(module, c)
                       /\ UNCHANGED bound
  BY Zenon DEF CheckAndEnter
<1> HIDE DEF failure
<1>6. (Conforms' <=> Conforms) /\ (KeysAgree' <=> KeysAgree)
  BY <1>1 DEF Conforms, KeysAgree, DeployedHash
<1>7. CASE failure # NotRefused
  <2>1. phase' = "refused" /\ refusal' = failure /\ UNCHANGED <<memo, bound>>
    BY <1>5, <1>7 DEF Refuse
  <2>2. Underway'
    BY <1>1, <2>1 DEF Underway
  <2>3. refusal'.kind \notin RawErrors
    BY <1>4, <2>1
  <2>4. Decided'
    BY <1>1, <1>4, <1>6, <1>7, <2>1, <2>3 DEF Decided
  <2>5. PICK reason : reason = failure
    OBVIOUS
  <2>6. Explained(refusal)'
    <3>1. refusal' = reason /\ Explained(reason)
      BY <1>4, <2>1, <2>5
    <3>2. module' = module /\ call' = call
      BY <1>1
    <3> QED BY <3>1, <3>2 DEF Explained
  <2>7. module' # NoModule
    BY <1>1 DEF NoModule
  <2>8. Blamed'
    BY <1>4, <2>1, <2>6, <2>7 DEF Blamed
  <2> QED BY <2>1, <2>2, <2>4, <2>8, MemoStays DEF IInv
<1>8. CASE failure = NotRefused
  <2>1. memo' = <<state>> /\ Conforms /\ KeysAgree
    BY <1>4, <1>5, <1>8
  <2>2. c \in DOMAIN state /\ state[c] \in Keys /\ module.expectedVk[c] = state[c]
    BY <2>1, KeysAssumption DEF KeysAgree, DeployedHash
  <2>3. /\ bound \in Seq(Entry)
        /\ \A i \in 1 .. Len(bound) :
             bound[i].circuit \in DOMAIN state /\ bound[i].fingerprint = state[bound[i].circuit]
    <3>1. CASE memo = <<>>
      <4>1. bound = <<>>
        BY <3>1 DEF IInv, BoundToTheMemo
      <4> QED BY <4>1
    <3>2. CASE memo = <<state>>
      <4>1. memo # <<>>
        BY <3>2
      <4>2. PICK deployed \in DeployedStates :
              /\ memo = <<deployed>>
              /\ \A i \in 1 .. Len(bound) :
                   bound[i].circuit \in DOMAIN deployed /\ bound[i].fingerprint = deployed[bound[i].circuit]
        BY <4>1 DEF IInv, BoundToTheMemo
      <4>3. deployed = state
        BY <3>2, <4>2
      <4> QED BY <4>2, <4>3 DEF IInv, BoundToTheMemo
    <3> QED BY <1>1, <3>1, <3>2
  <2>4. CASE FailureOf(module, c) = NotRefused
    <3>0. module.constructs /\ c \in module.provableCircuits
      BY <2>4, FailureOfDecides
    <3>1. PICK entry : entry = [circuit |-> c, fingerprint |-> module.expectedVk[c]]
      OBVIOUS
    <3>2. phase' = "running" /\ refusal' = refusal /\ bound' = Append(bound, entry)
      BY <1>5, <1>8, <2>4, <3>1
    <3>3. entry \in Entry /\ entry.circuit = c /\ entry.fingerprint = state[c]
      BY <1>1, <2>2, <3>1 DEF Entry
    <3>4. /\ bound' \in Seq(Entry)
          /\ \A i \in 1 .. Len(bound') :
               bound'[i].circuit \in DOMAIN state /\ bound'[i].fingerprint = state[bound'[i].circuit]
      <4>1. /\ bound' \in Seq(Entry) /\ Len(bound') = Len(bound) + 1 /\ Len(bound) \in Nat
            /\ bound'[Len(bound) + 1] = entry
            /\ \A i \in 1 .. Len(bound) : bound'[i] = bound[i]
        BY <2>3, <3>2, <3>3, AppendProperties, LenProperties
      <4>2. \A i \in 1 .. Len(bound') : i \in 1 .. Len(bound) \/ i = Len(bound) + 1
        BY <4>1
      <4> QED BY <2>2, <2>3, <3>3, <4>1, <4>2
    <3>5. Underway'
      BY <1>1, <3>2 DEF Underway
    <3>6. Decided'
      BY <1>1, <1>6, <2>1, <3>0, <3>2, NotRefusedIsNoFailure DEF Decided
    <3>7. BoundToTheMemo'
      BY <1>1, <2>1, <3>4 DEF BoundToTheMemo
    <3>8. Blamed'
      BY <1>1, <3>2, NotRefusedIsNoFailure DEF Blamed, OtherFailures, RawErrors
    <3> QED BY <3>5, <3>6, <3>7, <3>8 DEF IInv
  <2>5. CASE FailureOf(module, c) # NotRefused
    <3>1. /\ phase' = "refused" /\ bound' = bound
          /\ refusal' = FailureOf(module, c) /\ refusal'.kind \in RawErrors
      BY <1>5, <1>8, <2>5, FailureOfDecides
    <3>2. Underway'
      BY <1>1, <3>1 DEF Underway
    <3>3. refusal'.kind \notin KeyFailures
      BY <3>1 DEF RawErrors, KeyFailures
    <3>4. Decided'
      <4>1. ~(module.constructs /\ c \in module.provableCircuits)
        BY <2>5, FailureOfDecides
      <4> QED BY <1>1, <1>6, <2>1, <3>1, <3>3, <4>1 DEF Decided
    <3>5. BoundToTheMemo'
      BY <1>1, <2>1, <2>3, <3>1 DEF BoundToTheMemo
    <3>6. Blamed'
      BY <3>1 DEF Blamed, OtherFailures
    <3> QED BY <3>2, <3>4, <3>5, <3>6 DEF IInv
  <2> QED BY <2>4, <2>5
<1> QED BY <1>7, <1>8

(* Every step keeps the invariant. *)
LEMMA NextIInv == IInv /\ [Next]_vars => IInv'
<1> SUFFICES ASSUME IInv, [Next]_vars PROVE IInv'
  OBVIOUS
<1>1. CASE UNCHANGED vars
  BY <1>1 DEF vars, IInv, Underway, Decided, Blamed, Explained, BoundToTheMemo, Conforms,
     KeysAgree, DeployedHash
<1>2. CASE Next
  BY <1>2, StartCallKeeps, ResolveDeployedStateKeeps, ProviderResolvesKeeps, ModuleLoadsKeeps,
     CheckAndEnterKeeps, ContinueKeeps DEF Next
<1> QED BY <1>1, <1>2

(* The invariant holds throughout. *)
LEMMA Invariance == Spec => []IInv
BY InitIInv, NextIInv, PTL DEF Spec

-----------------------------------------------------------------------------
(* A callee runs exactly when its module has, for every circuit its caller  *)
(* declared, a provable one of the same type, agrees with the chain on the  *)
(* keys they share, and can prove the circuit (crossContractCall,           *)
(* contract.ts; checkConformance, conformance.ts).                          *)
THEOREM RunsTheDeclaredCode == Spec => []BindsTheDeclaredCode
<1>1. IInv => BindsTheDeclaredCode
  BY DEF IInv, Decided, Conforms, BindsTheDeclaredCode
<1> QED BY <1>1, Invariance, PTL

(* No table of a module makes the comparison throw, since what is compared  *)
(* was screened first; and once a module has loaded an error that is not    *)
(* classified is one of a callee that implements what was declared, agrees  *)
(* with the chain and has its state memoized (crossContractCall).           *)
THEOREM FaultsAreClassified == Spec => []ModuleFaultsAreClassified
<1>1. IInv => ModuleFaultsAreClassified
  <2> SUFFICES ASSUME IInv, refusal \in Unclassified, module # NoModule
               PROVE  /\ refusal # Failure("TypeError")
                      /\ memo = <<state>> /\ Conforms /\ KeysAgree
    BY DEF ModuleFaultsAreClassified, Conforms
  <2>1. refusal # Failure("TypeError")
    BY DEF IInv, Blamed, OtherFailures, RawErrors, ConformanceFailures, KeyFailures, Failure
  <2>2. refusal.kind \in RawErrors
    BY <2>1, NotRefusedIsNoFailure DEF Unclassified, RawErrors
  <2>3. phase = "refused"
    BY <2>2, NotRefusedIsNoFailure DEF IInv, Underway
  <2> QED BY <2>1, <2>2, <2>3 DEF IInv, Decided
<1> QED BY <1>1, Invariance, PTL

(* A refusal names a circuit and a position where the fault it reports is,  *)
(* the earlier rules hold there, and a mismatch of keys is reported only of *)
(* a module that conforms.                                                  *)
THEOREM RefusalsNameFaults == Spec => []RefusalNamesItsFault
<1>1. IInv => RefusalNamesItsFault
  <2> SUFFICES ASSUME IInv PROVE RefusalNamesItsFault
    OBVIOUS
  <2> DEFINE signatures == module.circuitSignatures
             f == refusal.at
             declared == call.declaration[f.circuitId]
  <2>1. refusal.kind \in ConformanceFailures => Explained(refusal)
    BY DEF IInv, Blamed, OtherFailures, RawErrors, ConformanceFailures
  <2>2. refusal.kind \in KeyFailures => phase = "refused" /\ module # NoModule
    BY DEF IInv, Blamed, OtherFailures, RawErrors, KeyFailures
  <2>3. refusal.kind \in KeyFailures => Conforms /\ ~KeysAgree
    BY <2>2 DEF IInv, Decided
  <2>4. refusal.kind = "NonconformantImplementation" => ViolationIn(f, declared, signatures)
    <3>1. "Violation" # "Unreadable"
      OBVIOUS
    <3> QED BY <2>1, <3>1 DEF Explained, FaultOf, ConformanceFailures
  <2>5. refusal.kind = "UnreadableModule" => UnreadableIn(f, declared, signatures)
    BY <2>1 DEF Explained, FaultOf, ConformanceFailures
  <2>6. PICK g : g = f
    OBVIOUS
  <2>7. PICK d : d = declared
    OBVIOUS
  <2>8. PICK c : c = signatures[g.circuitId]
    OBVIOUS
  <2> DEFINE typed == c.provable /\ Len(c.argumentTypes) = Len(d.argumentTypes)
             Fault == CASE g.check = "Existence"   -> g.circuitId \notin DOMAIN signatures
                        [] g.check = "Provability" -> ~c.provable
                        [] g.check = "Arity"       -> c.provable /\ ~typed
                        [] g.check \in {"ArgumentType", "ResultType"} ->
                             /\ typed
                             /\ WellFormed(TypeAt(c, g.argumentIndex))
                             /\ Normal(TypeAt(c, g.argumentIndex)) # Normal(TypeAt(d, g.argumentIndex))
  <2>9. typed <=> Comparable(d, c)
    BY DEF Comparable
  <2>10. refusal.kind = "NonconformantImplementation" => Fault
    <3> SUFFICES ASSUME refusal.kind = "NonconformantImplementation" PROVE Fault
      OBVIOUS
    <3>1. ViolationIn(g, d, signatures)
      BY <2>4, <2>6, <2>7
    <3>2. \/ g.check = "Existence" /\ g.circuitId \notin DOMAIN signatures
          \/ g.check = "Provability" /\ ~c.provable
          \/ g.check = "Arity" /\ c.provable /\ ~Comparable(d, c)
          \/ /\ g.check \in {"ArgumentType", "ResultType"} /\ Comparable(d, c)
             /\ WellFormed(TypeAt(c, g.argumentIndex))
             /\ Normal(TypeAt(c, g.argumentIndex)) # Normal(TypeAt(d, g.argumentIndex))
      BY <2>8, <3>1 DEF ViolationIn
    <3> HIDE DEF typed, signatures
    <3> QED BY <2>9, <3>2
  <2>11. refusal.kind = "UnreadableModule" =>
           "argumentTypes" \notin DOMAIN c \/ (typed /\ ~WellFormed(TypeAt(c, g.argumentIndex)))
    BY <2>5, <2>6, <2>7, <2>8, <2>9 DEF UnreadableIn
  <2> HIDE DEF Fault, typed
  <2>12. refusal.kind \in KeyFailures =>
           (\A id \in DOMAIN call.declaration : Implements(signatures, id, call.declaration[id])) /\ ~KeysAgree
    BY <2>3 DEF Conforms
  <2> QED BY <2>6, <2>7, <2>8, <2>10, <2>11, <2>12
          DEF RefusalNamesItsFault, Fault, typed, TypeAt, KeyFailures
<1> QED BY <1>1, Invariance, PTL

(* The calls of one context to one address that name the same circuit run   *)
(* code with the same verifier key, since the first of them memoized the    *)
(* state the others are compared with.                                      *)
THEOREM CallsShareTheirKeys == Spec => []BoundCallsAgree
<1>1. IInv => BoundCallsAgree
  <2> SUFFICES ASSUME IInv, NEW i \in DOMAIN bound, NEW j \in DOMAIN bound,
                      bound[i].circuit = bound[j].circuit
               PROVE  bound[i].fingerprint = bound[j].fingerprint
    BY DEF BoundCallsAgree
  <2>1. bound \in Seq(Entry)
    BY DEF IInv, BoundToTheMemo
  <2>2. i \in 1 .. Len(bound) /\ j \in 1 .. Len(bound) /\ bound # <<>>
    BY <2>1
  <2>3. PICK deployed \in DeployedStates :
          \A k \in 1 .. Len(bound) : bound[k].fingerprint = deployed[bound[k].circuit]
    BY <2>2 DEF IInv, BoundToTheMemo
  <2> QED BY <2>2, <2>3
<1> QED BY <1>1, Invariance, PTL
=================================================================================
