----------------------- MODULE RuntimeValuesEncoding_proofs -----------------------
(***************************************************************************)
(* What the operators of RuntimeValues compute, for every field, curve,    *)
(* width, limb split and set of operands that the assumptions of the       *)
(* modules allow.  From the bottom up:                                     *)
(*   - numbers as atoms: Digits and Number are inverse, padding and        *)
(*     trimming lose nothing (the recursive functions are shown to satisfy *)
(*     their equations first, as TLA+ asks of a recursive definition);     *)
(*   - each type's encoding follows its alignment, its decoder reads it    *)
(*     back and leaves what follows, and accepts values of the type only:  *)
(*     for atoms, for a chain of decoders on one array, and so for points, *)
(*     structs, vectors and paths;                                         *)
(*   - congruences, and the groups of the curves in terms of the multiples *)
(*     of the generator, which the built-ins compute.                      *)
(***************************************************************************)
EXTENDS RuntimeValues, SequenceTheorems, WellFoundedInduction, TLAPS

------------------------------------------------------------------------------
(* Recursion over the naturals and over sets with a depth. *)

(* The order of the naturals, as a relation. *)
Below == {s \in Nat \X Nat : s[1] < s[2]}

(* A set of naturals that is not empty has a least member. *)
LEMMA Least ==
  ASSUME NEW T \in SUBSET Nat, T # {}
  PROVE  \E m \in T : \A n \in T : m <= n
<1>1. OpToRel(<, Nat) = Below
  BY DEF OpToRel, Below
<1>2. IsWellFoundedOn(Below, Nat)
  BY <1>1, NatLessThanWellFounded
<1>3. PICK m \in T : \A n \in T : <<n, m>> \notin Below
  BY <1>2, WFMin
<1>4. \A n \in T : n \in Nat /\ m \in Nat
  OBVIOUS
<1>5. \A n \in T : ~(n < m)
  BY <1>3, <1>4 DEF Below
<1> QED BY <1>4, <1>5

(* g satisfies the equations at the arguments of depth below n. *)
Upto(T, D, F, g, n) == \A u \in T : D[u] < n => g[u] = F[g][u]

(* The equations g = F[g] determine g at each argument from its values at
   arguments of smaller depth. *)
Recursion(T, R, D, F) ==
  /\ D \in [T -> Nat]
  /\ F \in [[T -> R] -> [T -> R]]
  /\ \A g, h \in [T -> R] : \A u \in T :
       (\A v \in T : D[v] < D[u] => g[v] = h[v]) => F[g][u] = F[h][u]

(* For every n there is a function that satisfies the equations below n. *)
LEMMA UptoExists ==
  ASSUME NEW T, NEW R, R # {}, NEW D, NEW F, Recursion(T, R, D, F), NEW n \in Nat
  PROVE  \E g \in [T -> R] : Upto(T, D, F, g, n)
<1> DEFINE bad == {m \in Nat : ~\E g \in [T -> R] : Upto(T, D, F, g, m)}
<1>1. bad = {}
  <2> SUFFICES ASSUME bad # {} PROVE FALSE
    OBVIOUS
  <2>1. PICK m \in bad : \A i \in bad : m <= i
    BY Least
  <2>2. m \in Nat /\ ~\E g \in [T -> R] : Upto(T, D, F, g, m)
    BY <2>1
  <2>3. CASE m = 0
    <3>1. PICK r \in R : TRUE
      OBVIOUS
    <3>2. [u \in T |-> r] \in [T -> R]
      BY <3>1
    <3>3. \A u \in T : D[u] \in Nat
      BY DEF Recursion
    <3>4. \A u \in T : ~(D[u] < m)
      BY <2>3, <3>3
    <3>5. Upto(T, D, F, [u \in T |-> r], m)
      BY <3>4 DEF Upto
    <3> QED BY <2>2, <3>2, <3>5
  <2>4. CASE m # 0
    <3>1. PICK k \in Nat : k + 1 = m
      BY <2>2, <2>4
    <3>2. k \notin bad
      <4> HIDE DEF bad
      <4>1. ~(m <= k)
        BY <2>2, <3>1
      <4> QED BY <2>1, <4>1
    <3>3. PICK g \in [T -> R] : Upto(T, D, F, g, k)
      BY <3>2
    <3>4. PICK h : h = F[g]
      OBVIOUS
    <3>5. h \in [T -> R]
      BY <3>4 DEF Recursion
    <3>6. ASSUME NEW u \in T, D[u] < m
          PROVE  h[u] = F[h][u]
      <4>1. ASSUME NEW v \in T, D[v] < D[u]
            PROVE  g[v] = h[v]
        <5>1. D[v] \in Nat /\ D[u] \in Nat
          BY DEF Recursion
        <5>2. D[v] < k
          BY <2>2, <3>1, <3>6, <4>1, <5>1
        <5> QED BY <3>3, <3>4, <5>2 DEF Upto
      <4> QED BY <3>4, <3>5, <4>1 DEF Recursion
    <3>7. Upto(T, D, F, h, m)
      BY <3>6 DEF Upto
    <3> QED BY <2>2, <3>5, <3>7
  <2> QED BY <2>3, <2>4
<1> QED BY <1>1

(* Two functions that satisfy the equations below n agree below n. *)
LEMMA UptoAgree ==
  ASSUME NEW T, NEW R, NEW D, NEW F, Recursion(T, R, D, F), NEW n \in Nat,
         NEW g \in [T -> R], NEW h \in [T -> R], Upto(T, D, F, g, n), Upto(T, D, F, h, n),
         NEW u \in T, D[u] < n
  PROVE  g[u] = h[u]
<1> DEFINE bad == {k \in Nat : \E v \in T : k = D[v] /\ D[v] < n /\ g[v] # h[v]}
<1>1. bad = {}
  <2> SUFFICES ASSUME bad # {} PROVE FALSE
    OBVIOUS
  <2>1. PICK m \in bad : \A i \in bad : m <= i
    BY Least
  <2>2. PICK v \in T : m = D[v] /\ D[v] < n /\ g[v] # h[v]
    BY <2>1
  <2>3. ASSUME NEW w \in T, D[w] < D[v]
        PROVE  g[w] = h[w]
    <3>1. D[w] \in Nat /\ D[v] \in Nat
      BY DEF Recursion
    <3>2. D[w] < n /\ ~(m <= D[w])
      BY <2>2, <2>3, <3>1
    <3>3. D[w] \notin bad
      <4> HIDE DEF bad
      <4> QED BY <2>1, <3>2
    <3> QED BY <3>1, <3>2, <3>3
  <2>4. F[g][v] = F[h][v]
    BY <2>3 DEF Recursion
  <2> QED BY <2>2, <2>4 DEF Upto
<1>2. D[u] \in Nat
  BY DEF Recursion
<1> QED BY <1>1, <1>2

(* The equations have a solution: the function a recursive definition chooses exists. *)
LEMMA RecursionDefines ==
  ASSUME NEW T, NEW R, R # {}, NEW D, NEW F, Recursion(T, R, D, F)
  PROVE  \E f \in [T -> R] : F[f] = f
<1> DEFINE G(n) == CHOOSE g \in [T -> R] : Upto(T, D, F, g, n)
           f == [u \in T |-> G(D[u] + 1)[u]]
<1>1. \A n \in Nat : G(n) \in [T -> R] /\ Upto(T, D, F, G(n), n)
  BY UptoExists
<1> HIDE DEF G
<1>2. \A u \in T : D[u] \in Nat /\ D[u] + 1 \in Nat
  BY DEF Recursion
<1>3. f \in [T -> R]
  BY <1>1, <1>2
<1>4. ASSUME NEW u \in T
      PROVE  F[f][u] = f[u]
  <2>1. PICK g \in [T -> R] : g = G(D[u] + 1) /\ Upto(T, D, F, g, D[u] + 1)
    BY <1>1, <1>2
  <2>2. ASSUME NEW v \in T, D[v] < D[u]
        PROVE  f[v] = g[v]
    <3>1. PICK h \in [T -> R] : h = G(D[v] + 1) /\ Upto(T, D, F, h, D[v] + 1)
      BY <1>1, <1>2
    <3>2. \A w \in T : D[w] < D[v] + 1 => D[w] < D[u] + 1
      BY <1>2, <2>2
    <3>3. Upto(T, D, F, g, D[v] + 1)
      BY <2>1, <3>2 DEF Upto
    <3>4. D[v] < D[v] + 1
      BY <1>2
    <3>5. h[v] = g[v]
      BY <1>2, <3>1, <3>3, <3>4, UptoAgree
    <3> QED BY <3>1, <3>5
  <2> HIDE DEF f
  <2>3. F[f][u] = F[g][u]
    BY <1>3, <2>2 DEF Recursion
  <2>4. D[u] < D[u] + 1
    BY <1>2
  <2>5. g[u] = F[g][u]
    BY <2>1, <2>4 DEF Upto
  <2>6. f[u] = g[u]
    BY <2>1 DEF f
  <2> QED BY <2>3, <2>5, <2>6
<1> HIDE DEF f
<1>5. F[f] \in [T -> R]
  BY <1>3 DEF Recursion
<1>6. F[f] = f
  BY <1>3, <1>4, <1>5
<1> QED BY <1>3, <1>6

------------------------------------------------------------------------------
(* Numbers as atoms. *)

(* A byte and an atom. *)
Byte == 0 .. Base - 1
Atom == Seq(Byte)

(* The sequences of bytes and the numbers the constants are.                *)
LEMMA ConstantTypes ==
  /\ Base \in Nat /\ Base > 2 /\ WordBytes \in Nat \ {0} /\ FieldBytes \in Nat \ {0}
  /\ MAX_FIELD \in Nat /\ MAX_FIELD > 3
  /\ BytesLength \in Nat \ {0} /\ UintMax \in Nat \ {0} /\ EnumMax \in Nat \ {0}
<1>1. Base \in Nat /\ Base > 2 /\ WordBytes \in Nat \ {0} /\ FieldBytes \in Nat \ {0} /\ MAX_FIELD \in Nat
  BY BytesAssumption
<1>2. Jubjub.p \in Nat \ 0 .. 4 /\ Jubjub.p = MAX_FIELD + 1
  BY CurvesAssumption
<1>3. MAX_FIELD > 3
  BY <1>1, <1>2
<1> QED BY <1>1, <1>3, ValuesAssumption

(* Quotient and remainder by the base of the bytes.                         *)
LEMMA DivBase ==
  ASSUME NEW x \in Nat
  PROVE  /\ x \div Base \in Nat /\ x % Base \in Byte
         /\ x = (x \div Base) * Base + (x % Base)
         /\ x # 0 => x \div Base < x
<1>1. PICK b \in Nat : b = Base /\ b > 2
  BY ConstantTypes
<1>2. /\ x \div b \in Nat /\ x % b \in 0 .. b - 1
      /\ x = (x \div b) * b + (x % b)
  BY <1>1
<1>3. x # 0 => x \div b < x
  <2>1. PICK q \in Nat : q = x \div b
    BY <1>2
  <2>2. PICK r \in 0 .. b - 1 : r = x % b
    BY <1>2
  <2>3. x = q * b + r
    BY <1>2, <2>1, <2>2
  <2>4. q * b >= q + q
    BY <1>1
  <2> QED BY <2>1, <2>2, <2>3, <2>4
<1> QED BY <1>1, <1>2, <1>3 DEF Byte

(* What a function that writes numbers as atoms returns at x. *)
Written(g, x) == IF x = 0 THEN <<>> ELSE <<x % Base>> \o g[x \div Base]

(* The equation of Digits, and its values: bytes.                           *)
LEMMA DigitsDefined ==
  /\ Digits \in [Nat -> Atom]
  /\ \A x \in Nat : Digits[x] = Written(Digits, x)
<1>1. PICK T : T = Nat
  OBVIOUS
<1>2. PICK R : R = Atom /\ R # {}
  BY EmptySeq DEF Atom
<1> DEFINE F == [g \in [T -> R] |-> [x \in T |-> Written(g, x)]]
<1>7. PICK D : D = [x \in T |-> x]
  OBVIOUS
<1>3. ASSUME NEW g \in [T -> R], NEW x \in T
      PROVE  Written(g, x) \in R
  <2>1. x \div Base \in Nat /\ x % Base \in Byte
    BY <1>1, DivBase
  <2>2. g[x \div Base] \in Atom
    BY <1>1, <1>2, <1>3, <2>1
  <2>3. <<x % Base>> \in Atom /\ <<>> \in Atom
    BY <2>1 DEF Atom
  <2>4. <<x % Base>> \o g[x \div Base] \in Atom
    BY <2>2, <2>3, ConcatProperties DEF Atom
  <2> QED BY <1>2, <2>3, <2>4 DEF Written
<1>4. F \in [[T -> R] -> [T -> R]]
  BY <1>3
<1>5. ASSUME NEW g \in [T -> R], NEW h \in [T -> R], NEW x \in T,
             \A u \in T : D[u] < D[x] => g[u] = h[u]
      PROVE  F[g][x] = F[h][x]
  <2>1. x \div Base \in Nat /\ (x # 0 => x \div Base < x)
    BY <1>1, DivBase
  <2>2. x # 0 => g[x \div Base] = h[x \div Base]
    BY <1>1, <1>5, <1>7, <2>1
  <2>3. Written(g, x) = Written(h, x)
    BY <2>2 DEF Written
  <2> QED BY <2>3
<1>6. PICK G : G = F
  OBVIOUS
<1>8. Recursion(T, R, D, G)
  <2>1. D \in [T -> Nat]
    BY <1>1, <1>7
  <2> HIDE DEF F
  <2>2. ASSUME NEW g \in [T -> R], NEW h \in [T -> R], NEW u \in T,
             \A v \in T : D[v] < D[u] => g[v] = h[v]
      PROVE  G[g][u] = G[h][u]
    BY <1>5, <1>6, <2>2
  <2>3. G \in [[T -> R] -> [T -> R]]
    BY <1>4, <1>6
  <2> QED BY <2>1, <2>2, <2>3, Zenon DEF Recursion
<1>9. PICK f \in [T -> R] : G[f] = f
  BY <1>2, <1>8, RecursionDefines
<1>10. f = [x \in T |-> Written(f, x)]
  BY <1>6, <1>9
<1> DEFINE Table(g) == g = [x \in Nat |-> IF x = 0 THEN <<>> ELSE <<x % Base>> \o g[x \div Base]]
           d == CHOOSE g : Table(g)
<1>11. Table(f)
  BY <1>1, <1>10 DEF Written
<1>12. Table(d)
  BY <1>11
<1>13. d = Digits
  BY DEF Digits
<1> HIDE DEF d
<1>14. \A x \in Nat : Digits[x] = Written(Digits, x)
  BY <1>12, <1>13 DEF Written
<1>15. Digits = [x \in Nat |-> Digits[x]]
  BY <1>12, <1>13
<1>16. \A x \in Nat : Digits[x] \in Atom
  <2> DEFINE bad == {x \in Nat : Digits[x] \notin Atom}
  <2>1. SUFFICES ASSUME bad # {} PROVE FALSE
    OBVIOUS
  <2>2. PICK m \in bad : \A i \in bad : m <= i
    BY <2>1, Least
  <2>3. m \in Nat /\ Digits[m] \notin Atom
    BY <2>2
  <2>4. m \div Base \in Nat /\ m % Base \in Byte /\ (m # 0 => m \div Base < m)
    BY <2>3, DivBase
  <2>5. m = 0 => Digits[m] \in Atom
    <3>1. <<>> \in Atom
      BY DEF Atom
    <3> QED BY <1>14, <2>3, <3>1 DEF Written
  <2>6. m # 0 => m \div Base \notin bad
    <3> HIDE DEF bad
    <3> QED BY <2>2, <2>3, <2>4
  <2>7. m # 0 => Digits[m \div Base] \in Atom
    BY <2>4, <2>6
  <2>8. <<m % Base>> \in Atom
    BY <2>4 DEF Atom
  <2>9. m # 0 => <<m % Base>> \o Digits[m \div Base] \in Atom
    BY <2>7, <2>8, ConcatProperties DEF Atom
  <2> QED BY <1>14, <2>3, <2>5, <2>9 DEF Written
<1> QED BY <1>14, <1>15, <1>16

------------------------------------------------------------------------------
(* Reading an atom, by Horner's rule. *)

(* Induction over a set of naturals: a member follows from the smaller ones. *)
LEMMA Induction ==
  ASSUME NEW S, \A n \in Nat : (\A k \in 0 .. n - 1 : k \in S) => n \in S
  PROVE  \A n \in Nat : n \in S
<1> DEFINE bad == {n \in Nat : n \notin S}
<1>1. SUFFICES ASSUME bad # {} PROVE FALSE
  OBVIOUS
<1>2. PICK m \in bad : \A i \in bad : m <= i
  BY <1>1, Least
<1>3. \A k \in 0 .. m - 1 : k \in Nat /\ k \notin bad
  <2> HIDE DEF bad
  <2>1. m \in Nat
    BY <1>2 DEF bad
  <2> QED BY <1>2, <2>1
<1> QED BY <1>2, <1>3

(* Over the indices of a sequence, from the first up or from past the end down. *)
LEMMA Upward ==
  ASSUME NEW n \in Nat, NEW S, 0 \in S, \A i \in 0 .. n - 1 : i \in S => i + 1 \in S
  PROVE  \A i \in 0 .. n : i \in S
<1> DEFINE T == {k \in Nat : k <= n => k \in S}
<1>1. ASSUME NEW k \in Nat, \A j \in 0 .. k - 1 : j \in T
      PROVE  k \in T
  <2>1. CASE k = 0
    BY <2>1
  <2>2. CASE k # 0
    <3>1. PICK j \in Nat : k = j + 1
      BY <2>2
    <3>2. j \in T
      BY <1>1, <3>1
    <3>3. k <= n => j \in 0 .. n - 1 /\ j <= n
      BY <3>1
    <3> QED BY <3>1, <3>2, <3>3
  <2> QED BY <2>1, <2>2
<1> HIDE DEF T
<1>2. \A k \in Nat : k \in T
  BY <1>1, Induction
<1> QED BY <1>2 DEF T

(* Downward induction over an interval. *)
LEMMA Downward ==
  ASSUME NEW n \in Nat, NEW S, n + 1 \in S, \A i \in 1 .. n : i + 1 \in S => i \in S
  PROVE  \A i \in 1 .. n + 1 : i \in S
<1> DEFINE T == {k \in Nat : k <= n => n + 1 - k \in S}
<1>1. 0 \in T
  OBVIOUS
<1>2. ASSUME NEW k \in 0 .. n - 1, k \in T
      PROVE  k + 1 \in T
  <2>1. PICK i : i = n + 1 - (k + 1)
    OBVIOUS
  <2>2. i \in 1 .. n /\ i + 1 = n + 1 - k
    BY <2>1
  <2> QED BY <1>2, <2>1, <2>2
<1> HIDE DEF T
<1>3. \A k \in 0 .. n : k \in T
  BY <1>1, <1>2, Upward
<1>4. ASSUME NEW i \in 1 .. n + 1
      PROVE  i \in S
  <2>1. n + 1 - i \in 0 .. n
    OBVIOUS
  <2>2. n + 1 - i \in T
    BY <1>3, <2>1
  <2>3. n + 1 - (n + 1 - i) = i
    OBVIOUS
  <2> QED BY <2>1, <2>2, <2>3 DEF T
<1> QED BY <1>4

(* The sums of Horner's rule for a number, from each byte on.               *)
HornerAt(atom, f, i) == IF i > Len(atom) THEN 0 ELSE atom[i] + Base * f[i + 1]
(* f is the table of the partial sums of an atom. *)
Horner(atom, f) ==
  /\ f \in [1 .. Len(atom) + 1 -> Nat]
  /\ \A i \in 1 .. Len(atom) + 1 : f[i] = HornerAt(atom, f, i)

(* A partial sum is a number. *)
LEMMA HornerType ==
  ASSUME NEW atom \in Atom, NEW g \in [1 .. Len(atom) + 1 -> Nat], NEW i \in 1 .. Len(atom) + 1
  PROVE  HornerAt(atom, g, i) \in Nat
<1>1. Len(atom) \in Nat
  BY LenProperties DEF Atom
<1>2. CASE i > Len(atom)
  BY <1>2 DEF HornerAt
<1>3. CASE ~(i > Len(atom))
  <2>1. i \in 1 .. Len(atom) /\ i + 1 \in 1 .. Len(atom) + 1
    BY <1>1, <1>3
  <2>2. atom[i] \in Byte
    BY <2>1, ElementOfSeq DEF Atom
  <2>3. atom[i] \in Nat /\ g[i + 1] \in Nat /\ Base \in Nat
    BY <2>1, <2>2, ConstantTypes DEF Byte
  <2> QED BY <1>3, <2>3 DEF HornerAt
<1> QED BY <1>2, <1>3

(* The sums exist, and the first one is the number.                         *)
LEMMA NumberIsHorner ==
  ASSUME NEW atom \in Atom
  PROVE  \E f : Horner(atom, f) /\ Number(atom) = f[1]
<1>1. PICK n \in Nat : n = Len(atom)
  BY LenProperties DEF Atom
<1>2. PICK T : T = 1 .. n + 1
  OBVIOUS
<1>3. PICK R : R = Nat /\ R # {}
  OBVIOUS
<1>4. PICK D : D = [i \in T |-> n + 1 - i]
  OBVIOUS
<1> DEFINE F == [g \in [T -> R] |-> [i \in T |-> HornerAt(atom, g, i)]]
<1>5. \A g \in [T -> R] : \A i \in T : HornerAt(atom, g, i) \in R
  BY <1>1, <1>2, <1>3, HornerType
<1>6. F \in [[T -> R] -> [T -> R]]
  BY <1>5
<1>7. ASSUME NEW g \in [T -> R], NEW h \in [T -> R], NEW i \in T,
             \A u \in T : D[u] < D[i] => g[u] = h[u]
      PROVE  F[g][i] = F[h][i]
  <2>1. CASE i > n
    BY <1>1, <2>1 DEF HornerAt
  <2>2. CASE ~(i > n)
    <3>1. i + 1 \in T /\ D[i + 1] < D[i]
      BY <1>2, <1>4, <2>2
    <3>2. g[i + 1] = h[i + 1]
      BY <1>7, <3>1
    <3>3. HornerAt(atom, g, i) = HornerAt(atom, h, i)
      BY <3>2 DEF HornerAt
    <3> QED BY <3>3
  <2> QED BY <2>1, <2>2
<1>8. PICK G : G = F
  OBVIOUS
<1>9. Recursion(T, R, D, G)
  <2>1. D \in [T -> Nat]
    BY <1>2, <1>4
  <2> HIDE DEF F
  <2>2. ASSUME NEW g \in [T -> R], NEW h \in [T -> R], NEW u \in T,
             \A v \in T : D[v] < D[u] => g[v] = h[v]
      PROVE  G[g][u] = G[h][u]
    BY <1>7, <1>8, <2>2
  <2>3. G \in [[T -> R] -> [T -> R]]
    BY <1>6, <1>8
  <2> QED BY <2>1, <2>2, <2>3, Zenon DEF Recursion
<1>10. PICK f \in [T -> R] : G[f] = f
  BY <1>3, <1>9, RecursionDefines
<1>11. f = [i \in T |-> HornerAt(atom, f, i)]
  BY <1>8, <1>10
<1> DEFINE Table(g) == g = [i \in 1 .. Len(atom) + 1 |-> IF i > Len(atom) THEN 0 ELSE atom[i] + Base * g[i + 1]]
           from == CHOOSE g : Table(g)
<1>12. Table(f)
  BY <1>1, <1>2, <1>11 DEF HornerAt
<1>13. Table(from)
  BY <1>12
<1>14. Number(atom) = from[1]
  BY DEF Number
<1> HIDE DEF from
<1>15. PICK g : g = from
  OBVIOUS
<1>16. g = [i \in T |-> HornerAt(atom, g, i)]
  BY <1>1, <1>2, <1>13, <1>15 DEF HornerAt
<1>17. \A i \in T : g[i] = HornerAt(atom, g, i)
  BY <1>16
<1>18. \A i \in 1 .. n + 1 : i \in {j \in T : g[j] \in Nat}
  <2> DEFINE S == {j \in T : g[j] \in Nat}
  <2>1. n + 1 \in S
    <3>1. n + 1 \in T /\ n + 1 > n
      BY <1>2
    <3>2. HornerAt(atom, g, n + 1) = 0
      BY <1>1, <3>1 DEF HornerAt
    <3> QED BY <1>17, <3>1, <3>2
  <2>2. ASSUME NEW i \in 1 .. n, i + 1 \in S
        PROVE  i \in S
    <3>1. i \in T /\ ~(i > n) /\ g[i + 1] \in Nat
      BY <1>2, <2>2
    <3>2. atom[i] \in Byte
      BY <1>1, ElementOfSeq DEF Atom
    <3>3. atom[i] \in Nat /\ Base \in Nat
      BY <3>2, ConstantTypes DEF Byte
    <3>4. HornerAt(atom, g, i) \in Nat
      BY <1>1, <3>1, <3>3 DEF HornerAt
    <3> QED BY <1>17, <3>1, <3>4
  <2> HIDE DEF S
  <2>3. \A i \in 1 .. n + 1 : i \in S
    BY <2>1, <2>2, Downward
  <2> QED BY <2>3 DEF S
<1>19. g \in [1 .. n + 1 -> Nat]
  BY <1>2, <1>16, <1>18
<1>20. Horner(atom, g)
  BY <1>1, <1>2, <1>17, <1>19 DEF Horner
<1> QED BY <1>14, <1>15, <1>20

(* b is the end of a, from index d + 1; the partial sums there agree. *)
EndsAs(a, d, b) == Len(b) + d = Len(a) /\ \A i \in 1 .. Len(b) : b[i] = a[i + d]
SumsAgree(f, d, g, n) == \A i \in 1 .. n + 1 : g[i] = f[i + d]

(* The sums are determined: those of a sequence that ends like another agree. *)
LEMMA HornerUnique ==
  ASSUME NEW a \in Atom, NEW b \in Atom, NEW f, Horner(a, f), NEW g, Horner(b, g),
         NEW d \in Nat, EndsAs(a, d, b)
  PROVE  SumsAgree(f, d, g, Len(b))
<1>1. PICK n \in Nat : n = Len(b)
  BY LenProperties DEF Atom
<1>2. Len(a) = n + d
  BY <1>1 DEF EndsAs
<1> DEFINE S == {i \in 1 .. n + 1 : g[i] = f[i + d]}
<1>3. n + 1 \in S
  <2>1. HornerAt(a, f, n + 1 + d) = 0 /\ HornerAt(b, g, n + 1) = 0
    BY <1>1, <1>2 DEF HornerAt
  <2>2. n + 1 + d \in 1 .. Len(a) + 1 /\ n + 1 \in 1 .. Len(b) + 1
    BY <1>1, <1>2
  <2> QED BY <1>1, <2>1, <2>2 DEF Horner
<1>4. ASSUME NEW i \in 1 .. n, i + 1 \in S
      PROVE  i \in S
  <2>1. i + d \in 1 .. Len(a) + 1 /\ i \in 1 .. Len(b) + 1 /\ ~(i > Len(b)) /\ ~(i + d > Len(a))
    BY <1>1, <1>2
  <2>2. g[i] = b[i] + Base * g[i + 1] /\ f[i + d] = a[i + d] + Base * f[i + d + 1]
    BY <2>1 DEF Horner, HornerAt
  <2>3. g[i + 1] = f[i + d + 1] /\ b[i] = a[i + d]
    <3>1. (i + 1) + d = i + d + 1
      OBVIOUS
    <3> QED BY <1>1, <1>4, <3>1 DEF EndsAs
  <2> QED BY <2>2, <2>3
<1> HIDE DEF S
<1>5. \A i \in 1 .. n + 1 : i \in S
  BY <1>3, <1>4, Downward
<1> QED BY <1>1, <1>5 DEF S, SumsAgree

(* The number of a sequence of bytes.                                       *)
LEMMA NumberType ==
  ASSUME NEW atom \in Atom
  PROVE  Number(atom) \in Nat
<1>1. PICK f : Horner(atom, f) /\ Number(atom) = f[1]
  BY NumberIsHorner
<1>2. 1 \in 1 .. Len(atom) + 1
  BY LenProperties DEF Atom
<1> QED BY <1>1, <1>2 DEF Horner

(* The empty atom is zero. *)
LEMMA NumberEmpty == Number(<<>>) = 0
<1>1. <<>> \in Atom /\ Len(<<>>) = 0
  BY EmptySeq DEF Atom
<1>2. PICK f : Horner(<<>>, f) /\ Number(<<>>) = f[1]
  BY <1>1, NumberIsHorner
<1>3. 1 \in 1 .. Len(<<>>) + 1 /\ 1 > Len(<<>>)
  BY <1>1
<1> QED BY <1>2, <1>3 DEF Horner, HornerAt

(* Horner's rule: the first byte is the least significant. *)
LEMMA NumberCons ==
  ASSUME NEW s \in Atom, NEW b \in Byte
  PROVE  Number(<<b>> \o s) = b + Base * Number(s)
<1>1. PICK a : a = <<b>> \o s
  OBVIOUS
<1>2. <<b>> \in Seq(Byte) /\ Len(<<b>>) = 1 /\ <<b>>[1] = b
  OBVIOUS
<1>3. a \in Atom /\ Len(a) = 1 + Len(s) /\ \A i \in 1 .. 1 + Len(s) : a[i] = IF i <= 1 THEN b ELSE s[i - 1]
  BY <1>1, <1>2, ConcatProperties DEF Atom
<1>4. Len(s) \in Nat
  BY LenProperties DEF Atom
<1>5. PICK f : Horner(a, f) /\ Number(a) = f[1]
  BY <1>3, NumberIsHorner
<1>6. PICK g : Horner(s, g) /\ Number(s) = g[1]
  BY NumberIsHorner
<1>7. \A i \in 1 .. Len(s) : s[i] = a[i + 1]
  BY <1>3, <1>4
<1>8. \A i \in 1 .. Len(s) + 1 : g[i] = f[i + 1]
  <2>1. PICK d \in Nat : d = 1
    OBVIOUS
  <2>2. EndsAs(a, d, s)
    <3>1. Len(s) + d = Len(a)
      BY <1>3, <1>4, <2>1
    <3>2. \A i \in 1 .. Len(s) : s[i] = a[i + d]
      BY <1>7, <2>1, Zenon
    <3> QED BY <3>1, <3>2 DEF EndsAs
  <2>3. SumsAgree(f, d, g, Len(s))
    BY <1>3, <1>5, <1>6, <2>2, HornerUnique
  <2> QED BY <2>1, <2>3 DEF SumsAgree
<1>9. g[1] = f[2]
  BY <1>4, <1>8
<1>10. f[1] = a[1] + Base * f[2]
  <2>1. 1 \in 1 .. Len(a) + 1 /\ ~(1 > Len(a))
    BY <1>3, <1>4
  <2> QED BY <1>5, <2>1 DEF Horner, HornerAt
<1>11. a[1] = b
  BY <1>3, <1>4
<1> QED BY <1>1, <1>5, <1>6, <1>9, <1>10, <1>11

(* A number is read back from its digits.                                   *)
LEMMA NumberOfDigits == \A x \in Nat : Number(Digits[x]) = x
<1> DEFINE S == {x \in Nat : Number(Digits[x]) = x}
<1>1. ASSUME NEW x \in Nat, \A k \in 0 .. x - 1 : k \in S
      PROVE  x \in S
  <2>1. Digits[x] = Written(Digits, x)
    BY DigitsDefined
  <2>2. CASE x = 0
    BY <2>1, <2>2, NumberEmpty DEF Written
  <2>3. CASE x # 0
    <3>1. PICK q \in Nat, r \in Byte : q = x \div Base /\ r = x % Base /\ x = q * Base + r /\ q < x
      BY <2>3, DivBase
    <3>2. Number(Digits[q]) = q /\ Digits[q] \in Atom
      BY <1>1, <3>1, DigitsDefined
    <3>3. Number(<<r>> \o Digits[q]) = r + Base * Number(Digits[q])
      BY <3>2, NumberCons
    <3>4. r + Base * q = x
      BY <3>1, ConstantTypes DEF Byte
    <3> QED BY <2>1, <2>3, <3>1, <3>2, <3>3, <3>4 DEF Written
  <2> QED BY <2>2, <2>3
<1> HIDE DEF S
<1>2. \A x \in Nat : x \in S
  BY <1>1, Induction
<1> QED BY <1>2 DEF S

------------------------------------------------------------------------------
(* The length of the digits; padding and trimming. *)

(* The atom of n bytes of the greatest value. *)
Full(n) == [i \in 1 .. n |-> Base - 1]

(* Full(n) is an atom of n bytes. *)
LEMMA FullType == \A n \in Nat : Full(n) \in Atom /\ Len(Full(n)) = n
<1>1. Base - 1 \in Byte
  BY ConstantTypes DEF Byte
<1> QED BY <1>1 DEF Full, Atom

(* The number of n + 1 full bytes from that of n. *)
LEMMA FullStep ==
  ASSUME NEW n \in Nat
  PROVE  Number(Full(n + 1)) = (Base - 1) + Base * Number(Full(n))
<1>1. PICK b \in Byte : b = Base - 1
  BY ConstantTypes DEF Byte
<1>2. Full(n) \in Seq(Byte) /\ Len(Full(n)) = n /\ Full(n + 1) \in Seq(Byte) /\ Len(Full(n + 1)) = n + 1
  BY FullType DEF Atom
<1>3. <<b>> \in Seq(Byte) /\ Len(<<b>>) = 1 /\ <<b>>[1] = b
  OBVIOUS
<1>4. PICK s : s = <<b>> \o Full(n)
  OBVIOUS
<1>5. s \in Seq(Byte) /\ Len(s) = n + 1 /\ \A i \in 1 .. n + 1 : s[i] = IF i <= 1 THEN b ELSE Full(n)[i - 1]
  <2>1. 1 + n = n + 1
    OBVIOUS
  <2> QED BY <1>2, <1>3, <1>4, <2>1, ConcatProperties
<1>6. \A i \in 1 .. n + 1 : s[i] = Full(n + 1)[i]
  BY <1>1, <1>5 DEF Full
<1>7. s = Full(n + 1)
  BY <1>2, <1>5, <1>6, SeqEqual
<1>8. Number(<<b>> \o Full(n)) = b + Base * Number(Full(n))
  BY <1>2, NumberCons DEF Atom
<1> QED BY <1>1, <1>4, <1>7, <1>8

(* No byte holds zero only. *)
LEMMA FullZero == Number(Full(0)) = 0
<1>1. Full(0) = <<>>
  BY DEF Full
<1> QED BY <1>1, NumberEmpty

(* A number is at most the largest of its length.                           *)
LEMMA NumberBound ==
  ASSUME NEW a \in Atom
  PROVE  Number(a) <= Number(Full(Len(a)))
<1>1. PICK n \in Nat : n = Len(a)
  BY LenProperties DEF Atom
<1>2. PICK f : Horner(a, f) /\ Number(a) = f[1]
  BY NumberIsHorner
<1> DEFINE S == {i \in 1 .. n + 1 : f[i] <= Number(Full(n + 1 - i))}
<1>3. n + 1 \in S
  <2>1. f[n + 1] = 0
    BY <1>1, <1>2 DEF Horner, HornerAt
  <2>2. n + 1 - (n + 1) = 0
    OBVIOUS
  <2> QED BY <2>1, <2>2, FullZero
<1>4. ASSUME NEW i \in 1 .. n, i + 1 \in S
      PROVE  i \in S
  <2>1. f[i] = a[i] + Base * f[i + 1] /\ f[i + 1] \in Nat
    BY <1>1, <1>2 DEF Horner, HornerAt
  <2>2. PICK k \in Nat : k = n - i
    OBVIOUS
  <2>3. n + 1 - (i + 1) = k /\ n + 1 - i = k + 1
    BY <2>2
  <2>4. PICK m \in Nat : m = Number(Full(k))
    BY FullType, NumberType
  <2>5. f[i + 1] <= m
    BY <1>4, <2>3, <2>4
  <2>6. a[i] \in Byte
    BY <1>1, ElementOfSeq DEF Atom
  <2>7. Number(Full(n + 1 - i)) = (Base - 1) + Base * m
    BY <2>3, <2>4, FullStep
  <2>8. PICK b \in Nat : b = Base /\ b > 2
    BY ConstantTypes
  <2>9. b * f[i + 1] <= b * m
    BY <2>1, <2>5, <2>8
  <2>10. f[i] <= Number(Full(n + 1 - i))
    BY <2>1, <2>6, <2>7, <2>8, <2>9 DEF Byte
  <2> QED BY <2>10
<1> HIDE DEF S
<1>5. \A i \in 1 .. n + 1 : i \in S
  BY <1>3, <1>4, Downward
<1>6. 1 \in S /\ n + 1 - 1 = n
  BY <1>5
<1> QED BY <1>1, <1>2, <1>6 DEF S

(* The digits of what n bytes can hold are at most n. *)
ShortUpTo(n) == \A x \in Nat : x <= Number(Full(n)) => Len(Digits[x]) <= n

(* And what is no larger than that has no more digits.                      *)
LEMMA DigitsShort == \A n \in Nat : ShortUpTo(n)
<1> DEFINE S == {n \in Nat : ShortUpTo(n)}
<1>1. ASSUME NEW n \in Nat, \A k \in 0 .. n - 1 : k \in S
      PROVE  n \in S
  <2> SUFFICES ASSUME NEW x \in Nat, x <= Number(Full(n))
               PROVE  Len(Digits[x]) <= n
    BY DEF ShortUpTo
  <2>1. Digits[x] = Written(Digits, x)
    BY DigitsDefined
  <2>2. CASE x = 0
    BY <2>1, <2>2, EmptySeq DEF Written
  <2>3. CASE x # 0
    <3>1. n # 0
      BY <2>3, FullZero
    <3>2. PICK k \in 0 .. n - 1 : n = k + 1 /\ k \in Nat
      BY <3>1
    <3>3. PICK m \in Nat : m = Number(Full(k))
      BY <3>2, FullType, NumberType
    <3>4. x <= (Base - 1) + Base * m
      BY <3>2, <3>3, FullStep
    <3>5. PICK q \in Nat, r \in Byte : q = x \div Base /\ r = x % Base /\ x = q * Base + r
      BY DivBase
    <3>6. q <= m
      <4>1. PICK b \in Nat : b = Base /\ b > 2
        BY ConstantTypes
      <4>2. SUFFICES ASSUME q >= m + 1 PROVE FALSE
        OBVIOUS
      <4>3. q * b >= (m + 1) * b
        BY <4>1, <4>2
      <4>4. (m + 1) * b = m * b + b /\ m * b = b * m
        BY <4>1
      <4> QED BY <3>4, <3>5, <4>1, <4>3, <4>4 DEF Byte
    <3>7. Len(Digits[q]) <= k
      BY <1>1, <3>2, <3>3, <3>6 DEF ShortUpTo
    <3>8. Digits[q] \in Seq(Byte) /\ <<r>> \in Seq(Byte) /\ Len(<<r>>) = 1
      BY DigitsDefined DEF Atom
    <3>9. Len(<<r>> \o Digits[q]) = 1 + Len(Digits[q]) /\ Len(Digits[q]) \in Nat
      BY <3>8, ConcatProperties, LenProperties
    <3> QED BY <2>1, <2>3, <3>2, <3>5, <3>7, <3>9 DEF Written
  <2> QED BY <2>2, <2>3
<1> HIDE DEF S
<1>2. \A n \in Nat : n \in S
  BY <1>1, Induction
<1> QED BY <1>2 DEF S

(* A smaller number has no more digits.                                     *)
LEMMA DigitsMonotone ==
  ASSUME NEW y \in Nat, NEW x \in 0 .. y
  PROVE  Len(Digits[x]) <= Len(Digits[y])
<1>1. Digits[y] \in Atom /\ Number(Digits[y]) = y
  BY DigitsDefined, NumberOfDigits
<1>2. PICK n \in Nat : n = Len(Digits[y])
  BY <1>1, LenProperties DEF Atom
<1>3. y <= Number(Full(n))
  BY <1>1, <1>2, NumberBound
<1>4. Number(Full(n)) \in Nat
  BY FullType, NumberType
<1>5. x \in Nat /\ x <= Number(Full(n))
  BY <1>3, <1>4
<1> QED BY <1>2, <1>5, DigitsShort DEF ShortUpTo

(* The number of an end of a sequence is at most that of all of it.         *)
LEMMA NumberOfEnd ==
  ASSUME NEW a \in Atom, NEW i \in 1 .. Len(a)
  PROVE  Number(SubSeq(a, i, Len(a))) <= Number(a)
<1>1. PICK n \in Nat : n = Len(a)
  BY LenProperties DEF Atom
<1>2. PICK f : Horner(a, f) /\ Number(a) = f[1]
  BY NumberIsHorner
<1> DEFINE S == {j \in 0 .. n : f[j + 1] <= f[1]}
<1>3. 0 \in S
  BY <1>1, <1>2 DEF Horner
<1>4. ASSUME NEW j \in 0 .. n - 1, j \in S
      PROVE  j + 1 \in S
  <2>1. j + 1 \in 1 .. n + 1 /\ j + 2 \in 1 .. n + 1 /\ ~(j + 1 > n) /\ (j + 1) + 1 = j + 2
    OBVIOUS
  <2>2. f[j + 1] = a[j + 1] + Base * f[j + 2] /\ f[j + 2] \in Nat /\ f[j + 1] \in Nat /\ f[1] \in Nat
    BY <1>1, <1>2, <2>1 DEF Horner, HornerAt
  <2>3. a[j + 1] \in Byte
    BY <1>1, ElementOfSeq DEF Atom
  <2>4. PICK b \in Nat : b = Base /\ b > 2
    BY ConstantTypes
  <2>5. b * f[j + 2] >= f[j + 2]
    BY <2>2, <2>4
  <2>6. f[j + 2] <= f[j + 1]
    BY <2>2, <2>3, <2>4, <2>5 DEF Byte
  <2> QED BY <1>4, <2>1, <2>2, <2>6
<1> HIDE DEF S
<1>5. \A j \in 0 .. n : j \in S
  BY <1>3, <1>4, Upward
<1>6. PICK d \in 0 .. n : d = i - 1
  BY <1>1
<1>7. f[i] <= f[1]
  <2>1. d \in S /\ d + 1 = i
    BY <1>1, <1>5, <1>6
  <2>2. f[d + 1] <= f[1]
    BY <2>1 DEF S
  <2> QED BY <2>1, <2>2
<1>8. PICK s : s = SubSeq(a, i, Len(a))
  OBVIOUS
<1>9. s \in Atom /\ Len(s) = n - d /\ \A j \in 1 .. n - d : s[j] = a[i + j - 1]
  <2>1. \A j \in i .. n : a[j] \in Byte
    BY <1>1, ElementOfSeq DEF Atom
  <2>2. i <= n /\ n - i + 1 = n - d
    BY <1>1, <1>6
  <2> QED BY <1>1, <1>8, <2>1, <2>2, SubSeqProperties DEF Atom
<1>10. EndsAs(a, d, s)
  <2>1. \A j \in 1 .. Len(s) : i + j - 1 = j + d
    BY <1>6, <1>9
  <2>2. Len(s) + d = Len(a)
    BY <1>1, <1>9
  <2> QED BY <1>9, <2>1, <2>2 DEF EndsAs
<1>11. PICK g : Horner(s, g) /\ Number(s) = g[1]
  BY <1>9, NumberIsHorner
<1>12. SumsAgree(f, d, g, Len(s))
  <2>1. d \in Nat
    BY <1>6
  <2> QED BY <1>2, <1>9, <1>10, <1>11, <2>1, HornerUnique
<1>13. g[1] = f[i]
  <2>1. 1 \in 1 .. Len(s) + 1 /\ 1 + d = i
    BY <1>6, <1>9
  <2> QED BY <1>12, <2>1 DEF SumsAgree
<1> QED BY <1>2, <1>7, <1>8, <1>11, <1>13

(* Padding.                                                                 *)
Trim(a) == Len(a) > 0 => a[Len(a)] # 0

(* Padding an atom gives as many bytes as asked for: its own, then zeros. *)
LEMMA PaddedType ==
  ASSUME NEW a \in Atom, NEW n \in Nat
  PROVE  /\ Padded(a, n) \in Atom /\ Len(Padded(a, n)) = n
         /\ \A i \in 1 .. n : Padded(a, n)[i] = IF i <= Len(a) THEN a[i] ELSE 0
         /\ Padded(a, n) \in Bytes(n)
<1>1. Len(a) \in Nat
  BY LenProperties DEF Atom
<1>2. ASSUME NEW i \in 1 .. n
      PROVE  (IF i <= Len(a) THEN a[i] ELSE 0) \in Byte
  <2>1. 0 \in Byte
    BY ConstantTypes DEF Byte
  <2>2. i <= Len(a) => a[i] \in Byte
    BY <1>1, ElementOfSeq DEF Atom
  <2> QED BY <2>1, <2>2
<1>3. Padded(a, n) \in [1 .. n -> Byte]
  BY <1>2 DEF Padded
<1>4. Padded(a, n) \in Seq(Byte) /\ Len(Padded(a, n)) = n
  BY <1>3 DEF Padded
<1> QED BY <1>3, <1>4 DEF Padded, Atom, Bytes, Byte

(* Zeros past the end leave the number as it is.                            *)
LEMMA NumberOfPadded ==
  ASSUME NEW a \in Atom, NEW n \in Nat, Len(a) <= n
  PROVE  Number(Padded(a, n)) = Number(a)
<1>1. PICK l \in Nat : l = Len(a)
  BY LenProperties DEF Atom
<1>2. PICK p \in Atom : p = Padded(a, n) /\ Len(p) = n
         /\ \A i \in 1 .. n : p[i] = IF i <= Len(a) THEN a[i] ELSE 0
  BY PaddedType
<1>3. PICK f : Horner(a, f) /\ Number(a) = f[1]
  BY NumberIsHorner
<1>4. PICK h : Horner(p, h) /\ Number(p) = h[1]
  BY NumberIsHorner
<1> DEFINE S == {i \in 1 .. n + 1 : h[i] = IF i <= l THEN f[i] ELSE 0}
<1>5. n + 1 \in S
  <2>1. h[n + 1] = 0
    BY <1>2, <1>4 DEF Horner, HornerAt
  <2> QED BY <1>1, <2>1
<1>6. ASSUME NEW i \in 1 .. n, i + 1 \in S
      PROVE  i \in S
  <2>1. h[i] = p[i] + Base * h[i + 1]
    BY <1>2, <1>4 DEF Horner, HornerAt
  <2>2. PICK b \in Nat : b = Base
    BY ConstantTypes
  <2>3. CASE i < l
    <3>1. i <= l /\ i + 1 <= l /\ i \in 1 .. Len(a) + 1 /\ ~(i > Len(a))
      BY <1>1, <2>3
    <3>2. f[i] = a[i] + Base * f[i + 1]
      BY <1>3, <3>1 DEF Horner, HornerAt
    <3>3. p[i] = a[i]
      BY <1>1, <1>2, <3>1
    <3>4. h[i + 1] = f[i + 1]
      BY <1>6, <3>1
    <3> QED BY <2>1, <3>1, <3>2, <3>3, <3>4
  <2>4. CASE i = l
    <3>1. i \in 1 .. Len(a) + 1 /\ ~(i > Len(a)) /\ i + 1 \in 1 .. Len(a) + 1 /\ i + 1 > Len(a)
             /\ ~(i + 1 <= l)
      BY <1>1, <2>4
    <3>2. f[i] = a[i] + Base * f[i + 1] /\ f[i + 1] = 0
      BY <1>3, <3>1 DEF Horner, HornerAt
    <3>3. p[i] = a[i]
      BY <1>1, <1>2, <2>4
    <3>4. h[i + 1] = 0
      BY <1>6, <3>1
    <3> QED BY <2>1, <2>4, <3>2, <3>3, <3>4
  <2>5. CASE i > l
    <3>1. ~(i <= l) /\ ~(i + 1 <= l)
      BY <1>1, <2>5
    <3>2. p[i] = 0 /\ h[i + 1] = 0
      BY <1>1, <1>2, <1>6, <3>1
    <3> QED BY <2>1, <2>2, <3>1, <3>2
  <2> QED BY <1>1, <2>3, <2>4, <2>5
<1> HIDE DEF S
<1>7. \A i \in 1 .. n + 1 : i \in S
  BY <1>5, <1>6, Downward
<1>8. h[1] = IF 1 <= l THEN f[1] ELSE 0
  BY <1>7 DEF S
<1>9. ~(1 <= l) => f[1] = 0
  BY <1>1, <1>3 DEF Horner, HornerAt
<1> QED BY <1>2, <1>3, <1>4, <1>8, <1>9

(* Atoms without trailing zeros are told apart once padded to one length. *)
LEMMA PaddedInjective ==
  ASSUME NEW a \in Atom, NEW b \in Atom, NEW n \in Nat,
         Trim(a), Trim(b), Len(a) <= n, Len(b) <= n, Padded(a, n) = Padded(b, n)
  PROVE  a = b
<1>1. Len(a) \in Nat /\ Len(b) \in Nat
  BY LenProperties DEF Atom
<1>2. \A i \in 1 .. n : (IF i <= Len(a) THEN a[i] ELSE 0) = (IF i <= Len(b) THEN b[i] ELSE 0)
  <2>1. PICK p : p = Padded(a, n) /\ p = Padded(b, n)
    OBVIOUS
  <2>2. \A i \in 1 .. n : p[i] = IF i <= Len(a) THEN a[i] ELSE 0
    BY <2>1, PaddedType
  <2>3. \A i \in 1 .. n : p[i] = IF i <= Len(b) THEN b[i] ELSE 0
    BY <2>1, PaddedType
  <2> QED BY <2>2, <2>3
<1>3. ~(Len(a) < Len(b))
  <2> SUFFICES ASSUME Len(a) < Len(b) PROVE FALSE
    OBVIOUS
  <2>1. PICK i \in 1 .. n : i = Len(b)
    BY <1>1
  <2>2. b[i] = 0
    BY <1>1, <1>2, <2>1
  <2> QED BY <1>1, <2>1, <2>2 DEF Trim
<1>4. ~(Len(b) < Len(a))
  <2> SUFFICES ASSUME Len(b) < Len(a) PROVE FALSE
    OBVIOUS
  <2>1. PICK i \in 1 .. n : i = Len(a)
    BY <1>1
  <2>2. a[i] = 0
    BY <1>1, <1>2, <2>1
  <2> QED BY <1>1, <2>1, <2>2 DEF Trim
<1>5. Len(a) = Len(b)
  BY <1>1, <1>3, <1>4
<1>6. \A i \in 1 .. Len(a) : a[i] = b[i]
  BY <1>1, <1>2, <1>5
<1> QED BY <1>5, <1>6, SeqEqual DEF Atom

(* The digits of a number have no trailing zero. *)
LEMMA DigitsTrim == \A x \in Nat : Trim(Digits[x])
<1> DEFINE S == {x \in Nat : Trim(Digits[x])}
<1>1. ASSUME NEW x \in Nat, \A k \in 0 .. x - 1 : k \in S
      PROVE  x \in S
  <2>1. Digits[x] = Written(Digits, x)
    BY DigitsDefined
  <2>2. CASE x = 0
    BY <2>1, <2>2, EmptySeq DEF Written, Trim
  <2>3. CASE x # 0
    <3>1. PICK q \in Nat, r \in Byte : q = x \div Base /\ r = x % Base /\ x = q * Base + r /\ q < x
      BY <2>3, DivBase
    <3>2. PICK s \in Atom : s = Digits[q] /\ Trim(s)
      BY <1>1, <3>1, DigitsDefined
    <3>3. Len(s) \in Nat /\ <<r>> \in Seq(Byte) /\ Len(<<r>>) = 1 /\ <<r>>[1] = r
      BY LenProperties DEF Atom
    <3>4. PICK t : t = <<r>> \o s
      OBVIOUS
    <3>5. t = Digits[x]
      BY <2>1, <2>3, <3>1, <3>2, <3>4 DEF Written
    <3>6. Len(t) = 1 + Len(s) /\ \A i \in 1 .. 1 + Len(s) : t[i] = IF i <= 1 THEN r ELSE s[i - 1]
      BY <3>3, <3>4, ConcatProperties DEF Atom
    <3>7. CASE Len(s) = 0
      <4>1. q = 0
        <5>1. s = <<>>
          BY <3>7, EmptySeq DEF Atom
        <5> QED BY <3>1, <3>2, <5>1, NumberOfDigits, NumberEmpty
      <4>2. r # 0
        BY <2>3, <3>1, <4>1, ConstantTypes DEF Byte
      <4>3. t[Len(t)] = r
        BY <3>3, <3>6, <3>7
      <4> QED BY <3>5, <4>2, <4>3 DEF Trim
    <3>8. CASE Len(s) # 0
      <4>1. Len(t) \in 1 .. 1 + Len(s) /\ ~(Len(t) <= 1) /\ Len(t) - 1 = Len(s)
        BY <3>3, <3>6, <3>8
      <4>2. t[Len(t)] = s[Len(s)]
        BY <3>6, <4>1
      <4> QED BY <3>2, <3>3, <3>5, <3>8, <4>2 DEF Trim
    <3> QED BY <3>7, <3>8
  <2> QED BY <2>2, <2>3
<1> HIDE DEF S
<1>2. \A x \in Nat : x \in S
  BY <1>1, Induction
<1> QED BY <1>2 DEF S

(* Trailing zeros are dropped, and padding puts them back.                  *)
LEMMA TrimmedFacts ==
  ASSUME NEW b \in Atom
  PROVE  /\ Trimmed(b) \in Atom /\ Trim(Trimmed(b)) /\ Len(Trimmed(b)) <= Len(b)
         /\ Padded(Trimmed(b), Len(b)) = b
<1>1. PICK n \in Nat : n = Len(b)
  BY LenProperties DEF Atom
<1> DEFINE Ends(e) == (\A i \in e + 1 .. n : b[i] = 0) /\ (e > 0 => b[e] # 0)
           Z == {e \in 0 .. n : \A i \in e + 1 .. n : b[i] = 0}
           end == CHOOSE e \in 0 .. n : Ends(e)
<1>2. \E e \in 0 .. n : Ends(e)
  <2>1. n \in Z
    BY DEF Z
  <2>2. Z # {} /\ Z \in SUBSET Nat
    BY <2>1
  <2>3. PICK m \in Z : \A i \in Z : m <= i
    BY <2>2, Least
  <2>4. m > 0 => b[m] # 0
    <3> SUFFICES ASSUME m > 0, b[m] = 0 PROVE FALSE
      OBVIOUS
    <3>1. m - 1 \in 0 .. n /\ ~(m <= m - 1)
      BY <2>3
    <3>2. \A i \in (m - 1) + 1 .. n : i = m \/ i \in m + 1 .. n
      BY <2>3
    <3>3. m - 1 \in Z
      BY <2>3, <3>1, <3>2
    <3> HIDE DEF Z
    <3> QED BY <2>3, <3>1, <3>3
  <2> QED BY <2>3, <2>4
<1>3. end \in 0 .. n /\ Ends(end)
  BY <1>2
<1>4. Trimmed(b) = SubSeq(b, 1, end)
  BY <1>1 DEF Trimmed
<1> HIDE DEF end
<1>5. PICK e \in 0 .. n : e = end /\ Ends(e)
  BY <1>3
<1>6. PICK t : t = SubSeq(b, 1, e)
  OBVIOUS
<1>7. t \in Seq(Byte) /\ Len(t) = e /\ \A i \in 1 .. e : t[i] = b[i]
  <2>1. \A i \in 1 .. e : b[i] \in Byte
    BY <1>1, ElementOfSeq DEF Atom
  <2>2. (IF 1 <= e THEN e - 1 + 1 ELSE 0) = e
    OBVIOUS
  <2>3. /\ SubSeq(b, 1, e) \in Seq(Byte)
        /\ Len(SubSeq(b, 1, e)) = IF 1 <= e THEN e - 1 + 1 ELSE 0
        /\ \A i \in 1 .. e - 1 + 1 : SubSeq(b, 1, e)[i] = b[1 + i - 1]
    <3>1. 1 \in Int /\ e \in Int
      OBVIOUS
    <3> QED BY <2>1, <3>1, SubSeqProperties
  <2>4. \A i \in 1 .. e : SubSeq(b, 1, e)[i] = b[i]
    <3>1. \A i \in 1 .. e : i \in 1 .. e - 1 + 1 /\ 1 + i - 1 = i
      OBVIOUS
    <3> QED BY <2>3, <3>1
  <2> QED BY <1>6, <2>2, <2>3, <2>4
<1>8. Trim(t)
  BY <1>5, <1>7 DEF Trim
<1>9. PICK p \in Atom : p = Padded(t, n) /\ Len(p) = n
         /\ \A i \in 1 .. n : p[i] = IF i <= Len(t) THEN t[i] ELSE 0
  BY <1>7, PaddedType DEF Atom
<1>10. ASSUME NEW i \in 1 .. n
       PROVE  p[i] = b[i]
  <2>1. CASE i <= e
    BY <1>7, <1>9, <2>1
  <2>2. CASE ~(i <= e)
    <3>1. i \in e + 1 .. n
      BY <2>2
    <3> QED BY <1>5, <1>7, <1>9, <2>2, <3>1
  <2> QED BY <2>1, <2>2
<1>11. p = b
  BY <1>1, <1>9, <1>10, SeqEqual DEF Atom
<1> QED BY <1>1, <1>4, <1>5, <1>6, <1>7, <1>8, <1>9, <1>11 DEF Atom

------------------------------------------------------------------------------
(* The tables of the enum decoder and of the hash. *)

(* The weights are numbers, and up to a word those of the base.             *)
WeightAt(g, i) == IF i % WordBytes = 0 THEN 1 ELSE Base * g[i - 1]

(* The weights of the bytes satisfy their equations. *)
LEMMA WeightDefined ==
  /\ Weight \in [Nat -> Nat]
  /\ \A i \in Nat : Weight[i] = WeightAt(Weight, i)
<1>1. PICK T : T = Nat
  OBVIOUS
<1>2. PICK R : R = Nat /\ R # {}
  <2>1. 0 \in Nat
    OBVIOUS
  <2> QED BY <2>1
<1> DEFINE F == [g \in [T -> R] |-> [x \in T |-> WeightAt(g, x)]]
<1>3. PICK D : D = [x \in T |-> x]
  OBVIOUS
<1>4. ASSUME NEW i \in Nat, i = 0
      PROVE  i % WordBytes = 0
  <2>1. PICK w \in Nat \ {0} : w = WordBytes
    BY ConstantTypes
  <2>2. 0 % w = 0
    BY <2>1
  <2> QED BY <1>4, <2>1, <2>2
<1>5. ASSUME NEW g \in [T -> R], NEW x \in T
      PROVE  WeightAt(g, x) \in R
  <2>1. CASE x % WordBytes = 0
    BY <1>2, <2>1 DEF WeightAt
  <2>2. CASE x % WordBytes # 0
    <3>1. x - 1 \in T
      BY <1>1, <1>4, <2>2
    <3>2. g[x - 1] \in Nat /\ Base \in Nat
      BY <1>2, <3>1, ConstantTypes
    <3> QED BY <1>2, <2>2, <3>2 DEF WeightAt
  <2> QED BY <2>1, <2>2
<1>6. F \in [[T -> R] -> [T -> R]]
  BY <1>5
<1>7. ASSUME NEW g \in [T -> R], NEW h \in [T -> R], NEW x \in T,
             \A u \in T : D[u] < D[x] => g[u] = h[u]
      PROVE  F[g][x] = F[h][x]
  <2>1. CASE x % WordBytes = 0
    BY <2>1 DEF WeightAt
  <2>2. CASE x % WordBytes # 0
    <3>1. x - 1 \in T /\ x - 1 < x
      BY <1>1, <1>4, <2>2
    <3>2. g[x - 1] = h[x - 1]
      BY <1>3, <1>7, <3>1
    <3>3. WeightAt(g, x) = WeightAt(h, x)
      BY <3>2 DEF WeightAt
    <3> QED BY <3>3
  <2> QED BY <2>1, <2>2
<1>8. PICK G : G = F
  OBVIOUS
<1>9. Recursion(T, R, D, G)
  <2>1. D \in [T -> Nat]
    BY <1>1, <1>3
  <2> HIDE DEF F
  <2>2. ASSUME NEW g \in [T -> R], NEW h \in [T -> R], NEW u \in T,
             \A v \in T : D[v] < D[u] => g[v] = h[v]
      PROVE  G[g][u] = G[h][u]
    BY <1>7, <1>8, <2>2
  <2>3. G \in [[T -> R] -> [T -> R]]
    BY <1>6, <1>8
  <2> QED BY <2>1, <2>2, <2>3, Zenon DEF Recursion
<1>10. PICK f \in [T -> R] : G[f] = f
  BY <1>2, <1>9, RecursionDefines
<1>11. f = [x \in T |-> WeightAt(f, x)]
  BY <1>8, <1>10
<1> DEFINE Table(g) == g = [i \in Nat |-> IF i % WordBytes = 0 THEN 1 ELSE Base * g[i - 1]]
           d == CHOOSE g : Table(g)
<1>12. Table(f)
  BY <1>1, <1>11 DEF WeightAt
<1>13. Table(d)
  BY <1>12
<1>14. d = Weight
  BY DEF Weight
<1> HIDE DEF d
<1>15. \A i \in Nat : Weight[i] = WeightAt(Weight, i)
  BY <1>13, <1>14 DEF WeightAt
<1>16. Weight = [i \in Nat |-> Weight[i]]
  BY <1>13, <1>14
<1>17. \A i \in Nat : Weight[i] \in Nat
  <2> DEFINE S == {i \in Nat : Weight[i] \in Nat}
  <2>1. ASSUME NEW i \in Nat, \A k \in 0 .. i - 1 : k \in S
        PROVE  i \in S
    <3>1. CASE i % WordBytes = 0
      BY <1>15, <3>1 DEF WeightAt
    <3>2. CASE i % WordBytes # 0
      <4>1. i - 1 \in 0 .. i - 1
        BY <1>4, <3>2
      <4>2. Weight[i - 1] \in Nat /\ Base \in Nat
        BY <2>1, <4>1, ConstantTypes
      <4>3. Base * Weight[i - 1] \in Nat
        BY <4>2
      <4> QED BY <1>15, <3>2, <4>3 DEF WeightAt
    <3> QED BY <3>1, <3>2
  <2> HIDE DEF S
  <2>2. \A i \in Nat : i \in S
    BY <2>1, Induction
  <2> QED BY <2>2 DEF S
<1> QED BY <1>15, <1>16, <1>17

(* The sums of the loop that reads an enum.                                 *)
SumAt(a, g, i) == IF i = 0 THEN 0 ELSE g[i - 1] + Weight[i - 1] * a[i]
(* g is the table of the sums the enum decoder computes of an atom. *)
ByteSums(a, g) ==
  /\ g \in [0 .. Len(a) -> Nat]
  /\ \A i \in 0 .. Len(a) : g[i] = SumAt(a, g, i)

(* A sum of weighted bytes is a number. *)
LEMMA SumType ==
  ASSUME NEW a \in Atom, NEW i \in 0 .. Len(a), NEW g, i # 0 => g[i - 1] \in Nat
  PROVE  SumAt(a, g, i) \in Nat
<1>1. CASE i = 0
  BY <1>1 DEF SumAt
<1>2. CASE i # 0
  <2>1. i \in 1 .. Len(a) /\ i - 1 \in Nat
    BY <1>2, LenProperties DEF Atom
  <2>2. a[i] \in Byte /\ Weight[i - 1] \in Nat /\ g[i - 1] \in Nat
    BY <1>2, <2>1, ElementOfSeq, WeightDefined DEF Atom
  <2>3. a[i] \in Nat
    BY <2>2, ConstantTypes DEF Byte
  <2> QED BY <1>2, <2>2, <2>3 DEF SumAt
<1> QED BY <1>1, <1>2

(* What the enum decoder returns, by the table of its sums. *)
LEMMA EnumReads ==
  ASSUME NEW t, NEW value \in Seq(Atom), value # <<>>
  PROVE  \E g : /\ ByteSums(Head(value), g)
                /\ EnumFromValue(t, value) = IF g[Len(Head(value))] > t.max THEN Throw
                                             ELSE Take(g[Len(Head(value))], Tail(value))
<1>1. PICK a \in Atom : a = Head(value)
  BY HeadTailProperties
<1>2. PICK n \in Nat : n = Len(a)
  BY LenProperties DEF Atom
<1>3. PICK T : T = 0 .. n
  OBVIOUS
<1>4. PICK R : R = Nat /\ R # {}
  <2>1. 0 \in Nat
    OBVIOUS
  <2> QED BY <2>1
<1>5. PICK D : D = [i \in T |-> i]
  OBVIOUS
<1> DEFINE F == [g \in [T -> R] |-> [i \in T |-> SumAt(a, g, i)]]
<1>6. \A g \in [T -> R] : \A i \in T : SumAt(a, g, i) \in R
  <2> SUFFICES ASSUME NEW g \in [T -> R], NEW i \in T PROVE SumAt(a, g, i) \in R
    OBVIOUS
  <2>1. i # 0 => g[i - 1] \in Nat
    BY <1>3, <1>4
  <2> QED BY <1>2, <1>3, <1>4, <2>1, SumType
<1>7. F \in [[T -> R] -> [T -> R]]
  BY <1>6
<1>8. ASSUME NEW g \in [T -> R], NEW h \in [T -> R], NEW i \in T,
             \A u \in T : D[u] < D[i] => g[u] = h[u]
      PROVE  F[g][i] = F[h][i]
  <2>1. i # 0 => i - 1 \in T /\ D[i - 1] < D[i]
    BY <1>3, <1>5
  <2>2. i # 0 => g[i - 1] = h[i - 1]
    BY <1>8, <2>1
  <2>3. SumAt(a, g, i) = SumAt(a, h, i)
    BY <2>2 DEF SumAt
  <2> QED BY <2>3
<1>9. PICK G : G = F
  OBVIOUS
<1>10. Recursion(T, R, D, G)
  <2>1. D \in [T -> Nat]
    BY <1>3, <1>5
  <2> HIDE DEF F
  <2>2. ASSUME NEW g \in [T -> R], NEW h \in [T -> R], NEW u \in T,
             \A v \in T : D[v] < D[u] => g[v] = h[v]
      PROVE  G[g][u] = G[h][u]
    BY <1>8, <1>9, <2>2
  <2>3. G \in [[T -> R] -> [T -> R]]
    BY <1>7, <1>9
  <2> QED BY <2>1, <2>2, <2>3, Zenon DEF Recursion
<1>11. PICK f \in [T -> R] : G[f] = f
  <2>1. R # {} /\ Recursion(T, R, D, G)
    BY <1>4, <1>10
  <2> QED BY <2>1, RecursionDefines
<1>12. f = [i \in T |-> SumAt(a, f, i)]
  BY <1>9, <1>11
<1> DEFINE Table(g) ==
             g = [i \in 0 .. Len(Head(value)) |-> IF i = 0 THEN 0 ELSE g[i - 1] + Weight[i - 1] * Head(value)[i]]
           sum == CHOOSE g : Table(g)
<1>13. Table(f)
  BY <1>1, <1>2, <1>3, <1>12 DEF SumAt
<1>14. Table(sum)
  BY <1>13
<1>15. EnumFromValue(t, value) = IF sum[Len(Head(value))] > t.max THEN Throw
                                 ELSE Take(sum[Len(Head(value))], Tail(value))
  BY DEF EnumFromValue
<1> HIDE DEF sum
<1>16. PICK g : g = sum
  OBVIOUS
<1>17. g = [i \in 0 .. n |-> SumAt(a, g, i)]
  BY <1>1, <1>2, <1>14, <1>16 DEF SumAt
<1>18. \A i \in 0 .. n : g[i] = SumAt(a, g, i)
  BY <1>17
<1> DEFINE S == {i \in 0 .. n : g[i] \in Nat}
<1>19. \A i \in 0 .. n : i \in S
  <2>1. 0 \in S
    BY <1>18 DEF SumAt
  <2>2. ASSUME NEW i \in 0 .. n - 1, i \in S
        PROVE  i + 1 \in S
    <3>1. PICK j \in 0 .. n : j = i + 1 /\ j - 1 = i
      OBVIOUS
    <3>2. SumAt(a, g, j) \in Nat
      BY <1>2, <2>2, <3>1, SumType
    <3> QED BY <1>18, <3>1, <3>2
  <2> HIDE DEF S
  <2> QED BY <2>1, <2>2, Upward
<1>20. g \in [0 .. n -> Nat]
  BY <1>17, <1>19
<1>21. ByteSums(a, g)
  BY <1>2, <1>18, <1>20 DEF ByteSums
<1> QED BY <1>1, <1>15, <1>16, <1>21

(* Up to a word, the sum is the number.                                     *)
LEMMA EnumNumber ==
  ASSUME NEW a \in Atom, Len(a) <= WordBytes, NEW g, ByteSums(a, g)
  PROVE  g[Len(a)] = Number(a)
<1>1. PICK n \in Nat : n = Len(a)
  BY LenProperties DEF Atom
<1>2. PICK f : Horner(a, f) /\ Number(a) = f[1]
  BY NumberIsHorner
<1>3. PICK w \in Nat \ {0} : w = WordBytes
  BY ConstantTypes
<1> DEFINE S == {i \in 0 .. n : g[i] + Weight[i] * f[i + 1] = f[1]}
<1>4. 0 \in S
  <2>1. g[0] = 0
    BY <1>1 DEF ByteSums, SumAt
  <2>2. Weight[0] = 1
    <3>1. 0 % WordBytes = 0
      BY <1>3
    <3> QED BY <3>1, WeightDefined DEF WeightAt
  <2>3. f[1] \in Nat
    BY <1>1, <1>2 DEF Horner
  <2> QED BY <2>1, <2>2, <2>3
<1>5. ASSUME NEW i \in 0 .. n - 1, i \in S
      PROVE  i + 1 \in S
  <2>1. PICK j \in 1 .. n : j = i + 1 /\ j - 1 = i
    OBVIOUS
  <2>2. g[j] = g[i] + Weight[i] * a[j]
    BY <1>1, <2>1 DEF ByteSums, SumAt
  <2>3. f[j] = a[j] + Base * f[j + 1] /\ f[j + 1] \in Nat
    BY <1>1, <1>2 DEF Horner, HornerAt
  <2>4. g[i] + Weight[i] * f[j] = f[1]
    BY <1>5, <2>1
  <2>5. PICK x \in Nat : x = g[i]
    BY <1>1 DEF ByteSums
  <2>6. PICK v \in Nat : v = Weight[i]
    BY WeightDefined
  <2>7. PICK y \in Nat : y = a[j]
    BY <1>1, ElementOfSeq, ConstantTypes DEF Atom, Byte
  <2>8. PICK z \in Nat, b \in Nat : z = f[j + 1] /\ b = Base
    BY <2>3, ConstantTypes
  <2>9. x + v * (y + b * z) = f[1]
    BY <2>3, <2>4, <2>5, <2>6, <2>7, <2>8
  <2>10. v * (y + b * z) = v * y + (b * v) * z
    OBVIOUS
  <2>11. CASE j = w
    <3>1. j = n
      BY <1>1, <1>3, <2>11
    <3>2. z = 0
      BY <1>1, <1>2, <2>8, <3>1 DEF Horner, HornerAt
    <3>3. (b * v) * z = 0 /\ Weight[j] * z = 0
      <4>1. Weight[j] \in Nat
        BY WeightDefined
      <4> QED BY <3>2, <4>1
    <3>4. g[j] + Weight[j] * f[j + 1] = f[1]
      <4>1. g[j] = x + v * y /\ f[j + 1] = z
        BY <2>2, <2>5, <2>6, <2>7, <2>8
      <4>2. x + (v * y + (b * v) * z) = f[1]
        BY <2>9, <2>10
      <4>3. PICK u \in Nat, q \in Nat : u = v * y /\ q = (b * v) * z
        OBVIOUS
      <4>4. Weight[j] * z = q
        BY <3>3, <4>3
      <4> QED BY <4>1, <4>2, <4>3, <4>4
    <3> QED BY <2>1, <3>4
  <2>12. CASE j # w
    <3>1. j \in 1 .. w - 1
      BY <1>1, <1>3, <2>12
    <3>2. j % w # 0
      BY <3>1
    <3>3. Weight[j] = b * v
      <4>1. Weight[j] = WeightAt(Weight, j)
        BY WeightDefined
      <4>2. WeightAt(Weight, j) = Base * Weight[j - 1]
        BY <1>3, <3>2 DEF WeightAt
      <4> QED BY <2>1, <2>6, <2>8, <4>1, <4>2
    <3>4. g[j] + Weight[j] * f[j + 1] = f[1]
      <4>1. g[j] = x + v * y /\ f[j + 1] = z
        BY <2>2, <2>5, <2>6, <2>7, <2>8
      <4>2. x + (v * y + (b * v) * z) = f[1]
        BY <2>9, <2>10
      <4>3. PICK u \in Nat, q \in Nat : u = v * y /\ q = (b * v) * z
        OBVIOUS
      <4>4. Weight[j] * z = q
        BY <3>3, <4>3
      <4> QED BY <4>1, <4>2, <4>3, <4>4
    <3> QED BY <2>1, <3>4
  <2> QED BY <2>11, <2>12
<1> HIDE DEF S
<1>6. \A i \in 0 .. n : i \in S
  BY <1>4, <1>5, Upward
<1>7. g[n] + Weight[n] * f[n + 1] = f[1]
  BY <1>6 DEF S
<1>8. f[n + 1] = 0
  BY <1>1, <1>2 DEF Horner, HornerAt
<1>9. g[n] \in Nat /\ Weight[n] \in Nat
  BY <1>1, WeightDefined DEF ByteSums
<1> QED BY <1>1, <1>2, <1>7, <1>8, <1>9

(* A hash is an element of the native field.                                *)
HashAt(atoms, g, i) == IF i = 0 THEN 1 ELSE (5 * g[i - 1] + Number(atoms[i]) + 1) % FIELD_MODULUS

(* A hash is an element of the native field. *)
LEMMA HashType ==
  ASSUME NEW atoms \in Seq(Atom)
  PROVE  HashOf(atoms) \in 0 .. MAX_FIELD
<1>1. PICK n \in Nat : n = Len(atoms)
  BY LenProperties
<1>2. PICK m \in Nat : m = MAX_FIELD /\ FIELD_MODULUS = m + 1 /\ m > 3
  BY ConstantTypes DEF FIELD_MODULUS
<1>3. PICK T : T = 0 .. n
  OBVIOUS
<1>4. PICK R : R = 0 .. m /\ R # {}
  BY <1>2
<1>5. PICK D : D = [i \in T |-> i]
  OBVIOUS
<1> DEFINE F == [g \in [T -> R] |-> [i \in T |-> HashAt(atoms, g, i)]]
<1>6. ASSUME NEW g, NEW i \in T, i # 0 => g[i - 1] \in R
      PROVE  HashAt(atoms, g, i) \in R
  <2>1. CASE i = 0
    BY <1>2, <1>4, <2>1 DEF HashAt
  <2>2. CASE i # 0
    <3>1. i \in 1 .. Len(atoms)
      BY <1>1, <1>3, <2>2
    <3>2. atoms[i] \in Atom
      BY <3>1, ElementOfSeq
    <3>3. PICK y \in Nat : y = Number(atoms[i])
      BY <3>2, NumberType
    <3>4. PICK x \in Nat : x = g[i - 1]
      BY <1>4, <1>6, <2>2
    <3>5. (5 * x + y + 1) % (m + 1) \in 0 .. m
      OBVIOUS
    <3> QED BY <1>2, <1>4, <2>2, <3>3, <3>4, <3>5 DEF HashAt
  <2> QED BY <2>1, <2>2
<1>7. F \in [[T -> R] -> [T -> R]]
  <2>1. \A g \in [T -> R] : \A i \in T : HashAt(atoms, g, i) \in R
    <3> SUFFICES ASSUME NEW g \in [T -> R], NEW i \in T PROVE HashAt(atoms, g, i) \in R
      OBVIOUS
    <3>1. i # 0 => g[i - 1] \in R
      BY <1>3
    <3> QED BY <1>6, <3>1
  <2> QED BY <2>1
<1>8. ASSUME NEW g \in [T -> R], NEW h \in [T -> R], NEW i \in T,
             \A u \in T : D[u] < D[i] => g[u] = h[u]
      PROVE  F[g][i] = F[h][i]
  <2>1. i # 0 => i - 1 \in T /\ D[i - 1] < D[i]
    BY <1>3, <1>5
  <2>2. i # 0 => g[i - 1] = h[i - 1]
    BY <1>8, <2>1
  <2>3. HashAt(atoms, g, i) = HashAt(atoms, h, i)
    BY <2>2 DEF HashAt
  <2> QED BY <2>3
<1>9. PICK G : G = F
  OBVIOUS
<1>10. Recursion(T, R, D, G)
  <2>1. D \in [T -> Nat]
    BY <1>3, <1>5
  <2> HIDE DEF F
  <2>2. ASSUME NEW g \in [T -> R], NEW h \in [T -> R], NEW u \in T,
             \A v \in T : D[v] < D[u] => g[v] = h[v]
      PROVE  G[g][u] = G[h][u]
    BY <1>8, <1>9, <2>2
  <2>3. G \in [[T -> R] -> [T -> R]]
    BY <1>7, <1>9
  <2> QED BY <2>1, <2>2, <2>3, Zenon DEF Recursion
<1>11. PICK f \in [T -> R] : G[f] = f
  <2>1. R # {} /\ Recursion(T, R, D, G)
    BY <1>4, <1>10
  <2> QED BY <2>1, RecursionDefines
<1>12. f = [i \in T |-> HashAt(atoms, f, i)]
  BY <1>9, <1>11
<1> DEFINE Table(g) ==
             g = [i \in 0 .. Len(atoms) |->
                    IF i = 0 THEN 1 ELSE (5 * g[i - 1] + Number(atoms[i]) + 1) % FIELD_MODULUS]
           hash == CHOOSE g : Table(g)
<1>13. Table(f)
  BY <1>1, <1>3, <1>12 DEF HashAt
<1>14. Table(hash)
  BY <1>13
<1>15. HashOf(atoms) = hash[Len(atoms)]
  BY DEF HashOf
<1> HIDE DEF hash
<1>16. PICK g : g = hash
  OBVIOUS
<1>17. \A i \in 0 .. n : g[i] = HashAt(atoms, g, i)
  BY <1>1, <1>14, <1>16 DEF HashAt
<1> DEFINE S == {i \in 0 .. n : g[i] \in R}
<1>18. \A i \in 0 .. n : i \in S
  <2>1. 0 \in S
    BY <1>2, <1>4, <1>17 DEF HashAt
  <2>2. ASSUME NEW i \in 0 .. n - 1, i \in S
        PROVE  i + 1 \in S
    <3>1. PICK j \in 0 .. n : j = i + 1 /\ j - 1 = i
      OBVIOUS
    <3>2. HashAt(atoms, g, j) \in R
      BY <1>3, <1>6, <2>2, <3>1
    <3> QED BY <1>17, <3>1, <3>2
  <2> HIDE DEF S
  <2> QED BY <2>1, <2>2, Upward
<1>19. g[n] \in 0 .. m
  BY <1>4, <1>18
<1> QED BY <1>1, <1>2, <1>15, <1>16, <1>19

------------------------------------------------------------------------------
(* Flattening. *)

(* The joins of the first sequences, none to all.                           *)
Joined(S, s, h) ==
  /\ h \in [0 .. Len(s) -> Seq(S)]
  /\ h[0] = <<>>
  /\ \A i \in 1 .. Len(s) : h[i] = h[i - 1] \o s[i]
  /\ FlattenSeq(s) = h[Len(s)]

(* What a table of joined prefixes holds at i. *)
JoinAt(s, g, i) == IF i = 1 THEN s[i] ELSE g[i - 1] \o s[i]

(* Flattening is joining the sequences one after another. *)
LEMMA FlattenJoins ==
  ASSUME NEW S, NEW s \in Seq(Seq(S))
  PROVE  \E h : Joined(S, s, h)
<1>1. PICK n \in Nat : n = Len(s)
  BY LenProperties
<1>2. <<>> \in Seq(S)
  OBVIOUS
<1>3. CASE n = 0
  <2>1. s = <<>>
    BY <1>1, <1>3, EmptySeq
  <2>2. FlattenSeq(s) = <<>>
    BY <1>1, <1>3, <2>1 DEF FlattenSeq
  <2>3. PICK h : h = [i \in 0 .. 0 |-> <<>>]
    OBVIOUS
  <2>4. h \in [0 .. 0 -> Seq(S)] /\ h[0] = <<>>
    BY <1>2, <2>3
  <2>5. \A i \in 1 .. 0 : h[i] = h[i - 1] \o s[i]
    OBVIOUS
  <2>6. Joined(S, s, h)
    BY <1>1, <1>3, <2>2, <2>4, <2>5 DEF Joined
  <2> QED BY <2>6
<1>4. CASE n # 0
  <2>1. PICK T : T = 1 .. n
    OBVIOUS
  <2>2. PICK R : R = Seq(S) /\ R # {}
    BY <1>2
  <2>3. PICK D : D = [i \in T |-> i]
    OBVIOUS
  <2> DEFINE F == [g \in [T -> R] |-> [i \in T |-> JoinAt(s, g, i)]]
  <2>4. ASSUME NEW g, NEW i \in T, i # 1 => g[i - 1] \in R
        PROVE  JoinAt(s, g, i) \in R
    <3>1. s[i] \in Seq(S)
      BY <1>1, <2>1, ElementOfSeq
    <3>2. i # 1 => g[i - 1] \o s[i] \in Seq(S)
      BY <2>2, <2>4, <3>1, ConcatProperties
    <3> QED BY <2>2, <3>1, <3>2 DEF JoinAt
  <2>5. F \in [[T -> R] -> [T -> R]]
    <3>1. \A g \in [T -> R] : \A i \in T : JoinAt(s, g, i) \in R
      <4> SUFFICES ASSUME NEW g \in [T -> R], NEW i \in T PROVE JoinAt(s, g, i) \in R
        OBVIOUS
      <4>1. i # 1 => g[i - 1] \in R
        BY <2>1
      <4> QED BY <2>4, <4>1
    <3> QED BY <3>1
  <2>6. ASSUME NEW g \in [T -> R], NEW h \in [T -> R], NEW i \in T,
               \A u \in T : D[u] < D[i] => g[u] = h[u]
        PROVE  F[g][i] = F[h][i]
    <3>1. i # 1 => i - 1 \in T /\ D[i - 1] < D[i]
      BY <2>1, <2>3
    <3>2. i # 1 => g[i - 1] = h[i - 1]
      BY <2>6, <3>1
    <3>3. JoinAt(s, g, i) = JoinAt(s, h, i)
      BY <3>2 DEF JoinAt
    <3> QED BY <3>3
  <2>7. PICK G : G = F
    OBVIOUS
  <2>8. Recursion(T, R, D, G)
    <3>1. D \in [T -> Nat]
      BY <2>1, <2>3
    <3> HIDE DEF F
    <3>2. ASSUME NEW g \in [T -> R], NEW h \in [T -> R], NEW u \in T,
               \A v \in T : D[v] < D[u] => g[v] = h[v]
        PROVE  G[g][u] = G[h][u]
      BY <2>6, <2>7, <3>2
    <3>3. G \in [[T -> R] -> [T -> R]]
      BY <2>5, <2>7
    <3> QED BY <3>1, <3>2, <3>3, Zenon DEF Recursion
  <2>9. PICK f \in [T -> R] : G[f] = f
    <3>1. R # {} /\ Recursion(T, R, D, G)
      BY <2>2, <2>8
    <3> QED BY <3>1, RecursionDefines
  <2>10. f = [i \in T |-> JoinAt(s, f, i)]
    BY <2>7, <2>9
  <2> DEFINE Table(g) == g = [i \in 1 .. Len(s) |-> IF i = 1 THEN s[i] ELSE g[i - 1] \o s[i]]
             flatten == CHOOSE g : Table(g)
  <2>11. Table(f)
    BY <1>1, <2>1, <2>10 DEF JoinAt
  <2>12. Table(flatten)
    BY <2>11
  <2>13. FlattenSeq(s) = flatten[Len(s)]
    BY <1>1, <1>4 DEF FlattenSeq
  <2> HIDE DEF flatten
  <2>14. PICK g : g = flatten
    OBVIOUS
  <2>15. \A i \in 1 .. n : g[i] = JoinAt(s, g, i)
    BY <1>1, <2>12, <2>14 DEF JoinAt
  <2>16. PICK h : h = [i \in 0 .. n |-> IF i = 0 THEN <<>> ELSE g[i]]
    OBVIOUS
  <2>17. \A i \in 1 .. n : h[i] = h[i - 1] \o s[i]
    <3> SUFFICES ASSUME NEW i \in 1 .. n PROVE h[i] = h[i - 1] \o s[i]
      OBVIOUS
    <3>1. h[i] = JoinAt(s, g, i)
      BY <2>15, <2>16
    <3>2. CASE i = 1
      <4>1. s[i] \in Seq(S)
        BY <1>1, ElementOfSeq
      <4>2. <<>> \o s[i] = s[i]
        BY <4>1, ConcatEmptySeq
      <4>3. h[i - 1] = <<>>
        BY <2>16, <3>2
      <4> QED BY <3>1, <3>2, <4>2, <4>3 DEF JoinAt
    <3>3. CASE i # 1
      <4>1. i - 1 \in 0 .. n /\ i - 1 # 0
        BY <3>3
      <4>2. h[i - 1] = g[i - 1]
        BY <2>16, <4>1
      <4> QED BY <3>1, <3>3, <4>2 DEF JoinAt
    <3> QED BY <3>2, <3>3
  <2>18. h[0] = <<>>
    BY <2>16
  <2> DEFINE Z == {i \in 0 .. n : h[i] \in Seq(S)}
  <2>19. \A i \in 0 .. n : i \in Z
    <3>1. 0 \in Z
      <4>1. h[0] \in Seq(S)
        BY <1>2, <2>18, Zenon
      <4> QED BY <4>1
    <3>2. ASSUME NEW i \in 0 .. n - 1, i \in Z
          PROVE  i + 1 \in Z
      <4>1. PICK j \in 1 .. n : j = i + 1 /\ j - 1 = i
        OBVIOUS
      <4>2. s[j] \in Seq(S)
        BY <1>1, ElementOfSeq
      <4>3. h[i] \o s[j] \in Seq(S)
        BY <3>2, <4>2, ConcatProperties
      <4>4. h[j] \in Seq(S)
        BY <2>17, <4>1, <4>3
      <4> QED BY <4>1, <4>4
    <3> HIDE DEF Z
    <3> QED BY <3>1, <3>2, Upward
  <2>20. h \in [0 .. n -> Seq(S)]
    BY <2>16, <2>19
  <2>21. FlattenSeq(s) = h[Len(s)]
    BY <1>1, <1>4, <2>13, <2>14, <2>16
  <2>22. Joined(S, s, h)
    BY <1>1, <2>17, <2>18, <2>20, <2>21 DEF Joined
  <2> QED BY <2>22
<1> QED BY <1>3, <1>4

(* Flattening sequences of S gives a sequence of S. *)
LEMMA FlattenType ==
  ASSUME NEW S, NEW s \in Seq(Seq(S))
  PROVE  FlattenSeq(s) \in Seq(S)
<1>1. PICK h : Joined(S, s, h)
  BY FlattenJoins
<1>2. Len(s) \in 0 .. Len(s)
  BY LenProperties
<1> QED BY <1>1, <1>2 DEF Joined

(* One step of a table of joined prefixes. *)
JoinStep(S, s, h, i) ==
  /\ i - 1 \in 0 .. Len(s) /\ i \in 0 .. Len(s)
  /\ h[i - 1] \in Seq(S) /\ h[i] \in Seq(S) /\ s[i] \in Seq(S)
  /\ h[i] = h[i - 1] \o s[i]
  /\ Len(h[i]) = Len(h[i - 1]) + Len(s[i])

(* The table of joined prefixes, one step further. *)
LEMMA JoinedStep ==
  ASSUME NEW S, NEW s \in Seq(Seq(S)), NEW h, Joined(S, s, h), NEW i \in 1 .. Len(s)
  PROVE  JoinStep(S, s, h, i)
<1>1. i - 1 \in 0 .. Len(s) /\ i \in 0 .. Len(s)
  BY LenProperties
<1>2. h[i - 1] \in Seq(S) /\ h[i] \in Seq(S) /\ h[i] = h[i - 1] \o s[i]
  BY <1>1 DEF Joined
<1>3. s[i] \in Seq(S)
  BY ElementOfSeq
<1>4. Len(h[i]) = Len(h[i - 1]) + Len(s[i])
  BY <1>2, <1>3, ConcatProperties
<1> QED BY <1>1, <1>2, <1>3, <1>4 DEF JoinStep

(* Two lists of sequences, each as long as the other's: the joins are as
   long, and related element by element when the sequences are.             *)
SameLengths(s, t) == Len(s) = Len(t) /\ \A i \in 1 .. Len(s) : Len(s[i]) = Len(t[i])
(* The elements at the same index of two sequences, and of all of two
   sequences of sequences, are in P. *)
Related(a, b, P) == \A j \in 1 .. Len(a) : <<a[j], b[j]>> \in P
PairwiseRelated(s, t, P) == \A i \in 1 .. Len(s) : Related(s[i], t[i], P)

(* Joining related sequences gives related sequences. *)
LEMMA RelatedJoin ==
  ASSUME NEW S, NEW U, NEW P, NEW a \in Seq(S), NEW b \in Seq(U), NEW c \in Seq(S), NEW d \in Seq(U),
         Len(a) = Len(b), Len(c) = Len(d), Related(a, b, P), Related(c, d, P)
  PROVE  Related(a \o c, b \o d, P)
<1>1. PICK l \in Nat, m \in Nat : l = Len(a) /\ m = Len(c)
  BY LenProperties
<1>2. PICK e : e = a \o c
  OBVIOUS
<1>3. PICK f : f = b \o d
  OBVIOUS
<1>4. Len(e) = l + m /\ \A i \in 1 .. l + m : e[i] = IF i <= l THEN a[i] ELSE c[i - l]
  <2>1. Len(e) = Len(a) + Len(c)
           /\ \A i \in 1 .. Len(a) + Len(c) : e[i] = IF i <= Len(a) THEN a[i] ELSE c[i - Len(a)]
    <3>1. /\ Len(a \o c) = Len(a) + Len(c)
          /\ \A i \in 1 .. Len(a) + Len(c) : (a \o c)[i] = IF i <= Len(a) THEN a[i] ELSE c[i - Len(a)]
      BY ConcatProperties
    <3> QED BY <1>2, <3>1, Zenon
  <2> QED BY <1>1, <2>1
<1>5. Len(f) = l + m /\ \A i \in 1 .. l + m : f[i] = IF i <= l THEN b[i] ELSE d[i - l]
  <2>1. Len(f) = Len(b) + Len(d)
           /\ \A i \in 1 .. Len(b) + Len(d) : f[i] = IF i <= Len(b) THEN b[i] ELSE d[i - Len(b)]
    BY <1>3, ConcatProperties
  <2> QED BY <1>1, <2>1
<1>6. ASSUME NEW j \in 1 .. l + m
      PROVE  <<e[j], f[j]>> \in P
  <2>1. CASE j <= l
    <3>1. e[j] = a[j] /\ f[j] = b[j] /\ j \in 1 .. Len(a)
      BY <1>1, <1>4, <1>5, <2>1
    <3> QED BY <3>1 DEF Related
  <2>2. CASE ~(j <= l)
    <3>1. PICK k \in 1 .. m : k = j - l
      BY <2>2
    <3>2. e[j] = c[k] /\ f[j] = d[k] /\ k \in 1 .. Len(c)
      BY <1>1, <1>4, <1>5, <2>2, <3>1
    <3> QED BY <3>2 DEF Related
  <2> QED BY <2>1, <2>2
<1> QED BY <1>2, <1>3, <1>4, <1>6 DEF Related

(* Flattening related sequences of sequences gives related sequences. *)
LEMMA FlattenRelated ==
  ASSUME NEW S, NEW U, NEW P, NEW s \in Seq(Seq(S)), NEW t \in Seq(Seq(U)),
         SameLengths(s, t), PairwiseRelated(s, t, P)
  PROVE  Len(FlattenSeq(s)) = Len(FlattenSeq(t)) /\ Related(FlattenSeq(s), FlattenSeq(t), P)
<1>1. PICK n \in Nat : n = Len(s) /\ n = Len(t)
  BY LenProperties DEF SameLengths
<1>2. PICK g : Joined(S, s, g)
  BY FlattenJoins
<1>3. PICK h : Joined(U, t, h)
  BY FlattenJoins
<1> DEFINE Z == {i \in 0 .. n : Len(g[i]) = Len(h[i]) /\ Related(g[i], h[i], P)}
<1>4. 0 \in Z
  BY <1>2, <1>3 DEF Joined, Related
<1>5. ASSUME NEW i \in 0 .. n - 1, i \in Z
      PROVE  i + 1 \in Z
  <2>1. PICK j \in 1 .. n : j = i + 1 /\ j - 1 = i
    OBVIOUS
  <2>2. g[i] \in Seq(S) /\ s[j] \in Seq(S) /\ g[j] = g[i] \o s[j] /\ Len(g[j]) = Len(g[i]) + Len(s[j])
    <3>1. j \in 1 .. Len(s)
      BY <1>1
    <3>2. JoinStep(S, s, g, j)
      BY <1>2, <3>1, JoinedStep
    <3> QED BY <2>1, <3>2 DEF JoinStep
  <2>3. h[i] \in Seq(U) /\ t[j] \in Seq(U) /\ h[j] = h[i] \o t[j] /\ Len(h[j]) = Len(h[i]) + Len(t[j])
    <3>1. j \in 1 .. Len(t)
      BY <1>1
    <3>2. JoinStep(U, t, h, j)
      BY <1>3, <3>1, JoinedStep
    <3> QED BY <2>1, <3>2 DEF JoinStep
  <2>4. Len(s[j]) = Len(t[j]) /\ Related(s[j], t[j], P)
    BY <1>1 DEF SameLengths, PairwiseRelated
  <2>5. Related(g[j], h[j], P)
    <3>1. PICK a \in Seq(S), b \in Seq(U) : a = g[i] /\ b = h[i] /\ Len(a) = Len(b) /\ Related(a, b, P)
      BY <1>5, <2>2, <2>3
    <3>2. PICK c \in Seq(S), d \in Seq(U) : c = s[j] /\ d = t[j] /\ Len(c) = Len(d) /\ Related(c, d, P)
      BY <2>2, <2>3, <2>4
    <3>3. Related(a \o c, b \o d, P)
      BY <3>1, <3>2, RelatedJoin
    <3> QED BY <2>2, <2>3, <3>1, <3>2, <3>3
  <2>6. Len(g[j]) = Len(h[j])
    BY <1>5, <2>2, <2>3, <2>4
  <2>7. j \in Z
    BY <2>5, <2>6
  <2> QED BY <2>1, <2>7
<1> HIDE DEF Z
<1>6. \A i \in 0 .. n : i \in Z
  BY <1>4, <1>5, Upward
<1>7. n \in Z
  BY <1>6
<1> QED BY <1>1, <1>2, <1>3, <1>7 DEF Z, Joined

(* Joins of sequences of the same lengths tell the sequences apart.         *)
LEMMA FlattenInjective ==
  ASSUME NEW S, NEW s \in Seq(Seq(S)), NEW t \in Seq(Seq(S)),
         SameLengths(s, t), FlattenSeq(s) = FlattenSeq(t)
  PROVE  s = t
<1>1. PICK n \in Nat : n = Len(s) /\ n = Len(t)
  BY LenProperties DEF SameLengths
<1>2. PICK g : Joined(S, s, g)
  BY FlattenJoins
<1>3. PICK h : Joined(S, t, h)
  BY FlattenJoins
<1> DEFINE Z == {i \in 0 .. n : Len(g[i]) = Len(h[i])}
<1>4. 0 \in Z
  BY <1>2, <1>3 DEF Joined
<1>5. ASSUME NEW i \in 0 .. n - 1, i \in Z
      PROVE  i + 1 \in Z
  <2>1. PICK j \in 1 .. n : j = i + 1 /\ j - 1 = i
    OBVIOUS
  <2>2. Len(g[j]) = Len(g[i]) + Len(s[j])
    <3>1. j \in 1 .. Len(s)
      BY <1>1
    <3>2. JoinStep(S, s, g, j)
      BY <1>2, <3>1, JoinedStep
    <3> QED BY <2>1, <3>2 DEF JoinStep
  <2>3. Len(h[j]) = Len(h[i]) + Len(t[j])
    <3>1. j \in 1 .. Len(t)
      BY <1>1
    <3>2. JoinStep(S, t, h, j)
      BY <1>3, <3>1, JoinedStep
    <3> QED BY <2>1, <3>2 DEF JoinStep
  <2>4. Len(s[j]) = Len(t[j])
    BY <1>1 DEF SameLengths
  <2>5. Len(g[j]) = Len(h[j])
    BY <1>5, <2>2, <2>3, <2>4
  <2> QED BY <2>1, <2>5
<1> HIDE DEF Z
<1>6. \A i \in 0 .. n : i \in Z
  BY <1>4, <1>5, Upward
<1> DEFINE Y == {k \in 1 .. n + 1 : g[k - 1] = h[k - 1]}
<1>7. n + 1 \in Y
  <2>1. (n + 1) - 1 = n /\ n + 1 \in 1 .. n + 1
    OBVIOUS
  <2>2. g[n] = FlattenSeq(s) /\ h[n] = FlattenSeq(t)
    BY <1>1, <1>2, <1>3 DEF Joined
  <2>3. g[n] = h[n]
    BY <2>2
  <2> QED BY <2>1, <2>3
<1>8. ASSUME NEW k \in 1 .. n, g[k] = h[k]
      PROVE  g[k - 1] = h[k - 1] /\ s[k] = t[k]
  <2>1. PICK a \in Seq(S), b \in Seq(S) : a = g[k - 1] /\ b = s[k] /\ g[k] = a \o b
    <3>1. k \in 1 .. Len(s)
      BY <1>1
    <3>2. JoinStep(S, s, g, k)
      BY <1>2, <3>1, JoinedStep
    <3> QED BY <3>2 DEF JoinStep
  <2>2. PICK c \in Seq(S), d \in Seq(S) : c = h[k - 1] /\ d = t[k] /\ h[k] = c \o d
    <3>1. k \in 1 .. Len(t)
      BY <1>1
    <3>2. JoinStep(S, t, h, k)
      BY <1>3, <3>1, JoinedStep
    <3> QED BY <3>2 DEF JoinStep
  <2>3. k - 1 \in 0 .. n
    OBVIOUS
  <2>4. Len(a) = Len(c)
    BY <1>6, <2>1, <2>2, <2>3 DEF Z
  <2>5. a \o b = c \o d
    BY <1>8, <2>1, <2>2
  <2>6. \A i \in 1 .. Len(a) : a[i] = c[i]
    <3> SUFFICES ASSUME NEW i \in 1 .. Len(a) PROVE a[i] = c[i]
      OBVIOUS
    <3>1. i \in 1 .. Len(a) + Len(b) /\ i <= Len(a) /\ i \in 1 .. Len(c) + Len(d) /\ i <= Len(c)
      BY <2>4, LenProperties
    <3>2. (a \o b)[i] = a[i]
      BY <3>1, ConcatProperties
    <3>3. (c \o d)[i] = c[i]
      BY <3>1, ConcatProperties
    <3> QED BY <2>5, <3>2, <3>3
  <2>7. a = c
    BY <2>4, <2>6, SeqEqual
  <2>8. b = d
    BY <2>5, <2>7, ConcatSimplifications
  <2> QED BY <2>1, <2>2, <2>7, <2>8
<1>9. ASSUME NEW k \in 1 .. n, k + 1 \in Y
      PROVE  k \in Y
  <2>1. (k + 1) - 1 = k
    OBVIOUS
  <2> QED BY <1>8, <1>9, <2>1
<1>10. \A k \in 1 .. n + 1 : k \in Y
  <2> HIDE DEF Y
  <2> QED BY <1>7, <1>9, Downward
<1>11. ASSUME NEW k \in 1 .. n
       PROVE  s[k] = t[k]
  <2>1. k + 1 \in Y /\ (k + 1) - 1 = k
    BY <1>10
  <2>2. g[k] = h[k]
    BY <2>1
  <2> QED BY <1>8, <2>2
<1> QED BY <1>1, <1>11, SeqEqual

------------------------------------------------------------------------------
(* Atomic types: the encoding follows the alignment. *)

(* The descriptors of one value, with the conditions their arguments meet.  *)
IsForeign(t) ==
  /\ t.tag = "Foreign"
  /\ t.max \in Nat /\ t.radix \in 1 .. MAX_FIELD + 1 /\ t.max \div t.radix <= MAX_FIELD
  /\ t.widths \in Nat \X Nat
  /\ Len(Digits[t.radix - 1]) <= t.widths[1]
  /\ Len(Digits[t.max \div t.radix]) <= t.widths[2]

(* The types of numbers: the digits of the maximum fit the length. *)
IsUint(t) == t.max \in Nat /\ t.length \in Nat /\ Len(Digits[t.max]) <= t.length

(* The types encoded without parts, and their values. *)
IsAtomic(t) ==
  \/ t.tag = "Field"
  \/ t.tag = "Boolean"
  \/ t.tag = "Opaque"
  \/ t.tag = "Bytes" /\ t.length \in Nat
  \/ t.tag = "Uint" /\ IsUint(t)
  \/ t.tag = "Enum" /\ IsUint(t) /\ Len(Digits[t.max]) <= WordBytes
  \/ IsForeign(t)

AtomicRange(t) ==
  CASE t.tag = "Field"   -> 0 .. MAX_FIELD
    [] t.tag = "Foreign" -> 0 .. t.max
    [] t.tag = "Enum"    -> 0 .. t.max
    [] t.tag = "Uint"    -> 0 .. t.max
    [] t.tag = "Boolean" -> BOOLEAN
    [] t.tag = "Bytes"   -> Bytes(t.length)
    [] t.tag = "Opaque"  -> Atom

(* The bytes a width stands for, and the atoms that fit it.                 *)
Width(w) == IF w = FieldWidth THEN FieldBytes ELSE w
(* An atom and the width it fits: a compressed one has none. *)
Fitting == {p \in Atom \X Int : p[2] # CompressWidth => /\ Trim(p[1]) /\ Len(p[1]) <= Width(p[2])
                                                        /\ Width(p[2]) \in Nat}

(* An encoding follows an alignment.                                        *)
Encodes(enc, align) ==
  /\ enc \in Seq(Atom) /\ align \in Seq(Int) /\ Len(enc) = Len(align)
  /\ Related(enc, align, Fitting)

(* One atom that fits one width. *)
LEMMA EncodesOne ==
  ASSUME NEW a \in Atom, NEW w \in Int,
         w # CompressWidth => Trim(a) /\ Len(a) <= Width(w) /\ Width(w) \in Nat
  PROVE  Encodes(<<a>>, <<w>>)
<1>1. <<a, w>> \in Fitting
  BY DEF Fitting
<1>2. PICK e, l : e = <<a>> /\ l = <<w>>
  OBVIOUS
<1>3. e \in Seq(Atom) /\ l \in Seq(Int) /\ Len(e) = 1 /\ Len(l) = 1 /\ e[1] = a /\ l[1] = w
  BY <1>2
<1>4. Related(e, l, Fitting)
  BY <1>1, <1>3 DEF Related
<1> QED BY <1>2, <1>3, <1>4 DEF Encodes

(* The digits of a number that is at most another fit what its digits fit.  *)
LEMMA DigitsEncode ==
  ASSUME NEW m \in Nat, NEW x \in 0 .. m, NEW w \in Int, Width(w) \in Nat, Len(Digits[m]) <= Width(w)
  PROVE  Digits[x] \in Atom /\ Trim(Digits[x]) /\ Len(Digits[x]) <= Width(w)
<1>1. x \in Nat
  OBVIOUS
<1>2. Digits[x] \in Atom /\ Digits[m] \in Atom /\ Trim(Digits[x])
  BY <1>1, DigitsDefined, DigitsTrim
<1>3. Len(Digits[x]) <= Len(Digits[m])
  BY DigitsMonotone
<1>4. Len(Digits[x]) \in Nat /\ Len(Digits[m]) \in Nat
  BY <1>2, LenProperties DEF Atom
<1> QED BY <1>2, <1>3, <1>4

(* Byte arrays are atoms of their length. *)
LEMMA BytesAreAtoms ==
  ASSUME NEW n \in Nat, NEW b \in Bytes(n)
  PROVE  b \in Atom /\ Len(b) = n
<1>1. b \in [1 .. n -> Byte]
  BY DEF Bytes, Byte
<1>2. b \in Seq(Byte)
  BY <1>1, SeqDef
<1>3. DOMAIN b = 1 .. n /\ DOMAIN b = 1 .. Len(b) /\ Len(b) \in Nat
  BY <1>1, <1>2, LenProperties
<1>4. Len(b) = n
  BY <1>3
<1> QED BY <1>2, <1>4 DEF Atom

(* The limbs of a foreign field element.                                    *)
LEMMA ForeignLimbs ==
  ASSUME NEW t, IsForeign(t), NEW x \in 0 .. t.max
  PROVE  \E raw \in 0 .. t.max, low \in 0 .. MAX_FIELD, high \in 0 .. MAX_FIELD :
           /\ low \in 0 .. t.radix - 1 /\ high \in 0 .. t.max \div t.radix
           /\ ForeignToValue(t, x) = <<Digits[low], Digits[high]>>
           /\ raw = high * t.radix + low
           /\ x = IF raw = t.max THEN 0 ELSE raw + 1
<1>1. PICK m \in Nat : m = t.max
  BY DEF IsForeign
<1>2. PICK f \in Nat : f = MAX_FIELD
  BY ConstantTypes
<1>3. PICK r \in 1 .. f + 1 : r = t.radix /\ m \div r <= f
  BY <1>1, <1>2 DEF IsForeign
<1>4. PICK raw \in 0 .. m : raw = IF x = 0 THEN m ELSE x - 1
  BY <1>1
<1>5. PICK low \in 0 .. r - 1, high \in Nat : low = raw % r /\ high = raw \div r /\ raw = high * r + low
  <2>1. raw % r \in 0 .. r - 1 /\ raw \div r \in Nat /\ raw = (raw \div r) * r + (raw % r)
    OBVIOUS
  <2> QED BY <2>1
<1>6. high <= m \div r
  <2>1. PICK q \in Nat, s \in 0 .. r - 1 : q = m \div r /\ m = q * r + s
    <3>1. m % r \in 0 .. r - 1 /\ m \div r \in Nat /\ m = (m \div r) * r + (m % r)
      OBVIOUS
    <3> QED BY <3>1
  <2>2. SUFFICES ASSUME high >= q + 1 PROVE FALSE
    BY <2>1
  <2>3. high * r >= (q + 1) * r
    BY <2>2
  <2>4. (q + 1) * r = q * r + r
    OBVIOUS
  <2>5. PICK y \in Int, z \in Int : y = high * r /\ z = q * r
    OBVIOUS
  <2> QED BY <1>5, <2>1, <2>3, <2>4, <2>5
<1>7. m \div r \in Nat
  OBVIOUS
<1>8. ForeignToValue(t, x) = <<Digits[low], Digits[high]>>
  BY <1>1, <1>3, <1>4, <1>5 DEF ForeignToValue
<1>9. x = IF raw = m THEN 0 ELSE raw + 1
  BY <1>1, <1>4
<1>10. low \in 0 .. f /\ high \in 0 .. f /\ high \in 0 .. m \div r
  <2>1. low \in 0 .. f
    BY <1>5
  <2>2. PICK q \in Nat : q = m \div r
    BY <1>7
  <2>3. high \in 0 .. q /\ q <= f
    BY <1>3, <1>5, <1>6, <2>2
  <2>4. high \in 0 .. f
    BY <2>2, <2>3
  <2> QED BY <2>1, <2>2, <2>3, <2>4
<1>11. /\ raw \in 0 .. t.max /\ low \in 0 .. MAX_FIELD /\ high \in 0 .. MAX_FIELD
       /\ low \in 0 .. t.radix - 1 /\ high \in 0 .. t.max \div t.radix
       /\ raw = high * t.radix + low
       /\ x = IF raw = t.max THEN 0 ELSE raw + 1
  BY <1>1, <1>2, <1>3, <1>5, <1>9, <1>10
<1> QED BY <1>8, <1>11

(* The encoding of a value follows the alignment of its type.               *)
LEMMA AtomicEncodes ==
  ASSUME NEW t, IsAtomic(t), NEW x \in AtomicRange(t)
  PROVE  Encodes(AtomicToValue(t, x), AtomicAlignment(t))
<1>1. CASE t.tag = "Field"
  <2>1. x \in 0 .. MAX_FIELD /\ AtomicToValue(t, x) = <<Digits[x]>> /\ AtomicAlignment(t) = <<FieldWidth>>
    BY <1>1 DEF AtomicRange, AtomicToValue, AtomicAlignment
  <2>2. Width(FieldWidth) = FieldBytes /\ FieldBytes \in Nat /\ FieldWidth \in Int /\ MAX_FIELD \in Nat
    BY ConstantTypes DEF Width, FieldWidth
  <2>3. Digits[x] \in Atom /\ Trim(Digits[x]) /\ Len(Digits[x]) <= Width(FieldWidth)
    BY <2>1, <2>2, BytesAssumption, DigitsEncode
  <2> QED BY <2>1, <2>2, <2>3, EncodesOne
<1>2. CASE t.tag = "Boolean"
  <2>1. AtomicToValue(t, x) = (IF x THEN <<<<1>>>> ELSE <<<<>>>>) /\ AtomicAlignment(t) = <<1>>
    BY <1>2 DEF AtomicToValue, AtomicAlignment
  <2>2. Width(1) = 1
    BY DEF Width, FieldWidth
  <2>3. 1 \in Byte
    BY ConstantTypes DEF Byte
  <2>4. <<1>> \in Atom /\ Trim(<<1>>) /\ Len(<<1>>) = 1
    BY <2>3 DEF Atom, Trim
  <2>5. <<>> \in Atom /\ Trim(<<>>) /\ Len(<<>>) = 0
    <3>1. <<>> \in Atom
      BY DEF Atom
    <3>2. Len(<<>>) = 0
      OBVIOUS
    <3> QED BY <3>1, <3>2 DEF Trim
  <2>6. Encodes(<<<<1>>>>, <<1>>)
    <3>1. PICK a \in Atom : a = <<1>> /\ Trim(a) /\ Len(a) <= Width(1) /\ Width(1) \in Nat
      BY <2>2, <2>4
    <3>2. PICK w \in Int : w = 1
      OBVIOUS
    <3>3. Encodes(<<a>>, <<w>>)
      BY <3>1, <3>2, EncodesOne
    <3> QED BY <3>1, <3>2, <3>3
  <2>7. Encodes(<<<<>>>>, <<1>>)
    <3>1. PICK a \in Atom : a = <<>> /\ Trim(a) /\ Len(a) <= Width(1) /\ Width(1) \in Nat
      BY <2>2, <2>5
    <3>2. PICK w \in Int : w = 1
      OBVIOUS
    <3>3. Encodes(<<a>>, <<w>>)
      BY <3>1, <3>2, EncodesOne
    <3> QED BY <3>1, <3>2, <3>3
  <2> QED BY <2>1, <2>6, <2>7
<1>3. CASE t.tag = "Opaque"
  <2>1. x \in Atom /\ AtomicToValue(t, x) = <<x>> /\ AtomicAlignment(t) = <<CompressWidth>>
    BY <1>3 DEF AtomicRange, AtomicToValue, AtomicAlignment
  <2>2. CompressWidth \in Int
    BY DEF CompressWidth
  <2> QED BY <2>1, <2>2, EncodesOne
<1>4. CASE t.tag = "Bytes" /\ t.length \in Nat
  <2>1. x \in Bytes(t.length) /\ AtomicToValue(t, x) = <<Trimmed(x)>> /\ AtomicAlignment(t) = <<t.length>>
    BY <1>4 DEF AtomicRange, AtomicToValue, AtomicAlignment, BytesToValue
  <2>2. Width(t.length) = t.length
    BY <1>4 DEF Width, FieldWidth
  <2>3. x \in Atom /\ Len(x) = t.length
    BY <1>4, <2>1, BytesAreAtoms
  <2>4. Trimmed(x) \in Atom /\ Trim(Trimmed(x)) /\ Len(Trimmed(x)) <= t.length
    BY <2>3, TrimmedFacts
  <2>5. t.length \in Int
    BY <1>4
  <2> QED BY <1>4, <2>1, <2>2, <2>4, <2>5, EncodesOne
<1>5. CASE t.tag \in {"Uint", "Enum"} /\ IsUint(t)
  <2>1. x \in 0 .. t.max /\ AtomicToValue(t, x) = <<Digits[x]>> /\ AtomicAlignment(t) = <<t.length>>
    BY <1>5 DEF AtomicRange, AtomicToValue, AtomicAlignment
  <2>2. Width(t.length) = t.length /\ t.length \in Nat /\ t.length \in Int /\ t.max \in Nat
    BY <1>5 DEF Width, FieldWidth, IsUint
  <2>4. Len(Digits[t.max]) <= Width(t.length)
    BY <1>5, <2>2 DEF IsUint
  <2>5. PICK m \in Nat, w \in Int : m = t.max /\ w = t.length
    BY <2>2
  <2>3. Digits[x] \in Atom /\ Trim(Digits[x]) /\ Len(Digits[x]) <= Width(w)
    BY <2>1, <2>2, <2>4, <2>5, DigitsEncode
  <2> QED BY <2>1, <2>2, <2>3, <2>5, EncodesOne
<1>6. CASE IsForeign(t)
  <2>1. x \in 0 .. t.max /\ AtomicToValue(t, x) = ForeignToValue(t, x) /\ AtomicAlignment(t) = t.widths
    BY <1>6 DEF AtomicRange, AtomicToValue, AtomicAlignment, IsForeign
  <2>2. PICK low \in 0 .. t.radix - 1, high \in 0 .. t.max \div t.radix :
               ForeignToValue(t, x) = <<Digits[low], Digits[high]>>
    BY <1>6, <2>1, ForeignLimbs
  <2>3. PICK u \in Nat, v \in Nat : t.widths = <<u, v>> /\ Width(u) = u /\ Width(v) = v
    BY <1>6 DEF IsForeign, Width, FieldWidth
  <2>4. t.radix - 1 \in Nat /\ t.max \div t.radix \in Nat
    <3>1. t.max \in Nat /\ t.radix \in 1 .. MAX_FIELD + 1 /\ MAX_FIELD \in Nat
      BY <1>6, ConstantTypes DEF IsForeign
    <3>2. PICK m \in Nat, r \in Nat \ {0} : m = t.max /\ r = t.radix
      BY <3>1
    <3>3. m \div r \in Nat /\ r - 1 \in Nat
      OBVIOUS
    <3> QED BY <3>2, <3>3
  <2>5. Len(Digits[t.radix - 1]) <= Width(u) /\ Len(Digits[t.max \div t.radix]) <= Width(v)
    <3>1. /\ Len(Digits[t.radix - 1]) <= t.widths[1]
          /\ Len(Digits[t.max \div t.radix]) <= t.widths[2]
      BY <1>6 DEF IsForeign
    <3>2. t.widths[1] = u /\ t.widths[2] = v
      BY <2>3
    <3> QED BY <2>3, <3>1, <3>2
  <2>6. PICK a \in Atom : a = Digits[low] /\ Trim(a) /\ Len(a) <= Width(u)
    BY <2>3, <2>4, <2>5, DigitsEncode
  <2>7. PICK b \in Atom : b = Digits[high] /\ Trim(b) /\ Len(b) <= Width(v)
    BY <2>3, <2>4, <2>5, DigitsEncode
  <2>8. <<a, u>> \in Fitting /\ <<b, v>> \in Fitting
    BY <2>3, <2>6, <2>7 DEF Fitting
  <2>9. PICK e, l : e = <<a, b>> /\ l = <<u, v>>
    OBVIOUS
  <2>10. /\ e \in Seq(Atom) /\ l \in Seq(Int) /\ Len(e) = 2 /\ Len(l) = 2
         /\ e[1] = a /\ l[1] = u /\ e[2] = b /\ l[2] = v
    BY <2>9
  <2>11. Related(e, l, Fitting)
    <3>1. \A j \in 1 .. 2 : j = 1 \/ j = 2
      OBVIOUS
    <3> QED BY <2>8, <2>10, <3>1 DEF Related
  <2> QED BY <2>1, <2>2, <2>3, <2>6, <2>7, <2>9, <2>10, <2>11 DEF Encodes
<1> QED BY <1>1, <1>2, <1>3, <1>4, <1>5, <1>6 DEF IsAtomic

(* What is left of a sequence after some of it.                             *)
Dropped(s, m, r) == Len(r) = Len(s) - m /\ \A i \in 1 .. Len(s) - m : r[i] = s[i + m]

(* Dropping the first m elements of a sequence. *)
LEMMA DropFacts ==
  ASSUME NEW S, NEW s \in Seq(S), NEW m \in Nat, m <= Len(s), NEW r, r = SubSeq(s, m + 1, Len(s))
  PROVE  r \in Seq(S) /\ Dropped(s, m, r)
<1>1. PICK k \in Nat : k = Len(s)
  BY LenProperties
<1>2. PICK l \in Int : l = m + 1
  OBVIOUS
<1>3. \A i \in l .. k : s[i] \in S
  BY <1>1, <1>2, ElementOfSeq
<1>4. r = SubSeq(s, l, k)
  BY <1>1, <1>2
<1>5. /\ r \in Seq(S)
      /\ Len(r) = IF l <= k THEN k - l + 1 ELSE 0
      /\ \A i \in 1 .. k - l + 1 : r[i] = s[l + i - 1]
  <2>1. SubSeq(s, l, k) \in Seq(S)
    BY <1>1, <1>3, SubSeqProperties
  <2>2. Len(SubSeq(s, l, k)) = IF l <= k THEN k - l + 1 ELSE 0
    BY <1>1, <1>3, SubSeqProperties
  <2>3. \A i \in 1 .. k - l + 1 : SubSeq(s, l, k)[i] = s[l + i - 1]
    BY <1>1, <1>3, SubSeqProperties
  <2> QED BY <1>4, <2>1, <2>2, <2>3, Zenon
<1>6. Len(r) = k - m
  BY <1>1, <1>2, <1>5
<1>7. \A i \in 1 .. k - m : i \in 1 .. k - l + 1 /\ l + i - 1 = i + m
  BY <1>2
<1> QED BY <1>1, <1>5, <1>6, <1>7 DEF Dropped

(* One atom or two before the rest of a value.                              *)
LEMMA OneAtom ==
  ASSUME NEW a \in Atom, NEW rest \in Seq(Atom), NEW v, v = <<a>> \o rest
  PROVE  v \in Seq(Atom) /\ v # <<>> /\ Head(v) = a /\ Tail(v) = rest
<1>1. <<a>> \in Seq(Atom) /\ Len(<<a>>) = 1 /\ <<a>>[1] = a
  OBVIOUS
<1>2. v \in Seq(Atom) /\ Len(v) = 1 + Len(rest)
         /\ \A i \in 1 .. 1 + Len(rest) : v[i] = IF i <= 1 THEN a ELSE rest[i - 1]
  BY <1>1, ConcatProperties
<1>3. Len(rest) \in Nat
  BY LenProperties
<1>4. v # <<>>
  BY <1>2, <1>3, EmptySeq
<1>5. Head(v) = a
  <2>1. Head(v) = v[1]
    BY <1>2
  <2> QED BY <1>2, <1>3, <2>1
<1>6. Tail(v) \in Seq(Atom) /\ Len(Tail(v)) = Len(rest) /\ \A i \in 1 .. Len(Tail(v)) : Tail(v)[i] = v[i + 1]
  <2>1. Tail(v) \in Seq(Atom) /\ Len(Tail(v)) = Len(v) - 1
           /\ \A i \in 1 .. Len(Tail(v)) : Tail(v)[i] = v[i + 1]
    BY <1>2, <1>4, HeadTailProperties
  <2> QED BY <1>2, <1>3, <2>1
<1>7. \A i \in 1 .. Len(rest) : v[i + 1] = rest[i]
  BY <1>2, <1>3
<1>8. Tail(v) = rest
  BY <1>6, <1>7, SeqEqual
<1> QED BY <1>2, <1>4, <1>5, <1>8

(* The first two atoms of an array and what is left without them. *)
LEMMA TwoAtoms ==
  ASSUME NEW a \in Atom, NEW b \in Atom, NEW rest \in Seq(Atom), NEW v, v = <<a, b>> \o rest
  PROVE  v \in Seq(Atom) /\ ~(Len(v) < 2) /\ v[1] = a /\ v[2] = b /\ SubSeq(v, 3, Len(v)) = rest
<1>1. <<a, b>> \in Seq(Atom) /\ Len(<<a, b>>) = 2 /\ <<a, b>>[1] = a /\ <<a, b>>[2] = b
  OBVIOUS
<1>2. PICK c : c = <<a, b>>
  OBVIOUS
<1>3. v \in Seq(Atom) /\ Len(v) = 2 + Len(rest)
         /\ \A i \in 1 .. 2 + Len(rest) : v[i] = IF i <= 2 THEN c[i] ELSE rest[i - 2]
  BY <1>1, <1>2, ConcatProperties
<1>4. PICK n \in Nat : n = Len(rest)
  BY LenProperties
<1>5. ~(Len(v) < 2) /\ v[1] = a /\ v[2] = b
  BY <1>1, <1>2, <1>3, <1>4
<1>6. PICK s : s = SubSeq(v, 3, Len(v))
  OBVIOUS
<1>7. s \in Seq(Atom) /\ Len(s) = n /\ \A i \in 1 .. n : s[i] = v[i + 2]
  <2>1. PICK m \in Nat : m = 2 /\ m <= Len(v)
    BY <1>3, <1>4
  <2>2. s = SubSeq(v, m + 1, Len(v))
    BY <1>6, <2>1
  <2>3. Dropped(v, m, s)
    BY <1>3, <2>1, <2>2, DropFacts
  <2>5. s \in Seq(Atom)
    BY <1>3, <2>1, <2>2, DropFacts
  <2>4. s \in Seq(Atom) /\ Len(s) = Len(v) - m /\ \A i \in 1 .. Len(v) - m : s[i] = v[i + m]
    BY <2>3, <2>5 DEF Dropped
  <2> QED BY <1>3, <1>4, <2>1, <2>4
<1>8. \A i \in 1 .. n : v[i + 2] = rest[i]
  BY <1>3, <1>4
<1>9. s = rest
  BY <1>4, <1>7, <1>8, SeqEqual
<1> QED BY <1>3, <1>5, <1>6, <1>9

------------------------------------------------------------------------------
(* Atomic types: the decoder. *)

(* What a decoder takes off a value: val, and the first n atoms.            *)
Takes(o, n, value, Vals) ==
  /\ o.val \in Vals /\ o.rest \in Seq(Atom) /\ Len(value) = n + Len(o.rest)

(* The result of a decoder that does not throw. *)
LEMMA TakeFacts ==
  ASSUME NEW val, NEW rest, NEW o, o = Take(val, rest)
  PROVE  o.ok /\ o.val = val /\ o.rest = rest
BY DEF Take

(* The result of a decoder that throws. *)
LEMMA ThrowFacts == ~Throw.ok
BY DEF Throw

(* A value is read back from its encoding, whatever follows.                *)
LEMMA AtomicReads ==
  ASSUME NEW t, IsAtomic(t), NEW x \in AtomicRange(t), NEW rest \in Seq(Atom)
  PROVE  AtomicFromValue(t, AtomicToValue(t, x) \o rest) = Take(x, rest)
<1>1. PICK e : e = AtomicToValue(t, x) /\ Encodes(e, AtomicAlignment(t))
  BY AtomicEncodes
<1>2. PICK v : v = e \o rest
  OBVIOUS
<1>3. ASSUME NEW a \in Atom, e = <<a>>
      PROVE  v # <<>> /\ Head(v) = a /\ Tail(v) = rest /\ v \in Seq(Atom)
  BY <1>2, <1>3, OneAtom
<1>4. ASSUME NEW m \in Nat, x \in 0 .. m
      PROVE  x \in Nat /\ Digits[x] \in Atom /\ Number(Digits[x]) = x /\ ~(x > m)
  BY <1>4, DigitsDefined, NumberOfDigits
<1>5. CASE t.tag = "Field"
  <2>1. x \in 0 .. MAX_FIELD /\ e = <<Digits[x]>> /\ AtomicFromValue(t, v) = FieldFromValue(v)
    BY <1>1, <1>5 DEF AtomicRange, AtomicToValue, AtomicFromValue
  <2>2. Digits[x] \in Atom /\ Number(Digits[x]) = x /\ ~(x > MAX_FIELD)
    BY <1>4, <2>1, ConstantTypes
  <2>3. v # <<>> /\ Head(v) = Digits[x] /\ Tail(v) = rest
    BY <1>3, <2>1, <2>2
  <2>4. FieldFromValue(v) = Take(x, rest)
    BY <2>2, <2>3 DEF FieldFromValue
  <2> QED BY <1>1, <1>2, <2>1, <2>4
<1>6. CASE t.tag = "Boolean"
  <2>1. x \in BOOLEAN /\ e = (IF x THEN <<<<1>>>> ELSE <<<<>>>>) /\ AtomicFromValue(t,
           v) = BooleanFromValue(v)
    BY <1>1, <1>6 DEF AtomicRange, AtomicToValue, AtomicFromValue
  <2>2. 1 \in Byte
    BY ConstantTypes DEF Byte
  <2>3. PICK one \in Atom : one = <<1>>
    <3>1. <<1>> \in Atom
      BY <2>2 DEF Atom
    <3> QED BY <3>1
  <2>4. PICK none \in Atom : none = <<>>
    <3>1. <<>> \in Atom
      BY DEF Atom
    <3> QED BY <3>1
  <2>5. one # none
    <3>1. Len(<<1>>) = 1 /\ Len(<<>>) = 0
      OBVIOUS
    <3> QED BY <2>3, <2>4, <3>1
  <2>6. CASE x
    <3>1. v # <<>> /\ Head(v) = one /\ Tail(v) = rest
      BY <1>3, <2>1, <2>3, <2>6
    <3>2. BooleanFromValue(v) = Take(TRUE, rest)
      BY <2>3, <3>1 DEF BooleanFromValue
    <3>3. x = TRUE
      BY <2>1, <2>6
    <3> QED BY <1>1, <1>2, <2>1, <3>2, <3>3
  <2>7. CASE ~x
    <3>1. v # <<>> /\ Head(v) = none /\ Tail(v) = rest
      BY <1>3, <2>1, <2>4, <2>7
    <3>2. Head(v) \in {<<>>, <<1>>} /\ (Head(v) = <<1>>) = FALSE
      BY <2>3, <2>4, <2>5, <3>1
    <3>3. BooleanFromValue(v) = Take(FALSE, rest)
      BY <3>1, <3>2 DEF BooleanFromValue
    <3>4. x = FALSE
      BY <2>1, <2>7
    <3> QED BY <1>1, <1>2, <2>1, <3>3, <3>4
  <2> QED BY <2>6, <2>7
<1>7. CASE t.tag = "Opaque"
  <2>1. x \in Atom /\ e = <<x>> /\ AtomicFromValue(t, v) = OpaqueFromValue(v)
    BY <1>1, <1>7 DEF AtomicRange, AtomicToValue, AtomicFromValue
  <2>2. v # <<>> /\ Head(v) = x /\ Tail(v) = rest
    BY <1>3, <2>1
  <2>3. OpaqueFromValue(v) = Take(x, rest)
    BY <2>2 DEF OpaqueFromValue
  <2> QED BY <1>1, <1>2, <2>1, <2>3
<1>8. CASE t.tag = "Bytes" /\ t.length \in Nat
  <2>1. x \in Bytes(t.length) /\ e = <<Trimmed(x)>> /\ AtomicFromValue(t, v) = BytesFromValue(t, v)
    BY <1>1, <1>8 DEF AtomicRange, AtomicToValue, AtomicFromValue, BytesToValue
  <2>2. x \in Atom /\ Len(x) = t.length
    BY <1>8, <2>1, BytesAreAtoms
  <2>3. Trimmed(x) \in Atom /\ Len(Trimmed(x)) <= t.length /\ Padded(Trimmed(x), t.length) = x
    BY <2>2, TrimmedFacts
  <2>4. Len(Trimmed(x)) \in Nat /\ ~(Len(Trimmed(x)) > t.length)
    BY <1>8, <2>3, LenProperties DEF Atom
  <2>5. v # <<>> /\ Head(v) = Trimmed(x) /\ Tail(v) = rest
    BY <1>3, <2>1, <2>3
  <2>6. BytesFromValue(t, v) = Take(x, rest)
    BY <2>3, <2>4, <2>5 DEF BytesFromValue
  <2> QED BY <1>1, <1>2, <2>1, <2>6
<1>9. CASE t.tag = "Uint" /\ IsUint(t)
  <2>1. x \in 0 .. t.max /\ e = <<Digits[x]>> /\ AtomicFromValue(t, v) = UnsignedIntegerFromValue(t, v)
    BY <1>1, <1>9 DEF AtomicRange, AtomicToValue, AtomicFromValue
  <2>2. Digits[x] \in Atom /\ Number(Digits[x]) = x /\ ~(x > t.max)
    BY <1>4, <1>9, <2>1 DEF IsUint
  <2>3. v # <<>> /\ Head(v) = Digits[x] /\ Tail(v) = rest
    BY <1>3, <2>1, <2>2
  <2>4. UnsignedIntegerFromValue(t, v) = Take(x, rest)
    BY <2>2, <2>3 DEF UnsignedIntegerFromValue
  <2> QED BY <1>1, <1>2, <2>1, <2>4
<1>10. CASE t.tag = "Enum" /\ IsUint(t) /\ Len(Digits[t.max]) <= WordBytes
  <2>1. x \in 0 .. t.max /\ e = <<Digits[x]>> /\ AtomicFromValue(t, v) = EnumFromValue(t, v)
    BY <1>1, <1>10 DEF AtomicRange, AtomicToValue, AtomicFromValue
  <2>2. PICK a \in Atom : a = Digits[x] /\ Number(a) = x /\ ~(x > t.max)
    BY <1>4, <1>10, <2>1 DEF IsUint
  <2>3. v # <<>> /\ Head(v) = a /\ Tail(v) = rest /\ v \in Seq(Atom)
    BY <1>3, <2>1, <2>2
  <2>4. Len(a) <= WordBytes
    <3>1. t.max \in Nat
      BY <1>10 DEF IsUint
    <3>2. Len(a) <= Len(Digits[t.max])
      BY <2>1, <2>2, <3>1, DigitsMonotone
    <3>3. Len(a) \in Nat /\ Len(Digits[t.max]) \in Nat
      BY <2>2, <3>1, DigitsDefined, LenProperties DEF Atom
    <3> QED BY <1>10, <3>2, <3>3, ConstantTypes
  <2>5. PICK g : /\ ByteSums(Head(v), g)
                 /\ EnumFromValue(t, v) = IF g[Len(Head(v))] > t.max THEN Throw
                                          ELSE Take(g[Len(Head(v))], Tail(v))
    BY <2>3, EnumReads
  <2>6. g[Len(a)] = x
    BY <2>2, <2>3, <2>4, <2>5, EnumNumber
  <2> QED BY <1>1, <1>2, <2>1, <2>2, <2>3, <2>5, <2>6
<1>11. CASE IsForeign(t)
  <2>1. x \in 0 .. t.max /\ e = ForeignToValue(t, x) /\ AtomicFromValue(t, v) = ForeignFromValue(t, v)
    BY <1>1, <1>11 DEF AtomicRange, AtomicToValue, AtomicFromValue, IsForeign
  <2>2. PICK raw \in 0 .. t.max, low \in 0 .. MAX_FIELD, high \in 0 .. MAX_FIELD :
           /\ low \in 0 .. t.radix - 1 /\ high \in 0 .. t.max \div t.radix
           /\ ForeignToValue(t, x) = <<Digits[low], Digits[high]>>
           /\ raw = high * t.radix + low
           /\ x = IF raw = t.max THEN 0 ELSE raw + 1
    BY <1>11, <2>1, ForeignLimbs
  <2>3. /\ Digits[low] \in Atom /\ Number(Digits[low]) = low
        /\ Digits[high] \in Atom /\ Number(Digits[high]) = high
    BY <2>2, DigitsDefined, NumberOfDigits
  <2>4. ~(Len(v) < 2) /\ v[1] = Digits[low] /\ v[2] = Digits[high] /\ SubSeq(v, 3, Len(v)) = rest
    BY <1>2, <2>1, <2>2, <2>3, TwoAtoms
  <2>5. ~(low > MAX_FIELD) /\ ~(high > MAX_FIELD) /\ ~(low >= t.radix) /\ ~(x > t.max)
    <3>1. PICK m \in Nat, r \in Nat, f \in Nat : m = t.max /\ r = t.radix /\ f = MAX_FIELD
      BY <1>11, ConstantTypes DEF IsForeign
    <3>2. low \in 0 .. f /\ high \in 0 .. f /\ low \in 0 .. r - 1 /\ x \in 0 .. m
      BY <2>1, <2>2, <3>1
    <3> QED BY <3>1, <3>2
  <2>6. ForeignFromValue(t, v) = Take(x, rest)
    BY <2>2, <2>3, <2>4, <2>5 DEF ForeignFromValue
  <2> QED BY <1>1, <1>2, <2>1, <2>6
<1> QED BY <1>5, <1>6, <1>7, <1>8, <1>9, <1>10, <1>11 DEF IsAtomic

(* The first atom of an array and what is left without it. *)
LEMMA HeadTail ==
  ASSUME NEW v \in Seq(Atom), v # <<>>
  PROVE  Head(v) \in Atom /\ Tail(v) \in Seq(Atom) /\ Len(v) = 1 + Len(Tail(v))
<1>1. Len(v) \in Nat
  BY LenProperties
<1> QED BY <1>1, HeadTailProperties

(* The number of atoms of an atomic type. *)
AtomicWidth(t) == IF t.tag = "Foreign" THEN 2 ELSE 1

(* What a decoder returns is in the range of its type, and it took the atoms
   of the type.                                                             *)
LEMMA AtomicSound ==
  ASSUME NEW t, IsAtomic(t), NEW v \in Seq(Atom), AtomicFromValue(t, v).ok
  PROVE  Takes(AtomicFromValue(t, v), AtomicWidth(t), v, AtomicRange(t))
<1>1. PICK o : o = AtomicFromValue(t, v) /\ o.ok
  OBVIOUS
<1>2. ASSUME t.tag # "Foreign", v # <<>>, NEW val \in AtomicRange(t), o = Take(val, Tail(v))
      PROVE  Takes(o, AtomicWidth(t), v, AtomicRange(t))
  <2>1. o.val = val /\ o.rest = Tail(v)
    BY <1>2 DEF Take
  <2>2. Tail(v) \in Seq(Atom) /\ Len(v) = 1 + Len(Tail(v))
    BY <1>2, HeadTail
  <2>3. AtomicWidth(t) = 1
    BY <1>2 DEF AtomicWidth
  <2> QED BY <2>1, <2>2, <2>3 DEF Takes
<1>3. \A a \in Atom : Number(a) \in Nat
  BY NumberType
<1>4. CASE t.tag = "Field"
  <2>1. o = FieldFromValue(v) /\ AtomicRange(t) = 0 .. MAX_FIELD
    BY <1>1, <1>4 DEF AtomicRange, AtomicFromValue
  <2>2. v # <<>> /\ ~(Number(Head(v)) > MAX_FIELD) /\ o = Take(Number(Head(v)), Tail(v))
    BY <1>1, <2>1, ThrowFacts DEF FieldFromValue
  <2>3. Number(Head(v)) \in 0 .. MAX_FIELD
    BY <1>3, <2>2, HeadTail, ConstantTypes
  <2> QED BY <1>1, <1>2, <1>4, <2>1, <2>2, <2>3
<1>5. CASE t.tag = "Boolean"
  <2>1. o = BooleanFromValue(v) /\ AtomicRange(t) = BOOLEAN
    BY <1>1, <1>5 DEF AtomicRange, AtomicFromValue
  <2>2. v # <<>> /\ o = Take(Head(v) = <<1>>, Tail(v))
    BY <1>1, <2>1, ThrowFacts DEF BooleanFromValue
  <2>3. (Head(v) = <<1>>) \in BOOLEAN
    OBVIOUS
  <2> QED BY <1>1, <1>2, <1>5, <2>1, <2>2, <2>3
<1>6. CASE t.tag = "Opaque"
  <2>1. o = OpaqueFromValue(v) /\ AtomicRange(t) = Atom
    BY <1>1, <1>6 DEF AtomicRange, AtomicFromValue
  <2>2. v # <<>> /\ o = Take(Head(v), Tail(v))
    BY <1>1, <2>1, ThrowFacts DEF OpaqueFromValue
  <2> QED BY <1>1, <1>2, <1>6, <2>1, <2>2, HeadTail
<1>7. CASE t.tag = "Bytes" /\ t.length \in Nat
  <2>1. o = BytesFromValue(t, v) /\ AtomicRange(t) = Bytes(t.length)
    BY <1>1, <1>7 DEF AtomicRange, AtomicFromValue
  <2>2. v # <<>> /\ o = Take(Padded(Head(v), t.length), Tail(v))
    BY <1>1, <2>1, ThrowFacts DEF BytesFromValue
  <2>3. Padded(Head(v), t.length) \in Bytes(t.length)
    BY <1>7, <2>2, HeadTail, PaddedType
  <2> QED BY <1>1, <1>2, <1>7, <2>1, <2>2, <2>3
<1>8. CASE t.tag = "Uint" /\ IsUint(t)
  <2>1. o = UnsignedIntegerFromValue(t, v) /\ AtomicRange(t) = 0 .. t.max
    BY <1>1, <1>8 DEF AtomicRange, AtomicFromValue
  <2>2. v # <<>> /\ ~(Number(Head(v)) > t.max) /\ o = Take(Number(Head(v)), Tail(v))
    BY <1>1, <2>1, ThrowFacts DEF UnsignedIntegerFromValue
  <2>3. Number(Head(v)) \in 0 .. t.max
    BY <1>3, <1>8, <2>2, HeadTail DEF IsUint
  <2> QED BY <1>1, <1>2, <1>8, <2>1, <2>2, <2>3
<1>9. CASE t.tag = "Enum" /\ IsUint(t)
  <2>1. o = EnumFromValue(t, v) /\ AtomicRange(t) = 0 .. t.max
    BY <1>1, <1>9 DEF AtomicRange, AtomicFromValue
  <2>2. v # <<>>
    BY <1>1, <2>1, ThrowFacts DEF EnumFromValue
  <2>3. PICK g : /\ ByteSums(Head(v), g)
                 /\ EnumFromValue(t, v) = IF g[Len(Head(v))] > t.max THEN Throw
                                          ELSE Take(g[Len(Head(v))], Tail(v))
    BY <2>2, EnumReads
  <2>4. PICK y : y = g[Len(Head(v))]
    OBVIOUS
  <2>5. y \in Nat
    <3>1. Len(Head(v)) \in 0 .. Len(Head(v))
      BY <2>2, HeadTail, LenProperties DEF Atom
    <3> QED BY <2>3, <2>4, <3>1 DEF ByteSums
  <2>6. ~(y > t.max) /\ o = Take(y, Tail(v))
    BY <1>1, <2>1, <2>3, <2>4, ThrowFacts
  <2>7. y \in 0 .. t.max
    BY <1>9, <2>5, <2>6 DEF IsUint
  <2> QED BY <1>1, <1>2, <1>9, <2>1, <2>2, <2>6, <2>7
<1>10. CASE IsForeign(t)
  <2>1. o = ForeignFromValue(t, v) /\ AtomicRange(t) = 0 .. t.max /\ AtomicWidth(t) = 2
    BY <1>1, <1>10 DEF AtomicRange, AtomicFromValue, IsForeign, AtomicWidth
  <2>2. ~(Len(v) < 2)
    BY <1>1, <2>1, ThrowFacts DEF ForeignFromValue
  <2>3. PICK n \in Nat : n = Len(v) /\ n >= 2
    BY <2>2, LenProperties
  <2>4. PICK low \in Nat, high \in Nat : low = Number(v[1]) /\ high = Number(v[2])
    <3>1. v[1] \in Atom /\ v[2] \in Atom
      <4>1. 1 \in 1 .. Len(v) /\ 2 \in 1 .. Len(v)
        BY <2>3
      <4> QED BY <4>1, ElementOfSeq
    <3>2. Number(v[1]) \in Nat /\ Number(v[2]) \in Nat
      BY <1>3, <3>1
    <3> QED BY <3>2
  <2>5. PICK raw \in Nat : raw = high * t.radix + low
    <3>1. PICK r \in Nat : r = t.radix
      BY <1>10, ConstantTypes DEF IsForeign
    <3>2. high * r + low \in Nat
      OBVIOUS
    <3> QED BY <3>1, <3>2
  <2>6. PICK res \in Nat : res = IF raw = t.max THEN 0 ELSE raw + 1
    BY <2>5
  <2>7. ~(res > t.max) /\ o = Take(res, SubSeq(v, 3, Len(v)))
    BY <1>1, <2>1, <2>2, <2>4, <2>5, <2>6, ThrowFacts DEF ForeignFromValue
  <2>8. res \in 0 .. t.max
    BY <1>10, <2>6, <2>7 DEF IsForeign
  <2>9. PICK r : r = SubSeq(v, 3, Len(v))
    OBVIOUS
  <2>10. r \in Seq(Atom) /\ Len(v) = 2 + Len(r)
    <3>1. PICK m \in Nat : m = 2 /\ m <= Len(v) /\ r = SubSeq(v, m + 1, Len(v))
      BY <2>3, <2>9
    <3>2. r \in Seq(Atom) /\ Dropped(v, m, r)
      BY <3>1, DropFacts
    <3>3. Len(r) = Len(v) - m
      BY <3>2 DEF Dropped
    <3>4. Len(v) = 2 + Len(r)
      BY <2>3, <3>1, <3>3
    <3> QED BY <3>2, <3>4
  <2>11. o.val = res /\ o.rest = r
    BY <2>7, <2>9 DEF Take
  <2> QED BY <1>1, <2>1, <2>8, <2>10, <2>11 DEF Takes
<1> QED BY <1>4, <1>5, <1>6, <1>7, <1>8, <1>9, <1>10 DEF IsAtomic

(* The width is that of the alignment.                                      *)
LEMMA AtomicWidths ==
  ASSUME NEW t, IsAtomic(t)
  PROVE  Len(AtomicAlignment(t)) = AtomicWidth(t)
<1>1. CASE IsForeign(t)
  <2>1. AtomicAlignment(t) = t.widths /\ AtomicWidth(t) = 2
    BY <1>1 DEF AtomicAlignment, AtomicWidth, IsForeign
  <2>2. PICK u \in Nat, v \in Nat : t.widths = <<u, v>>
    BY <1>1 DEF IsForeign
  <2>3. Len(<<u, v>>) = 2
    OBVIOUS
  <2> QED BY <2>1, <2>2, <2>3
<1>2. CASE t.tag \in {"Field", "Boolean", "Opaque", "Bytes", "Uint", "Enum"}
  <2>1. \A w : Len(<<w>>) = 1
    OBVIOUS
  <2>2. \E w : AtomicAlignment(t) = <<w>>
    BY <1>2 DEF AtomicAlignment
  <2>3. AtomicWidth(t) = 1
    BY <1>2 DEF AtomicWidth
  <2> QED BY <2>1, <2>2, <2>3
<1> QED BY <1>1, <1>2 DEF IsAtomic

------------------------------------------------------------------------------
(* Chains of decoders on one array. *)

(* Encodings one after another follow the alignments one after another.     *)
LEMMA EncodesBoth ==
  ASSUME NEW a, NEW b, NEW c, NEW d, Encodes(a, b), Encodes(c, d)
  PROVE  Encodes(a \o c, b \o d)
<1>1. a \in Seq(Atom) /\ c \in Seq(Atom) /\ b \in Seq(Int) /\ d \in Seq(Int) /\ Len(a) = Len(b)
         /\ Len(c) = Len(d)
  BY DEF Encodes
<1>2. Related(a, b, Fitting) /\ Related(c, d, Fitting)
  BY DEF Encodes
<1>3. Related(a \o c, b \o d, Fitting)
  <2>1. PICK P : P = Fitting
    OBVIOUS
  <2>2. Related(a \o c, b \o d, P)
    BY <1>1, <1>2, <2>1, RelatedJoin
  <2> QED BY <2>1, <2>2
<1>4. a \o c \in Seq(Atom) /\ b \o d \in Seq(Int) /\ Len(a \o c) = Len(b \o d)
  <2>1. a \o c \in Seq(Atom) /\ Len(a \o c) = Len(a) + Len(c)
    BY <1>1, ConcatProperties
  <2>2. b \o d \in Seq(Int) /\ Len(b \o d) = Len(b) + Len(d)
    BY <1>1, ConcatProperties
  <2> QED BY <1>1, <2>1, <2>2
<1> QED BY <1>3, <1>4 DEF Encodes

(* Encodings that follow n alignments. *)
Lists(encs, aligns, n) ==
  /\ encs \in Seq(Seq(Atom)) /\ aligns \in Seq(Seq(Int)) /\ Len(encs) = n /\ Len(aligns) = n
  /\ \A i \in 1 .. n : Encodes(encs[i], aligns[i])

(* Encodings that follow their alignments, flattened, follow the alignments,
   flattened. *)
LEMMA EncodesAll ==
  ASSUME NEW n \in Nat, NEW encs, NEW aligns, Lists(encs, aligns, n)
  PROVE  Encodes(FlattenSeq(encs), FlattenSeq(aligns))
<1>1. /\ encs \in Seq(Seq(Atom)) /\ aligns \in Seq(Seq(Int)) /\ Len(encs) = n /\ Len(aligns) = n
      /\ \A i \in 1 .. n : Encodes(encs[i], aligns[i])
  BY DEF Lists
<1>2. SameLengths(encs, aligns)
  BY <1>1 DEF SameLengths, Encodes
<1>3. PICK P : P = Fitting
  OBVIOUS
<1>4. PairwiseRelated(encs, aligns, P)
  BY <1>1, <1>3 DEF PairwiseRelated, Encodes
<1>5. Len(FlattenSeq(encs)) = Len(FlattenSeq(aligns)) /\ Related(FlattenSeq(encs), FlattenSeq(aligns), P)
  BY <1>1, <1>2, <1>4, FlattenRelated
<1>6. FlattenSeq(encs) \in Seq(Atom)
  BY <1>1, FlattenType
<1>7. FlattenSeq(aligns) \in Seq(Int)
  BY <1>1, FlattenType
<1> QED BY <1>3, <1>5, <1>6, <1>7 DEF Encodes

(* A chain of decoders reads a list of encodings, each what the ones before
   left.                                                                    *)
Passes(read, i, e, x) ==
  \A done : \A suf \in Seq(Atom) :
    read[i - 1] = Take(done, e \o suf) => read[i] = Take(Append(done, x), suf)

(* Every decoder of a chain takes its own encoding off. *)
AllPass(read, n, encs, vals) == \A i \in 1 .. n : Passes(read, i, encs[i], vals[i])

(* After i decoders the first i values are read and the encodings of the
   others are left. *)
ReadUpTo(read, i, h, value, vals) ==
  \A suf \in Seq(Atom) : value = h[i] \o suf => read[i] = Take(SubSeq(vals, 1, i), suf)

(* Joining arrays of atoms is associative. *)
LEMMA AtomsAssociate ==
  ASSUME NEW a \in Seq(Atom), NEW e \in Seq(Atom), NEW suf \in Seq(Atom)
  PROVE  (a \o e) \o suf = a \o (e \o suf)
<1>1. PICK X : X = Atom
  OBVIOUS
<1>2. a \in Seq(X) /\ e \in Seq(X) /\ suf \in Seq(X)
  BY <1>1
<1> QED BY <1>2, ConcatAssociative

(* A chain of decoders, each of which reads back its own encoding whatever
   follows. *)
Reads(n, encs, V, vals, rest, value, read) ==
  /\ n \in Nat /\ encs \in Seq(Seq(Atom)) /\ Len(encs) = n /\ vals \in Seq(V) /\ Len(vals) = n
  /\ rest \in Seq(Atom) /\ value = FlattenSeq(encs) \o rest
  /\ read[0] = Take(<<>>, value) /\ AllPass(read, n, encs, vals)

(* A chain whose decoders read back their own encodings reads back all the
   values and leaves the rest. *)
LEMMA ChainReads ==
  ASSUME NEW n, NEW encs, NEW V, NEW vals, NEW rest, NEW value, NEW read,
         Reads(n, encs, V, vals, rest, value, read)
  PROVE  read[n] = Take(vals, rest)
<1>a. /\ n \in Nat /\ encs \in Seq(Seq(Atom)) /\ Len(encs) = n /\ vals \in Seq(V) /\ Len(vals) = n
      /\ rest \in Seq(Atom) /\ value = FlattenSeq(encs) \o rest
      /\ read[0] = Take(<<>>, value) /\ AllPass(read, n, encs, vals)
  BY DEF Reads
<1> USE <1>a
<1>1. PICK h : Joined(Atom, encs, h)
  BY FlattenJoins
<1> DEFINE S == {i \in 0 .. n : ReadUpTo(read, i, h, value, vals)}
<1>2. 0 \in S
  <2>1. SubSeq(vals, 1, 0) = <<>>
    BY SubSeqEmpty
  <2>2. h[0] = <<>>
    BY <1>1 DEF Joined
  <2>3. \A suf \in Seq(Atom) : <<>> \o suf = suf
    BY ConcatEmptySeq
  <2>4. ReadUpTo(read, 0, h, value, vals)
    BY <2>1, <2>2, <2>3 DEF ReadUpTo
  <2> QED BY <2>4
<1>3. ASSUME NEW i \in 0 .. n - 1, i \in S
      PROVE  i + 1 \in S
  <2>1. PICK j \in 1 .. n : j = i + 1 /\ j - 1 = i
    OBVIOUS
  <2>2. JoinStep(Atom, encs, h, j)
    BY <1>1, JoinedStep
  <2>3. PICK a \in Seq(Atom), e \in Seq(Atom) : a = h[i] /\ e = encs[j] /\ h[j] = a \o e
    BY <2>1, <2>2 DEF JoinStep
  <2>4. ASSUME NEW suf \in Seq(Atom), value = h[j] \o suf
        PROVE  read[j] = Take(SubSeq(vals, 1, j), suf)
    <3>1. e \o suf \in Seq(Atom)
      BY ConcatProperties
    <3>2. (a \o e) \o suf = a \o (e \o suf)
      BY AtomsAssociate
    <3>3. value = h[i] \o (e \o suf)
      BY <2>3, <2>4, <3>2
    <3>4. read[i] = Take(SubSeq(vals, 1, i), e \o suf)
      BY <1>3, <3>1, <3>3 DEF ReadUpTo
    <3>5. Passes(read, j, e, vals[j])
      BY <2>3 DEF AllPass
    <3>6. read[j] = Take(Append(SubSeq(vals, 1, i), vals[j]), suf)
      BY <2>1, <3>4, <3>5 DEF Passes
    <3>7. Append(SubSeq(vals, 1, i), vals[j]) = SubSeq(vals, 1, j)
      <4>1. j \in 1 .. Len(vals) /\ 1 \in 1 .. Len(vals) /\ j \in 1 .. Len(vals)
        OBVIOUS
      <4>2. SubSeq(vals, 1, j) = SubSeq(vals, 1, j - 1) \o <<vals[j]>>
        BY <4>1, SubSeqRecursiveSecond
      <4>3. PICK p : p = SubSeq(vals, 1, i)
        OBVIOUS
      <4>4. p \in Seq(V)
        <5>1. \A k \in 1 .. i : vals[k] \in V
          BY ElementOfSeq
        <5>2. 1 \in Int /\ i \in Int
          OBVIOUS
        <5> QED BY <4>3, <5>1, <5>2, SubSeqProperties
      <4>5. vals[j] \in V
        BY <4>1, ElementOfSeq
      <4>6. Append(p, vals[j]) = p \o <<vals[j]>>
        BY <4>4, <4>5, AppendIsConcat
      <4> QED BY <2>1, <4>2, <4>3, <4>6
    <3> QED BY <3>6, <3>7
  <2>5. ReadUpTo(read, j, h, value, vals)
    BY <2>4 DEF ReadUpTo
  <2> QED BY <2>1, <2>5
<1> HIDE DEF S
<1>4. \A i \in 0 .. n : i \in S
  BY <1>2, <1>3, Upward
<1>5. ReadUpTo(read, n, h, value, vals)
  BY <1>4 DEF S
<1>6. value = h[n] \o rest
  BY <1>1 DEF Joined
<1>7. read[n] = Take(SubSeq(vals, 1, n), rest)
  BY <1>5, <1>6 DEF ReadUpTo
<1>8. SubSeq(vals, 1, n) = vals
  BY SubSeqFull
<1> QED BY <1>7, <1>8

(* What a chain returns, each decoder returned.                             *)
Returned(read, i, Vals, align) ==
  read[i].ok =>
    /\ read[i - 1].ok
    /\ (read[i - 1].rest \in Seq(Atom) =>
          \E x \in Vals, rest \in Seq(Atom) :
            /\ read[i] = Take(Append(read[i - 1].val, x), rest)
            /\ Len(read[i - 1].rest) = Len(align) + Len(rest))

(* Every decoder of a chain returns a value of its type. *)
AllReturned(read, n, V, Vals, aligns) ==
  \A i \in 1 .. n : Vals[i] \subseteq V /\ Returned(read, i, Vals[i], aligns[i])

(* A sequence whose elements are in the ranges listed. *)
ListIn(s, V, Vals) == s \in Seq(V) /\ \A k \in 1 .. Len(s) : s[k] \in Vals[k]

(* After i decoders that did not throw, i values of their types are read and
   the atoms of i alignments are gone. *)
ReturnedUpTo(read, i, h, value, V, Vals) ==
  read[i].ok => /\ ListIn(read[i].val, V, Vals) /\ Len(read[i].val) = i
                /\ read[i].rest \in Seq(Atom)
                /\ Len(value) = Len(h[i]) + Len(read[i].rest)

(* A chain of decoders, each of which returns values of its type only. *)
Returns(n, aligns, V, Vals, value, read) ==
  /\ n \in Nat /\ aligns \in Seq(Seq(Int)) /\ Len(aligns) = n /\ value \in Seq(Atom)
  /\ read[0] = Take(<<>>, value) /\ AllReturned(read, n, V, Vals, aligns) /\ read[n].ok

(* What such a chain returns. *)
ReadAll(n, aligns, V, Vals, value, o) ==
  /\ ListIn(o.val, V, Vals) /\ Len(o.val) = n /\ o.rest \in Seq(Atom)
  /\ Len(value) = Len(FlattenSeq(aligns)) + Len(o.rest)

(* A chain whose decoders return values of their types returns a list of
   such values and takes as many atoms off as the alignments have. *)
LEMMA ChainSound ==
  ASSUME NEW n, NEW aligns, NEW V, NEW Vals, NEW value, NEW read,
         Returns(n, aligns, V, Vals, value, read)
  PROVE  ReadAll(n, aligns, V, Vals, value, read[n])
<1>a. /\ n \in Nat /\ aligns \in Seq(Seq(Int)) /\ Len(aligns) = n /\ value \in Seq(Atom)
      /\ read[0] = Take(<<>>, value) /\ AllReturned(read, n, V, Vals, aligns) /\ read[n].ok
  BY DEF Returns
<1> USE <1>a
<1>1. PICK h : Joined(Int, aligns, h)
  BY FlattenJoins
<1> DEFINE S == {i \in 0 .. n : ReturnedUpTo(read, i, h, value, V, Vals)}
<1>2. 0 \in S
  <2>1. read[0].val = <<>> /\ read[0].rest = value
    BY DEF Take
  <2>2. <<>> \in Seq(V) /\ Len(<<>>) = 0
    OBVIOUS
  <2>3. h[0] = <<>>
    BY <1>1 DEF Joined
  <2>4. ListIn(<<>>, V, Vals)
    BY <2>2 DEF ListIn
  <2>5. Len(value) = 0 + Len(value)
    BY LenProperties
  <2>6. ReturnedUpTo(read, 0, h, value, V, Vals)
    BY <2>1, <2>2, <2>3, <2>4, <2>5 DEF ReturnedUpTo
  <2> QED BY <2>6
<1>3. ASSUME NEW i \in 0 .. n - 1, i \in S
      PROVE  i + 1 \in S
  <2>1. PICK j \in 1 .. n : j = i + 1 /\ j - 1 = i
    OBVIOUS
  <2>2. Len(h[j]) = Len(h[i]) + Len(aligns[j]) /\ Len(h[i]) \in Nat /\ Len(aligns[j]) \in Nat
    <3>1. JoinStep(Int, aligns, h, j)
      BY <1>1, JoinedStep
    <3>2. h[i] \in Seq(Int) /\ aligns[j] \in Seq(Int)
      BY <2>1, <3>1 DEF JoinStep
    <3> QED BY <2>1, <3>1, <3>2, LenProperties DEF JoinStep
  <2>3. ASSUME read[j].ok
        PROVE  /\ ListIn(read[j].val, V, Vals) /\ Len(read[j].val) = j
               /\ read[j].rest \in Seq(Atom)
               /\ Len(value) = Len(h[j]) + Len(read[j].rest)
    <3>1. Vals[j] \subseteq V /\ Returned(read, j, Vals[j], aligns[j])
      BY DEF AllReturned
    <3>2. read[i].ok
      BY <2>1, <2>3, <3>1 DEF Returned
    <3>3. ReturnedUpTo(read, i, h, value, V, Vals)
      BY <1>3
    <3>4. PICK s \in Seq(V) : s = read[i].val /\ Len(s) = i /\ \A k \in 1 .. i : s[k] \in Vals[k]
      BY <3>2, <3>3 DEF ReturnedUpTo, ListIn
    <3>5. read[i].rest \in Seq(Atom) /\ Len(value) = Len(h[i]) + Len(read[i].rest)
      BY <3>2, <3>3 DEF ReturnedUpTo
    <3>6. PICK x \in Vals[j], rest \in Seq(Atom) :
            read[j] = Take(Append(s, x), rest) /\ Len(read[i].rest) = Len(aligns[j]) + Len(rest)
      BY <2>1, <2>3, <3>1, <3>4, <3>5 DEF Returned
    <3>7. PICK u : u = Append(s, x)
      OBVIOUS
    <3>8. u \in Seq(V) /\ Len(u) = j /\ \A k \in 1 .. j : u[k] \in Vals[k]
      <4>1. x \in V
        BY <3>1
      <4>2. u \in Seq(V) /\ Len(u) = Len(s) + 1 /\ (\A k \in 1 .. Len(s) : u[k] = s[k]) /\ u[Len(s) + 1] = x
        BY <3>7, <4>1, AppendProperties
      <4>3. ASSUME NEW k \in 1 .. j
            PROVE  u[k] \in Vals[k]
        <5>1. CASE k = j
          BY <2>1, <3>4, <4>2, <5>1
        <5>2. CASE k # j
          BY <2>1, <3>4, <4>2, <5>2
        <5> QED BY <5>1, <5>2
      <4> QED BY <2>1, <3>4, <4>2, <4>3
    <3>9. read[j].val = u /\ read[j].rest = rest
      BY <3>6, <3>7 DEF Take
    <3>10. Len(rest) \in Nat
      BY LenProperties
    <3>11. Len(value) = Len(h[j]) + Len(rest)
      <4>1. PICK p \in Nat, q \in Nat, w \in Nat : p = Len(h[i]) /\ q = Len(aligns[j]) /\ w = Len(rest)
        BY <2>2, <3>10
      <4>2. Len(h[j]) = p + q /\ Len(read[i].rest) = q + w /\ Len(value) = p + Len(read[i].rest)
        BY <2>2, <3>5, <3>6, <4>1
      <4>3. p + (q + w) = (p + q) + w
        OBVIOUS
      <4> QED BY <4>1, <4>2, <4>3
    <3>12. ListIn(u, V, Vals)
      BY <3>8 DEF ListIn
    <3> QED BY <3>8, <3>9, <3>11, <3>12
  <2>4. ReturnedUpTo(read, j, h, value, V, Vals)
    BY <2>3 DEF ReturnedUpTo
  <2> QED BY <2>1, <2>4
<1> HIDE DEF S
<1>4. \A i \in 0 .. n : i \in S
  BY <1>2, <1>3, Upward
<1>5. ReturnedUpTo(read, n, h, value, V, Vals)
  BY <1>4 DEF S
<1>6. FlattenSeq(aligns) = h[n]
  BY <1>1 DEF Joined
<1> QED BY <1>5, <1>6 DEF ReturnedUpTo, ReadAll

------------------------------------------------------------------------------
(* The chains of the model. *)

(* The results of a chain of decoders of single values, each on what the one before
   left.                                                                    *)
AtomicAfter(done, t) ==
  IF done.ok THEN IF AtomicFromValue(t, done.rest).ok
                    THEN Take(Append(done.val, AtomicFromValue(t, done.rest).val), AtomicFromValue(t,
                             done.rest).rest)
                    ELSE Throw
  ELSE Throw

(* The table of the results of a chain of atomic decoders. *)
AtomicChain(types, value, read) ==
  /\ read[0] = Take(<<>>, value)
  /\ \A i \in 1 .. Len(types) : read[i] = AtomicAfter(read[i - 1], types[i])

(* A chain of atomic decoders returns the end of a table of results. *)
LEMMA AtomicChained ==
  ASSUME NEW types, Len(types) \in Nat, NEW value
  PROVE  \E read : AtomicChain(types, value, read) /\ Chained(AtomicFromValue, types,
           value) = read[Len(types)]
<1>1. PICK n \in Nat : n = Len(types)
  OBVIOUS
<1> DEFINE At(g, i) == IF i = 0 THEN Take(<<>>, value) ELSE AtomicAfter(g[i - 1], types[i])
           S == {k \in 0 .. n : \E g : g = [i \in 0 .. k |-> At(g, i)]}
<1>2. 0 \in S
  <2>1. PICK g : g = [i \in 0 .. 0 |-> Take(<<>>, value)]
    OBVIOUS
  <2>2. \A i \in 0 .. 0 : i = 0
    OBVIOUS
  <2>3. g = [i \in 0 .. 0 |-> At(g, i)]
    BY <2>1, <2>2
  <2> QED BY <2>3
<1>3. ASSUME NEW k \in 0 .. n - 1, k \in S
      PROVE  k + 1 \in S
  <2>1. PICK g : g = [i \in 0 .. k |-> At(g, i)]
    BY <1>3
  <2>2. PICK l \in 1 .. n : l = k + 1
    OBVIOUS
  <2>3. PICK h : h = [i \in 0 .. l |-> IF i = l THEN At(g, l) ELSE g[i]]
    OBVIOUS
  <2>4. ASSUME NEW i \in 0 .. l
        PROVE  h[i] = At(h, i)
    <3>1. CASE i = 0
      <4>1. h[i] = g[i] /\ i \in 0 .. k
        BY <2>2, <2>3, <3>1
      <4>2. g[i] = At(g, i)
        BY <2>1, <4>1
      <4> QED BY <3>1, <4>1, <4>2
    <3>2. CASE i = l
      <4>1. i - 1 \in 0 .. l /\ i - 1 # l /\ i # 0
        BY <2>2, <3>2
      <4>2. h[i - 1] = g[i - 1]
        BY <2>3, <4>1
      <4>3. h[i] = At(g, i)
        BY <2>3, <3>2
      <4> QED BY <4>1, <4>2, <4>3
    <3>3. CASE i # 0 /\ i # l
      <4>1. i - 1 \in 0 .. l /\ i - 1 # l /\ i \in 0 .. k
        BY <2>2, <3>3
      <4>2. h[i - 1] = g[i - 1] /\ h[i] = g[i]
        BY <2>3, <3>3, <4>1
      <4>3. g[i] = At(g, i)
        BY <2>1, <4>1
      <4> QED BY <3>3, <4>2, <4>3
    <3> QED BY <3>1, <3>2, <3>3
  <2> HIDE DEF At
  <2>5. h = [i \in 0 .. l |-> At(h, i)]
    BY <2>3, <2>4
  <2> QED BY <2>2, <2>5
<1> HIDE DEF S
<1>4. \A k \in 0 .. n : k \in S
  BY <1>2, <1>3, Upward
<1>5. n \in S
  BY <1>4
<1> DEFINE Table(g) == g = [i \in 0 .. Len(types) |-> At(g, i)]
           read == CHOOSE g : Table(g)
<1>6. \E g : Table(g)
  BY <1>1, <1>5 DEF S
<1>7. Table(read)
  BY <1>6
<1>8. Chained(AtomicFromValue, types, value) = read[Len(types)]
  BY DEF Chained, AtomicAfter
<1> HIDE DEF read
<1>9. AtomicChain(types, value, read)
  BY <1>1, <1>7 DEF AtomicChain
<1> QED BY <1>8, <1>9

(* The results of a chain of decoders of points and structs too, each on what the one before
   left.                                                                    *)
SimpleAfter(done, t) ==
  IF done.ok THEN IF SimpleFromValue(t, done.rest).ok
                    THEN Take(Append(done.val, SimpleFromValue(t, done.rest).val), SimpleFromValue(t,
                             done.rest).rest)
                    ELSE Throw
  ELSE Throw

(* The table of the results of a chain of decoders of simple types. *)
SimpleChain(types, value, read) ==
  /\ read[0] = Take(<<>>, value)
  /\ \A i \in 1 .. Len(types) : read[i] = SimpleAfter(read[i - 1], types[i])

(* A chain of decoders of simple types returns the end of a table of
   results. *)
LEMMA SimpleChained ==
  ASSUME NEW types, Len(types) \in Nat, NEW value
  PROVE  \E read : SimpleChain(types, value, read) /\ Chained(SimpleFromValue, types,
           value) = read[Len(types)]
<1>1. PICK n \in Nat : n = Len(types)
  OBVIOUS
<1> DEFINE At(g, i) == IF i = 0 THEN Take(<<>>, value) ELSE SimpleAfter(g[i - 1], types[i])
           S == {k \in 0 .. n : \E g : g = [i \in 0 .. k |-> At(g, i)]}
<1>2. 0 \in S
  <2>1. PICK g : g = [i \in 0 .. 0 |-> Take(<<>>, value)]
    OBVIOUS
  <2>2. \A i \in 0 .. 0 : i = 0
    OBVIOUS
  <2>3. g = [i \in 0 .. 0 |-> At(g, i)]
    BY <2>1, <2>2
  <2> QED BY <2>3
<1>3. ASSUME NEW k \in 0 .. n - 1, k \in S
      PROVE  k + 1 \in S
  <2>1. PICK g : g = [i \in 0 .. k |-> At(g, i)]
    BY <1>3
  <2>2. PICK l \in 1 .. n : l = k + 1
    OBVIOUS
  <2>3. PICK h : h = [i \in 0 .. l |-> IF i = l THEN At(g, l) ELSE g[i]]
    OBVIOUS
  <2>4. ASSUME NEW i \in 0 .. l
        PROVE  h[i] = At(h, i)
    <3>1. CASE i = 0
      <4>1. h[i] = g[i] /\ i \in 0 .. k
        BY <2>2, <2>3, <3>1
      <4>2. g[i] = At(g, i)
        BY <2>1, <4>1
      <4> QED BY <3>1, <4>1, <4>2
    <3>2. CASE i = l
      <4>1. i - 1 \in 0 .. l /\ i - 1 # l /\ i # 0
        BY <2>2, <3>2
      <4>2. h[i - 1] = g[i - 1]
        BY <2>3, <4>1
      <4>3. h[i] = At(g, i)
        BY <2>3, <3>2
      <4> QED BY <4>1, <4>2, <4>3
    <3>3. CASE i # 0 /\ i # l
      <4>1. i - 1 \in 0 .. l /\ i - 1 # l /\ i \in 0 .. k
        BY <2>2, <3>3
      <4>2. h[i - 1] = g[i - 1] /\ h[i] = g[i]
        BY <2>3, <3>3, <4>1
      <4>3. g[i] = At(g, i)
        BY <2>1, <4>1
      <4> QED BY <3>3, <4>2, <4>3
    <3> QED BY <3>1, <3>2, <3>3
  <2> HIDE DEF At
  <2>5. h = [i \in 0 .. l |-> At(h, i)]
    BY <2>3, <2>4
  <2> QED BY <2>2, <2>5
<1> HIDE DEF S
<1>4. \A k \in 0 .. n : k \in S
  BY <1>2, <1>3, Upward
<1>5. n \in S
  BY <1>4
<1> DEFINE Table(g) == g = [i \in 0 .. Len(types) |-> At(g, i)]
           read == CHOOSE g : Table(g)
<1>6. \E g : Table(g)
  BY <1>1, <1>5 DEF S
<1>7. Table(read)
  BY <1>6
<1>8. Chained(SimpleFromValue, types, value) = read[Len(types)]
  BY DEF Chained, SimpleAfter
<1> HIDE DEF read
<1>9. SimpleChain(types, value, read)
  BY <1>1, <1>7 DEF SimpleChain
<1> QED BY <1>8, <1>9

------------------------------------------------------------------------------
(* Types with parts. *)

(* The descriptors of the parts of a point or a struct, and their values.   *)
IsParts(p) == Len(p) \in Nat /\ DOMAIN p = 1 .. Len(p) /\ \A i \in 1 .. Len(p) : IsAtomic(p[i])

(* Values for the parts of a type. *)
Fills(vals, p) ==
  /\ DOMAIN vals = 1 .. Len(p) /\ vals = [i \in 1 .. Len(p) |-> vals[i]]
  /\ \A i \in 1 .. Len(p) : vals[i] \in AtomicRange(p[i])

(* The encoding and the alignment of the parts. *)
PartsToValue(p, vals) == FlattenSeq([i \in 1 .. Len(p) |-> AtomicToValue(p[i], vals[i])])
PartsAlignment(p) == FlattenSeq([i \in 1 .. Len(p) |-> AtomicAlignment(p[i])])

(* An atomic alignment is a sequence of widths. *)
LEMMA AlignmentType ==
  ASSUME NEW t, IsAtomic(t)
  PROVE  AtomicAlignment(t) \in Seq(Int)
<1>1. CASE IsForeign(t)
  <2>1. AtomicAlignment(t) = t.widths
    BY <1>1 DEF AtomicAlignment, IsForeign
  <2>2. PICK u \in Nat, v \in Nat : t.widths = <<u, v>>
    BY <1>1 DEF IsForeign
  <2>3. <<u, v>> \in Seq(Int)
    OBVIOUS
  <2> QED BY <2>1, <2>2, <2>3
<1>2. CASE t.tag \in {"Field", "Boolean", "Opaque"}
  <2>1. \E w \in Int : AtomicAlignment(t) = <<w>>
    BY <1>2 DEF AtomicAlignment, FieldWidth, CompressWidth
  <2>2. \A w \in Int : <<w>> \in Seq(Int)
    OBVIOUS
  <2> QED BY <2>1, <2>2
<1>3. CASE t.tag \in {"Bytes", "Uint", "Enum"} /\ t.length \in Nat
  <2>1. PICK w \in Int : AtomicAlignment(t) = <<w>>
    BY <1>3 DEF AtomicAlignment
  <2>2. <<w>> \in Seq(Int)
    OBVIOUS
  <2> QED BY <2>1, <2>2
<1> QED BY <1>1, <1>2, <1>3 DEF IsAtomic, IsUint

(* Intervals from one that are equal end at the same number. *)
LEMMA SameTop ==
  ASSUME NEW m \in Nat, NEW n \in Nat, 1 .. m = 1 .. n
  PROVE  m = n
<1>1. CASE m < n
  <2>1. n \in 1 .. n /\ n \notin 1 .. m
    BY <1>1
  <2> QED BY <2>1
<1>2. CASE n < m
  <2>1. m \in 1 .. m /\ m \notin 1 .. n
    BY <1>2
  <2> QED BY <2>1
<1> QED BY <1>1, <1>2

(* The alignments of the parts.                                             *)
LEMMA PartsAligned ==
  ASSUME NEW p, IsParts(p), NEW as, as = [i \in 1 .. Len(p) |-> AtomicAlignment(p[i])]
  PROVE  as \in Seq(Seq(Int)) /\ Len(as) = Len(p) /\ \A i \in 1 .. Len(p) : as[i] = AtomicAlignment(p[i])
<1>1. PICK n \in Nat : n = Len(p)
  BY DEF IsParts
<1>2. ASSUME NEW i \in 1 .. n
      PROVE  AtomicAlignment(p[i]) \in Seq(Int)
  <2>1. IsAtomic(p[i])
    BY <1>1 DEF IsParts
  <2> QED BY <2>1, AlignmentType
<1>3. as \in [1 .. n -> Seq(Int)]
  BY <1>1, <1>2
<1>4. as \in Seq(Seq(Int))
  BY <1>3, SeqDef
<1>5. DOMAIN as = 1 .. Len(as) /\ Len(as) \in Nat /\ DOMAIN as = 1 .. n
  BY <1>3, <1>4, LenProperties
<1>6. Len(as) = n
  BY <1>5
<1> QED BY <1>1, <1>4, <1>6

(* The encodings of the parts follow their alignments.                      *)
LEMMA PartsListed ==
  ASSUME NEW p, IsParts(p), NEW vals, Fills(vals, p),
         NEW es, es = [i \in 1 .. Len(p) |-> AtomicToValue(p[i], vals[i])],
         NEW as, as = [i \in 1 .. Len(p) |-> AtomicAlignment(p[i])]
  PROVE  Lists(es, as, Len(p))
<1>1. PICK n \in Nat : n = Len(p)
  BY DEF IsParts
<1>2. as \in Seq(Seq(Int)) /\ Len(as) = n /\ \A i \in 1 .. n : as[i] = AtomicAlignment(p[i])
  BY <1>1, PartsAligned
<1>3. ASSUME NEW i \in 1 .. n
      PROVE  Encodes(es[i], as[i]) /\ es[i] \in Seq(Atom)
  <2>1. IsAtomic(p[i]) /\ vals[i] \in AtomicRange(p[i])
    BY <1>1 DEF IsParts, Fills
  <2>2. Encodes(AtomicToValue(p[i], vals[i]), AtomicAlignment(p[i]))
    BY <2>1, AtomicEncodes
  <2> QED BY <1>1, <1>2, <2>2 DEF Encodes
<1>4. es \in [1 .. n -> Seq(Atom)]
  BY <1>1, <1>3
<1>5. es \in Seq(Seq(Atom))
  BY <1>4, SeqDef
<1>6. DOMAIN es = 1 .. Len(es) /\ Len(es) \in Nat /\ DOMAIN es = 1 .. n
  BY <1>4, <1>5, LenProperties
<1>7. Len(es) = n
  BY <1>6
<1> QED BY <1>1, <1>2, <1>3, <1>5, <1>7 DEF Lists

(* The encoding of the parts follows their alignment. *)
LEMMA PartsEncode ==
  ASSUME NEW p, IsParts(p), NEW vals, Fills(vals, p)
  PROVE  Encodes(PartsToValue(p, vals), PartsAlignment(p))
<1>1. PICK es, as : /\ es = [i \in 1 .. Len(p) |-> AtomicToValue(p[i], vals[i])]
                    /\ as = [i \in 1 .. Len(p) |-> AtomicAlignment(p[i])]
  OBVIOUS
<1>2. Lists(es, as, Len(p))
  BY <1>1, PartsListed
<1>3. PICK n \in Nat : n = Len(p)
  BY DEF IsParts
<1>4. Lists(es, as, n)
  BY <1>2, <1>3
<1>5. Encodes(FlattenSeq(es), FlattenSeq(as))
  BY <1>4, EncodesAll
<1> QED BY <1>1, <1>5 DEF PartsToValue, PartsAlignment

(* The values of the parts are read back.                                   *)
LEMMA PartsRead ==
  ASSUME NEW p, IsParts(p), NEW vals, Fills(vals, p), NEW rest \in Seq(Atom)
  PROVE  Chained(AtomicFromValue, p, PartsToValue(p, vals) \o rest) = Take(vals, rest)
<1>1. PICK es, as : /\ es = [i \in 1 .. Len(p) |-> AtomicToValue(p[i], vals[i])]
                    /\ as = [i \in 1 .. Len(p) |-> AtomicAlignment(p[i])]
  OBVIOUS
<1>2. PICK n \in Nat : n = Len(p)
  BY DEF IsParts
<1>3. Lists(es, as, n)
  BY <1>1, <1>2, PartsListed
<1>4. es \in Seq(Seq(Atom)) /\ Len(es) = n
  BY <1>3 DEF Lists
<1>5. PICK value : value = FlattenSeq(es) \o rest
  OBVIOUS
<1>6. PICK read : AtomicChain(p, value, read) /\ Chained(AtomicFromValue, p, value) = read[n]
  BY <1>2, AtomicChained
<1>7. PICK V : V = {vals[i] : i \in 1 .. n}
  OBVIOUS
<1>8. vals \in Seq(V) /\ Len(vals) = n
  <2>1. vals \in [1 .. n -> V]
    BY <1>2, <1>7 DEF Fills
  <2>2. vals \in Seq(V)
    BY <2>1, SeqDef
  <2>3. DOMAIN vals = 1 .. Len(vals) /\ Len(vals) \in Nat /\ DOMAIN vals = 1 .. n
    BY <2>1, <2>2, LenProperties
  <2>4. Len(vals) = n
    <3>1. PICK m \in Nat : m = Len(vals) /\ 1 .. m = 1 .. n
      BY <2>3
    <3> QED BY <3>1, SameTop
  <2> QED BY <2>2, <2>4
<1>9. ASSUME NEW i \in 1 .. n
      PROVE  Passes(read, i, es[i], vals[i])
  <2>1. IsAtomic(p[i]) /\ vals[i] \in AtomicRange(p[i])
    BY <1>2 DEF IsParts, Fills
  <2>2. read[i] = AtomicAfter(read[i - 1], p[i])
    BY <1>2, <1>6 DEF AtomicChain
  <2>3. es[i] = AtomicToValue(p[i], vals[i])
    BY <1>1, <1>2
  <2>4. ASSUME NEW done, NEW suf \in Seq(Atom), read[i - 1] = Take(done, es[i] \o suf)
        PROVE  read[i] = Take(Append(done, vals[i]), suf)
    <3>1. AtomicFromValue(p[i], es[i] \o suf) = Take(vals[i], suf)
      BY <2>1, <2>3, AtomicReads
    <3>2. read[i - 1].ok /\ read[i - 1].val = done /\ read[i - 1].rest = es[i] \o suf
      BY <2>4 DEF Take
    <3>3. PICK o : o = AtomicFromValue(p[i], es[i] \o suf) /\ o.ok /\ o.val = vals[i] /\ o.rest = suf
      BY <3>1, TakeFacts
    <3> QED BY <2>2, <3>2, <3>3 DEF AtomicAfter
  <2> QED BY <2>4 DEF Passes
<1>10. read[0] = Take(<<>>, value)
  BY <1>6 DEF AtomicChain
<1>11. AllPass(read, n, es, vals)
  BY <1>9 DEF AllPass
<1>12. read[n] = Take(vals, rest)
  <2>1. Reads(n, es, V, vals, rest, value, read)
    BY <1>4, <1>5, <1>8, <1>10, <1>11 DEF Reads
  <2> QED BY <2>1, ChainReads
<1> QED BY <1>1, <1>5, <1>6, <1>12 DEF PartsToValue

(* What the decoders of the parts return fills them, and they take the atoms
   of the alignment.                                                        *)
LEMMA PartsSound ==
  ASSUME NEW p, IsParts(p), NEW v \in Seq(Atom), NEW o, o = Chained(AtomicFromValue, p, v), o.ok
  PROVE  /\ Fills(o.val, p) /\ o.rest \in Seq(Atom)
         /\ Len(v) = Len(PartsAlignment(p)) + Len(o.rest)
<1>1. PICK as : as = [i \in 1 .. Len(p) |-> AtomicAlignment(p[i])]
  OBVIOUS
<1>2. PICK n \in Nat : n = Len(p)
  BY DEF IsParts
<1>3. as \in Seq(Seq(Int)) /\ Len(as) = n /\ \A i \in 1 .. n : as[i] = AtomicAlignment(p[i])
  BY <1>1, <1>2, PartsAligned
<1>4. PICK read : AtomicChain(p, v, read) /\ o = read[n]
  BY <1>2, AtomicChained
<1>5. PICK V : V = UNION {AtomicRange(p[i]) : i \in 1 .. n}
  OBVIOUS
<1>6. PICK Vals : Vals = [i \in 1 .. n |-> AtomicRange(p[i])]
  OBVIOUS
<1>7. \A i \in 1 .. n : Vals[i] \subseteq V
  BY <1>5, <1>6
<1>8. ASSUME NEW i \in 1 .. n
      PROVE  Returned(read, i, Vals[i], as[i])
  <2>1. read[i] = AtomicAfter(read[i - 1], p[i])
    BY <1>2, <1>4 DEF AtomicChain
  <2>2. ASSUME read[i].ok
        PROVE  /\ read[i - 1].ok
               /\ read[i - 1].rest \in Seq(Atom) =>
                    \E x \in Vals[i], rest \in Seq(Atom) :
                      /\ read[i] = Take(Append(read[i - 1].val, x), rest)
                      /\ Len(read[i - 1].rest) = Len(as[i]) + Len(rest)
    <3>1. read[i - 1].ok
      BY <2>1, <2>2, ThrowFacts DEF AtomicAfter
    <3>2. PICK u : u = AtomicFromValue(p[i], read[i - 1].rest)
      OBVIOUS
    <3>3. u.ok /\ read[i] = Take(Append(read[i - 1].val, u.val), u.rest)
      BY <2>1, <2>2, <3>1, <3>2, ThrowFacts DEF AtomicAfter
    <3>4. ASSUME read[i - 1].rest \in Seq(Atom)
          PROVE  u.val \in Vals[i] /\ u.rest \in Seq(Atom) /\ Len(read[i - 1].rest) = Len(as[i]) + Len(u.rest)
      <4>1. IsAtomic(p[i])
        BY <1>2 DEF IsParts
      <4>2. PICK w \in Seq(Atom) : w = read[i - 1].rest
        BY <3>4
      <4>3. Takes(u, AtomicWidth(p[i]), w, AtomicRange(p[i]))
        BY <3>2, <3>3, <4>1, <4>2, AtomicSound
      <4>4. Len(as[i]) = AtomicWidth(p[i])
        BY <1>3, <4>1, AtomicWidths
      <4> QED BY <1>6, <4>2, <4>3, <4>4 DEF Takes
    <3> QED BY <3>1, <3>3, <3>4
  <2> QED BY <2>2 DEF Returned
<1>9. read[0] = Take(<<>>, v)
  BY <1>4 DEF AtomicChain
<1>10. read[n].ok
  BY <1>4
<1>13. AllReturned(read, n, V, Vals, as)
  BY <1>7, <1>8 DEF AllReturned
<1>11. /\ ListIn(read[n].val, V, Vals) /\ Len(read[n].val) = n
       /\ read[n].rest \in Seq(Atom)
       /\ Len(v) = Len(FlattenSeq(as)) + Len(read[n].rest)
  <2>1. Returns(n, as, V, Vals, v, read)
    BY <1>3, <1>9, <1>10, <1>13 DEF Returns
  <2>2. ReadAll(n, as, V, Vals, v, read[n])
    BY <2>1, ChainSound
  <2> QED BY <2>2 DEF ReadAll
<1>12. Fills(o.val, p)
  <2>1. PICK s \in Seq(V) : s = o.val /\ Len(s) = n /\ \A i \in 1 .. n : s[i] \in Vals[i]
    BY <1>4, <1>11 DEF ListIn
  <2>2. DOMAIN s = 1 .. n /\ s = [i \in 1 .. n |-> s[i]]
    <3>1. s \in [1 .. Len(s) -> V]
      BY LenProperties
    <3> QED BY <2>1, <3>1
  <2> QED BY <1>2, <1>6, <2>1, <2>2 DEF Fills
<1> QED BY <1>1, <1>4, <1>11, <1>12 DEF PartsAlignment

------------------------------------------------------------------------------
(* Simple types. *)

(* The types with parts, and the values of those and of the single ones.    *)
PartTags == {"Point", "FlaggedPoint", "Struct"}

(* The types of the points with a flag. *)
IsFlagged(t) == t.tag = "FlaggedPoint" /\ \E b : IsForeign(b) /\ t.parts = <<b, b, CompactTypeField>>

(* The types that are not vectors or paths, and their values. *)
IsSimple(t) ==
  \/ IsAtomic(t)
  \/ t.tag = "Point" /\ IsParts(t.parts) /\ Len(t.parts) = 2
  \/ IsFlagged(t)
  \/ t.tag = "Struct" /\ IsParts(t.parts)

(* The values of the parts. *)
PartValues(p) == UNION {AtomicRange(p[i]) : i \in 1 .. Len(p)}

(* The values of a simple type. *)
SimpleRange(t) ==
  CASE t.tag = "Point" -> {[x |-> a, y |-> b] : a \in AtomicRange(t.parts[1]), b \in AtomicRange(t.parts[2])}
    [] t.tag = "FlaggedPoint" -> [x : AtomicRange(t.parts[1]), y : AtomicRange(t.parts[2]),
             identity : BOOLEAN]
    [] t.tag = "Struct" -> {s \in [1 .. Len(t.parts) -> PartValues(t.parts)] : Fills(s, t.parts)}
    [] OTHER -> AtomicRange(t)

(* The value an encoding stands for: an identity loses its coordinates.     *)
Identity == [x |-> 0, y |-> 0, identity |-> TRUE]
(* What a value reads back as: of an identity, the one with zeros. *)
Norm(t, x) == IF t.tag = "FlaggedPoint" /\ x.identity THEN Identity ELSE x

(* A point of a secp curve has parts, and takes five atoms.                 *)
LEMMA FlaggedParts ==
  ASSUME NEW t, IsFlagged(t)
  PROVE  \E b : /\ IsForeign(b) /\ IsAtomic(b) /\ IsAtomic(CompactTypeField)
                /\ t.parts[1] = b /\ t.parts[2] = b /\ t.parts[3] = CompactTypeField
                /\ Len(t.parts) = 3 /\ IsParts(t.parts) /\ t.parts = <<b, b, CompactTypeField>>
<1>1. PICK b : IsForeign(b) /\ t.parts = <<b, b, CompactTypeField>>
  BY DEF IsFlagged
<1>2. IsAtomic(b) /\ IsAtomic(CompactTypeField)
  BY <1>1 DEF IsAtomic, CompactTypeField
<1>3. PICK f : f = CompactTypeField
  OBVIOUS
<1>4. PICK p : p = <<b, b, f>>
  OBVIOUS
<1>5. p[1] = b /\ p[2] = b /\ p[3] = f /\ Len(p) = 3 /\ DOMAIN p = 1 .. 3
  BY <1>4
<1>6. ASSUME NEW i \in 1 .. 3
      PROVE  IsAtomic(p[i])
  <2>1. i = 1 \/ i = 2 \/ i = 3
    OBVIOUS
  <2> QED BY <1>2, <1>3, <1>5, <2>1
<1>7. IsParts(p)
  BY <1>5, <1>6 DEF IsParts
<1> QED BY <1>1, <1>2, <1>3, <1>4, <1>5, <1>7

(* A point with a flag takes five atoms, as its decoder checks. *)
LEMMA FlaggedWidth ==
  ASSUME NEW t, IsFlagged(t)
  PROVE  Len(PartsAlignment(t.parts)) = 5
<1>1. PICK b : /\ IsForeign(b) /\ IsAtomic(b) /\ IsAtomic(CompactTypeField)
               /\ t.parts[1] = b /\ t.parts[2] = b /\ t.parts[3] = CompactTypeField
               /\ Len(t.parts) = 3 /\ IsParts(t.parts)
  BY FlaggedParts
<1>2. PICK p, f : p = t.parts /\ f = CompactTypeField
  OBVIOUS
<1>3. PICK as : as = [i \in 1 .. Len(p) |-> AtomicAlignment(p[i])]
  OBVIOUS
<1>4. as \in Seq(Seq(Int)) /\ Len(as) = 3
  BY <1>1, <1>2, <1>3, PartsAligned
<1>5. Len(as[1]) = 2 /\ Len(as[2]) = 2 /\ Len(as[3]) = 1
  <2>1. as[1] = AtomicAlignment(b) /\ as[2] = AtomicAlignment(b) /\ as[3] = AtomicAlignment(f)
    BY <1>1, <1>2, <1>3
  <2>2. Len(AtomicAlignment(b)) = AtomicWidth(b) /\ Len(AtomicAlignment(f)) = AtomicWidth(f)
    BY <1>1, <1>2, AtomicWidths
  <2>3. AtomicWidth(b) = 2 /\ AtomicWidth(f) = 1
    BY <1>1, <1>2 DEF AtomicWidth, IsForeign, CompactTypeField
  <2> QED BY <2>1, <2>2, <2>3
<1>6. PICK h : Joined(Int, as, h)
  BY <1>4, FlattenJoins
<1>7. ASSUME NEW i \in 1 .. 3
      PROVE  Len(h[i]) = Len(h[i - 1]) + Len(as[i])
  <2>1. JoinStep(Int, as, h, i)
    BY <1>4, <1>6, JoinedStep
  <2>2. PICK c \in Seq(Int), d \in Seq(Int) : c = h[i - 1] /\ d = as[i] /\ h[i] = c \o d
    BY <2>1 DEF JoinStep
  <2>3. Len(c \o d) = Len(c) + Len(d)
    BY ConcatProperties
  <2> QED BY <2>2, <2>3
<1>8. Len(h[0]) = 0
  BY <1>6 DEF Joined
<1>9. Len(h[1]) = 2
  <2>1. Len(h[1]) = Len(h[0]) + Len(as[1])
    <3>1. PICK i \in 1 .. 3 : i = 1 /\ i - 1 = 0
      OBVIOUS
    <3>2. Len(h[i]) = Len(h[i - 1]) + Len(as[i])
      BY <1>7
    <3> QED BY <3>1, <3>2
  <2> QED BY <1>5, <1>8, <2>1
<1>10. Len(h[2]) = 4
  <2>1. Len(h[2]) = Len(h[1]) + Len(as[2])
    <3>1. PICK i \in 1 .. 3 : i = 2 /\ i - 1 = 1
      OBVIOUS
    <3>2. Len(h[i]) = Len(h[i - 1]) + Len(as[i])
      BY <1>7
    <3> QED BY <3>1, <3>2
  <2> QED BY <1>5, <1>9, <2>1
<1>11. Len(h[3]) = 5
  <2>1. Len(h[3]) = Len(h[2]) + Len(as[3])
    <3>1. PICK i \in 1 .. 3 : i = 3 /\ i - 1 = 2
      OBVIOUS
    <3>2. Len(h[i]) = Len(h[i - 1]) + Len(as[i])
      BY <1>7
    <3> QED BY <3>1, <3>2
  <2> QED BY <1>5, <1>10, <2>1
<1>12. FlattenSeq(as) = h[3]
  BY <1>4, <1>6 DEF Joined
<1> QED BY <1>2, <1>3, <1>11, <1>12 DEF PartsAlignment

(* The parts of a value fill the parts of its type.                         *)
LEMMA PartsFill ==
  ASSUME NEW t, IsSimple(t), t.tag \in PartTags, NEW x \in SimpleRange(t)
  PROVE  IsParts(t.parts) /\ Fills(PartsOf(t, x), t.parts)
<1>0. ~IsAtomic(t)
  BY DEF IsAtomic, IsForeign, PartTags
<1>1. CASE t.tag = "Point" /\ IsParts(t.parts) /\ Len(t.parts) = 2
  <2>1. PICK a \in AtomicRange(t.parts[1]), b \in AtomicRange(t.parts[2]) : x = [x |-> a, y |-> b]
    BY <1>1 DEF SimpleRange
  <2>2. PICK s : s = <<a, b>>
    OBVIOUS
  <2>3. PartsOf(t, x) = s
    BY <1>1, <2>1, <2>2 DEF PartsOf
  <2>4. DOMAIN s = 1 .. 2 /\ s[1] = a /\ s[2] = b /\ s = [i \in 1 .. 2 |-> s[i]]
    BY <2>2
  <2>5. \A i \in 1 .. 2 : i = 1 \/ i = 2
    OBVIOUS
  <2>6. Fills(s, t.parts)
    BY <1>1, <2>4, <2>5 DEF Fills
  <2> QED BY <1>1, <2>3, <2>6
<1>2. CASE IsFlagged(t)
  <2>1. PICK b : /\ IsForeign(b) /\ IsAtomic(b) /\ IsAtomic(CompactTypeField)
                 /\ t.parts[1] = b /\ t.parts[2] = b /\ t.parts[3] = CompactTypeField
                 /\ Len(t.parts) = 3 /\ IsParts(t.parts)
    BY <1>2, FlaggedParts
  <2>2. x \in [x : AtomicRange(b), y : AtomicRange(b), identity : BOOLEAN]
    BY <1>2, <2>1 DEF SimpleRange, IsFlagged
  <2>3. PartsOf(t, x) = FlaggedPointParts(x)
    BY <1>2 DEF PartsOf, IsFlagged
  <2>4. AtomicRange(b) = 0 .. b.max /\ b.max \in Nat
    BY <2>1 DEF AtomicRange, IsForeign
  <2>5. AtomicRange(CompactTypeField) = 0 .. MAX_FIELD /\ MAX_FIELD \in Nat /\ MAX_FIELD > 3
    BY ConstantTypes DEF AtomicRange, CompactTypeField
  <2>6. PICK u \in AtomicRange(b), v \in AtomicRange(b), w \in AtomicRange(CompactTypeField) :
          FlaggedPointParts(x) = <<u, v, w>>
    <3>1. CASE x.identity
      <4>1. FlaggedPointParts(x) = <<0, 0, 1>>
        BY <3>1 DEF FlaggedPointParts
      <4>2. 0 \in AtomicRange(b) /\ 1 \in AtomicRange(CompactTypeField)
        BY <2>4, <2>5
      <4> QED BY <4>1, <4>2
    <3>2. CASE ~x.identity
      <4>1. FlaggedPointParts(x) = <<x.x, x.y, 0>>
        BY <3>2 DEF FlaggedPointParts
      <4>2. x.x \in AtomicRange(b) /\ x.y \in AtomicRange(b) /\ 0 \in AtomicRange(CompactTypeField)
        BY <2>2, <2>5
      <4> QED BY <4>1, <4>2
    <3> QED BY <3>1, <3>2
  <2>7. PICK s : s = <<u, v, w>>
    OBVIOUS
  <2>8. DOMAIN s = 1 .. 3 /\ s[1] = u /\ s[2] = v /\ s[3] = w /\ s = [i \in 1 .. 3 |-> s[i]]
    BY <2>7
  <2>9. \A i \in 1 .. 3 : i = 1 \/ i = 2 \/ i = 3
    OBVIOUS
  <2>10. Fills(s, t.parts)
    BY <2>1, <2>8, <2>9 DEF Fills
  <2> QED BY <2>1, <2>3, <2>6, <2>7, <2>10
<1>3. CASE t.tag = "Struct" /\ IsParts(t.parts)
  BY <1>3 DEF SimpleRange, PartsOf
<1> QED BY <1>0, <1>1, <1>2, <1>3 DEF IsSimple

(* A type without parts is a single one.                                    *)
LEMMA Unparted ==
  ASSUME NEW t, IsSimple(t), t.tag \notin PartTags
  PROVE  /\ IsAtomic(t) /\ SimpleRange(t) = AtomicRange(t) /\ SimpleAlignment(t) = AtomicAlignment(t)
         /\ \A x : SimpleToValue(t, x) = AtomicToValue(t, x) /\ Norm(t, x) = x
         /\ \A v : SimpleFromValue(t, v) = AtomicFromValue(t, v)
<1>1. IsAtomic(t)
  BY DEF IsSimple, PartTags, IsFlagged
<1>2. t.tag # "Point" /\ t.tag # "FlaggedPoint" /\ t.tag # "Struct"
  BY DEF PartTags
<1>3. SimpleRange(t) = AtomicRange(t)
  BY <1>2 DEF SimpleRange
<1>4. SimpleAlignment(t) = AtomicAlignment(t)
  BY <1>2 DEF SimpleAlignment
<1>5. \A x : SimpleToValue(t, x) = AtomicToValue(t, x) /\ Norm(t, x) = x
  BY <1>2 DEF SimpleToValue, Norm
<1>6. \A v : SimpleFromValue(t, v) = AtomicFromValue(t, v)
  BY <1>2 DEF SimpleFromValue
<1> QED BY <1>1, <1>3, <1>4, <1>5, <1>6

(* The encoding of a value of a simple type follows the alignment. *)
LEMMA SimpleEncodes ==
  ASSUME NEW t, IsSimple(t), NEW x \in SimpleRange(t)
  PROVE  Encodes(SimpleToValue(t, x), SimpleAlignment(t))
<1>1. CASE t.tag \in PartTags
  <2>1. IsParts(t.parts) /\ Fills(PartsOf(t, x), t.parts)
    BY <1>1, PartsFill
  <2>2. PICK p, s : p = t.parts /\ s = PartsOf(t, x)
    OBVIOUS
  <2>3. SimpleToValue(t, x) = PartsToValue(p, s) /\ SimpleAlignment(t) = PartsAlignment(p)
    BY <1>1, <2>2 DEF SimpleToValue, SimpleAlignment, PartsToValue, PartsAlignment, PartTags
  <2>4. Encodes(PartsToValue(p, s), PartsAlignment(p))
    BY <2>1, <2>2, PartsEncode
  <2> QED BY <2>3, <2>4
<1>2. CASE t.tag \notin PartTags
  <2>1. /\ IsAtomic(t) /\ SimpleRange(t) = AtomicRange(t) /\ SimpleAlignment(t) = AtomicAlignment(t)
        /\ SimpleToValue(t, x) = AtomicToValue(t, x)
    BY <1>2, Unparted
  <2> QED BY <2>1, AtomicEncodes
<1> QED BY <1>1, <1>2

(* The decoder of a simple type reads back what was encoded and leaves what
   follows. *)
LEMMA SimpleReads ==
  ASSUME NEW t, IsSimple(t), NEW x \in SimpleRange(t), NEW rest \in Seq(Atom)
  PROVE  SimpleFromValue(t, SimpleToValue(t, x) \o rest) = Take(Norm(t, x), rest)
<1>1. CASE t.tag \in PartTags
  <2>1. IsParts(t.parts) /\ Fills(PartsOf(t, x), t.parts)
    BY <1>1, PartsFill
  <2>2. PICK p, s : p = t.parts /\ s = PartsOf(t, x)
    OBVIOUS
  <2>3. SimpleToValue(t, x) = PartsToValue(p, s)
    BY <1>1, <2>2 DEF SimpleToValue, PartsToValue, PartTags
  <2>4. PICK v : v = PartsToValue(p, s) \o rest
    OBVIOUS
  <2>5. PICK o : o = Chained(AtomicFromValue, p, v) /\ o = Take(s, rest)
    BY <2>1, <2>2, <2>4, PartsRead
  <2>6. o.ok /\ o.val = s /\ o.rest = rest
    BY <2>5 DEF Take
  <2>7. CASE t.tag = "Struct"
    <3>1. SimpleFromValue(t, v) = o
      BY <2>2, <2>5, <2>7 DEF SimpleFromValue
    <3>2. s = x /\ Norm(t, x) = x
      BY <2>2, <2>7 DEF PartsOf, Norm
    <3> QED BY <2>3, <2>4, <2>5, <3>1, <3>2
  <2>8. CASE t.tag = "Point"
    <3>1. SimpleFromValue(t, v) = Take([x |-> s[1], y |-> s[2]], rest)
      BY <2>2, <2>5, <2>6, <2>8 DEF SimpleFromValue, PointFromValue
    <3>2. PICK a, b : x = [x |-> a, y |-> b]
      BY <2>8 DEF SimpleRange
    <3>3. s = <<a, b>>
      BY <2>2, <2>8, <3>2 DEF PartsOf
    <3>4. s[1] = a /\ s[2] = b
      BY <3>3
    <3>5. Norm(t, x) = x
      BY <2>8 DEF Norm
    <3> QED BY <2>3, <2>4, <3>1, <3>2, <3>4, <3>5
  <2>9. CASE t.tag = "FlaggedPoint"
    <3>1. IsFlagged(t)
      BY <2>9 DEF IsSimple, IsAtomic, IsForeign
    <3>2. v \in Seq(Atom) /\ ~(Len(v) < 5)
      <4>1. Encodes(PartsToValue(p, s), PartsAlignment(p))
        BY <2>1, <2>2, PartsEncode
      <4>2. PICK e \in Seq(Atom) : e = PartsToValue(p, s) /\ Len(e) = Len(PartsAlignment(p))
        BY <4>1 DEF Encodes
      <4>3. Len(PartsAlignment(p)) = 5
        BY <2>2, <3>1, FlaggedWidth
      <4>4. v \in Seq(Atom) /\ Len(v) = Len(e) + Len(rest)
        BY <2>4, <4>2, ConcatProperties
      <4>5. PICK n \in Nat : n = Len(rest)
        BY LenProperties
      <4>6. Len(v) = 5 + n
        BY <4>2, <4>3, <4>4, <4>5
      <4>7. ~(5 + n < 5)
        OBVIOUS
      <4> QED BY <4>4, <4>6, <4>7
    <3>3. s = FlaggedPointParts(x)
      BY <2>2, <2>9 DEF PartsOf
    <3>4. SimpleFromValue(t, v) = FlaggedPointFromValue(t, v)
      BY <2>9 DEF SimpleFromValue
    <3>5. x = [x |-> x.x, y |-> x.y, identity |-> x.identity] /\ x.identity \in BOOLEAN
      BY <2>9 DEF SimpleRange
    <3>6. CASE x.identity
      <4>1. s = <<0, 0, 1>>
        BY <3>3, <3>6 DEF FlaggedPointParts
      <4>2. s[1] = 0 /\ s[2] = 0 /\ s[3] = 1
        BY <4>1
      <4>3. FlaggedPointFromValue(t, v) = Take([x |-> 0, y |-> 0, identity |-> TRUE], rest)
        BY <2>2, <2>5, <2>6, <3>2, <4>2 DEF FlaggedPointFromValue
      <4> QED BY <2>3, <2>4, <2>9, <3>4, <3>6, <4>3 DEF Norm, Identity
    <3>7. CASE ~x.identity
      <4>1. s = <<x.x, x.y, 0>>
        BY <3>3, <3>7 DEF FlaggedPointParts
      <4>2. s[1] = x.x /\ s[2] = x.y /\ s[3] = 0
        BY <4>1
      <4>3. FlaggedPointFromValue(t, v) = Take([x |-> x.x, y |-> x.y, identity |-> FALSE], rest)
        <5>1. o.val[1] = x.x /\ o.val[2] = x.y /\ o.val[3] = 0
          BY <2>6, <4>2
        <5>2. (o.val[3] = 1) = FALSE /\ o.val[3] \in {0, 1}
          BY <5>1
        <5>3. FlaggedPointFromValue(t, v) =
                Take([x |-> o.val[1], y |-> o.val[2], identity |-> o.val[3] = 1], o.rest)
          BY <2>2, <2>5, <2>6, <3>2, <5>2 DEF FlaggedPointFromValue
        <5> QED BY <2>6, <5>1, <5>2, <5>3
      <4>4. x.identity = FALSE
        BY <3>5, <3>7
      <4> QED BY <2>3, <2>4, <2>9, <3>4, <3>5, <3>7, <4>3, <4>4 DEF Norm
    <3> QED BY <3>6, <3>7
  <2> QED BY <1>1, <2>7, <2>8, <2>9 DEF PartTags
<1>2. CASE t.tag \notin PartTags
  <2>1. /\ IsAtomic(t) /\ SimpleRange(t) = AtomicRange(t) /\ SimpleToValue(t, x) = AtomicToValue(t, x)
        /\ Norm(t, x) = x
    BY <1>2, Unparted
  <2>2. \A v : SimpleFromValue(t, v) = AtomicFromValue(t, v)
    BY <1>2, Unparted
  <2>3. AtomicFromValue(t, AtomicToValue(t, x) \o rest) = Take(x, rest)
    BY <2>1, AtomicReads
  <2> QED BY <2>1, <2>2, <2>3
<1> QED BY <1>1, <1>2

(* What the decoder of a simple type accepts is a value of the type, and it
   takes as many atoms off as the alignment has. *)
LEMMA SimpleSound ==
  ASSUME NEW t, IsSimple(t), NEW v \in Seq(Atom), NEW o, o = SimpleFromValue(t, v), o.ok
  PROVE  Takes(o, Len(SimpleAlignment(t)), v, SimpleRange(t))
<1>1. CASE t.tag \in PartTags
  <2>0. ~IsAtomic(t)
    BY <1>1 DEF IsAtomic, IsForeign, PartTags
  <2>1. PICK p : p = t.parts
    OBVIOUS
  <2>2. IsParts(p)
    <3>1. CASE IsFlagged(t)
      BY <2>1, <3>1, FlaggedParts
    <3> QED BY <2>0, <2>1, <3>1 DEF IsSimple
  <2>3. PICK c : c = Chained(AtomicFromValue, p, v)
    OBVIOUS
  <2>4. SimpleAlignment(t) = PartsAlignment(p)
    BY <1>1, <2>1 DEF SimpleAlignment, PartsAlignment, PartTags
  <2>5. ASSUME c.ok
        PROVE  /\ Fills(c.val, p) /\ c.rest \in Seq(Atom)
               /\ Len(v) = Len(PartsAlignment(p)) + Len(c.rest)
    BY <2>2, <2>3, <2>5, PartsSound
  <2>6. CASE t.tag = "Struct"
    <3>1. o = c
      BY <2>1, <2>3, <2>6 DEF SimpleFromValue
    <3>2. c.val \in SimpleRange(t)
      <4>1. Fills(c.val, p)
        BY <2>5, <3>1
      <4>2. c.val \in [1 .. Len(p) -> PartValues(p)]
        BY <4>1 DEF Fills, PartValues
      <4> QED BY <2>1, <2>6, <4>1, <4>2 DEF SimpleRange
    <3> QED BY <2>4, <2>5, <3>1, <3>2 DEF Takes
  <2>7. CASE t.tag = "Point"
    <3>1. c.ok /\ o = Take([x |-> c.val[1], y |-> c.val[2]], c.rest)
      BY <2>1, <2>3, <2>7, ThrowFacts DEF SimpleFromValue, PointFromValue
    <3>2. Len(p) = 2
      BY <2>0, <2>1, <2>7 DEF IsSimple, IsFlagged
    <3>3. c.val[1] \in AtomicRange(p[1]) /\ c.val[2] \in AtomicRange(p[2])
      <4>1. 1 \in 1 .. 2 /\ 2 \in 1 .. 2
        OBVIOUS
      <4> QED BY <2>5, <3>1, <3>2, <4>1 DEF Fills
    <3>4. PICK y : y = [x |-> c.val[1], y |-> c.val[2]]
      OBVIOUS
    <3>5. y \in SimpleRange(t)
      BY <2>1, <2>7, <3>3, <3>4 DEF SimpleRange
    <3>6. o.val = y /\ o.rest = c.rest
      BY <3>1, <3>4 DEF Take
    <3> QED BY <2>4, <2>5, <3>1, <3>5, <3>6 DEF Takes
  <2>8. CASE t.tag = "FlaggedPoint"
    <3>1. o = FlaggedPointFromValue(t, v)
      BY <2>8 DEF SimpleFromValue
    <3>2. c.ok /\ o = Take([x |-> c.val[1], y |-> c.val[2], identity |-> c.val[3] = 1], c.rest)
      BY <2>1, <2>3, <3>1, ThrowFacts DEF FlaggedPointFromValue
    <3>3. IsFlagged(t)
      BY <2>8 DEF IsSimple, IsAtomic, IsForeign
    <3>4. Len(p) = 3
      BY <2>1, <3>3, FlaggedParts
    <3>5. c.val[1] \in AtomicRange(p[1]) /\ c.val[2] \in AtomicRange(p[2])
      <4>1. 1 \in 1 .. 3 /\ 2 \in 1 .. 3
        OBVIOUS
      <4> QED BY <2>5, <3>2, <3>4, <4>1 DEF Fills
    <3>6. PICK y : y = [x |-> c.val[1], y |-> c.val[2], identity |-> c.val[3] = 1]
      OBVIOUS
    <3>7. y \in SimpleRange(t)
      <4>1. PICK z \in BOOLEAN : z = (c.val[3] = 1)
        OBVIOUS
      <4>2. y = [x |-> c.val[1], y |-> c.val[2], identity |-> z]
        BY <3>6, <4>1
      <4>3. y \in [x : AtomicRange(p[1]), y : AtomicRange(p[2]), identity : BOOLEAN]
        BY <3>5, <4>2
      <4> QED BY <2>1, <2>8, <4>3 DEF SimpleRange
    <3>8. o.val = y /\ o.rest = c.rest
      BY <3>2, <3>6 DEF Take
    <3> QED BY <2>4, <2>5, <3>2, <3>7, <3>8 DEF Takes
  <2> QED BY <1>1, <2>6, <2>7, <2>8 DEF PartTags
<1>2. CASE t.tag \notin PartTags
  <2>1. /\ IsAtomic(t) /\ SimpleRange(t) = AtomicRange(t) /\ SimpleAlignment(t) = AtomicAlignment(t)
        /\ o = AtomicFromValue(t, v)
    BY <1>2, Unparted
  <2>2. Takes(o, AtomicWidth(t), v, AtomicRange(t))
    BY <2>1, AtomicSound
  <2>3. Len(AtomicAlignment(t)) = AtomicWidth(t)
    BY <2>1, AtomicWidths
  <2> QED BY <2>1, <2>2, <2>3
<1> QED BY <1>1, <1>2

------------------------------------------------------------------------------
(* Vectors, paths, and all types. *)

(* Vectors of values that are read back as they are, and paths.             *)
IsVector(t) == t.tag = "Vector" /\ t.length \in Nat /\ IsSimple(t.type) /\ t.type.tag # "FlaggedPoint"
(* The values of a vector. *)
VectorRange(t) == [1 .. t.length -> SimpleRange(t.type)]

(* The Merkle tree paths and their values. *)
IsPath(t) == t.tag = "MerkleTreePath" /\ IsSimple(t.leaf) /\ IsVector(t.path)
PathRange(t) == [leaf : SimpleRange(t.leaf), path : VectorRange(t.path)]

(* A function on an interval from one is a sequence. *)
LEMMA SequenceOf ==
  ASSUME NEW n \in Nat, NEW S, NEW s \in [1 .. n -> S]
  PROVE  s \in Seq(S) /\ Len(s) = n
<1>1. s \in Seq(S)
  BY SeqDef
<1>2. PICK m \in Nat : m = Len(s) /\ 1 .. m = 1 .. n
  BY <1>1, LenProperties
<1>3. m = n
  BY <1>2, SameTop
<1> QED BY <1>1, <1>2, <1>3

(* The alignment of a simple type is a sequence of widths. *)
LEMMA SimpleAligned ==
  ASSUME NEW t, IsSimple(t)
  PROVE  SimpleAlignment(t) \in Seq(Int)
<1>1. CASE t.tag \in PartTags
  <2>0. ~IsAtomic(t)
    BY <1>1 DEF IsAtomic, IsForeign, PartTags
  <2>1. PICK p : p = t.parts
    OBVIOUS
  <2>2. IsParts(p)
    <3>1. CASE IsFlagged(t)
      BY <2>1, <3>1, FlaggedParts
    <3> QED BY <2>0, <2>1, <3>1 DEF IsSimple
  <2>3. PICK as : as = [i \in 1 .. Len(p) |-> AtomicAlignment(p[i])]
    OBVIOUS
  <2>4. as \in Seq(Seq(Int))
    BY <2>2, <2>3, PartsAligned
  <2>5. FlattenSeq(as) \in Seq(Int)
    BY <2>4, FlattenType
  <2> QED BY <1>1, <2>1, <2>3, <2>5 DEF SimpleAlignment, PartTags
<1>2. CASE t.tag \notin PartTags
  BY <1>2, Unparted, AlignmentType
<1> QED BY <1>1, <1>2

(* The alignments and the types of a vector's elements.                     *)
LEMMA VectorAligned ==
  ASSUME NEW t, IsVector(t), NEW as, as = [i \in 1 .. t.length |-> SimpleAlignment(t.type)]
  PROVE  as \in Seq(Seq(Int)) /\ Len(as) = t.length
           /\ \A i \in 1 .. t.length : as[i] = SimpleAlignment(t.type)
<1>1. PICK n \in Nat : n = t.length
  BY DEF IsVector
<1>2. SimpleAlignment(t.type) \in Seq(Int)
  BY SimpleAligned DEF IsVector
<1>3. as \in [1 .. n -> Seq(Int)]
  BY <1>1, <1>2
<1>4. as \in Seq(Seq(Int)) /\ Len(as) = n
  <2>1. PICK S : S = Seq(Int)
    OBVIOUS
  <2>2. as \in [1 .. n -> S]
    BY <1>3, <2>1
  <2>3. as \in Seq(S) /\ Len(as) = n
    BY <2>2, SequenceOf
  <2> QED BY <2>1, <2>3
<1> QED BY <1>1, <1>4

(* The types of the elements of a vector. *)
LEMMA VectorTypes ==
  ASSUME NEW t, IsVector(t), NEW ts, ts = [i \in 1 .. t.length |-> t.type]
  PROVE  Len(ts) = t.length /\ \A i \in 1 .. t.length : ts[i] = t.type
<1>1. PICK n \in Nat : n = t.length
  BY DEF IsVector
<1>2. PICK S : S = {t.type}
  OBVIOUS
<1>3. ts \in [1 .. n -> S]
  BY <1>1, <1>2
<1>4. Len(ts) = n
  BY <1>3, SequenceOf
<1> QED BY <1>1, <1>4

(* The encodings of the elements of a vector follow their alignments. *)
LEMMA VectorListed ==
  ASSUME NEW t, IsVector(t), NEW x \in VectorRange(t),
         NEW es, es = [i \in 1 .. t.length |-> SimpleToValue(t.type, x[i])],
         NEW as, as = [i \in 1 .. t.length |-> SimpleAlignment(t.type)]
  PROVE  Lists(es, as, t.length)
<1>1. PICK n \in Nat : n = t.length
  BY DEF IsVector
<1>2. as \in Seq(Seq(Int)) /\ Len(as) = n /\ \A i \in 1 .. n : as[i] = SimpleAlignment(t.type)
  BY <1>1, VectorAligned
<1>3. ASSUME NEW i \in 1 .. n
      PROVE  Encodes(es[i], as[i]) /\ es[i] \in Seq(Atom)
  <2>1. IsSimple(t.type) /\ x[i] \in SimpleRange(t.type)
    BY <1>1 DEF IsVector, VectorRange
  <2>2. Encodes(SimpleToValue(t.type, x[i]), SimpleAlignment(t.type))
    BY <2>1, SimpleEncodes
  <2> QED BY <1>1, <1>2, <2>2 DEF Encodes
<1>4. es \in [1 .. n -> Seq(Atom)]
  BY <1>1, <1>3
<1>5. es \in Seq(Seq(Atom)) /\ Len(es) = n
  BY <1>4, SequenceOf
<1> QED BY <1>1, <1>2, <1>3, <1>5 DEF Lists

(* The encoding of a vector follows the alignment. *)
LEMMA VectorEncodes ==
  ASSUME NEW t, IsVector(t), NEW x \in VectorRange(t)
  PROVE  Encodes(VectorToValue(t, x), VectorAlignment(t))
<1>1. PICK es, as : /\ es = [i \in 1 .. t.length |-> SimpleToValue(t.type, x[i])]
                    /\ as = [i \in 1 .. t.length |-> SimpleAlignment(t.type)]
  OBVIOUS
<1>2. PICK n \in Nat : n = t.length
  BY DEF IsVector
<1>3. Lists(es, as, n)
  BY <1>1, <1>2, VectorListed
<1>4. Encodes(FlattenSeq(es), FlattenSeq(as))
  BY <1>3, EncodesAll
<1> QED BY <1>1, <1>4 DEF VectorToValue, VectorAlignment

(* A vector is read back.                                                   *)
LEMMA VectorReads ==
  ASSUME NEW t, IsVector(t), NEW x \in VectorRange(t), NEW rest \in Seq(Atom)
  PROVE  VectorFromValue(t, VectorToValue(t, x) \o rest) = Take(x, rest)
<1>1. PICK es, as : /\ es = [i \in 1 .. t.length |-> SimpleToValue(t.type, x[i])]
                    /\ as = [i \in 1 .. t.length |-> SimpleAlignment(t.type)]
  OBVIOUS
<1>2. PICK n \in Nat : n = t.length
  BY DEF IsVector
<1>3. Lists(es, as, n)
  BY <1>1, <1>2, VectorListed
<1>4. es \in Seq(Seq(Atom)) /\ Len(es) = n
  BY <1>3 DEF Lists
<1>5. PICK value : value = FlattenSeq(es) \o rest
  OBVIOUS
<1>6. PICK ts : ts = [i \in 1 .. t.length |-> t.type]
  OBVIOUS
<1>7. Len(ts) = n /\ \A i \in 1 .. n : ts[i] = t.type
  BY <1>2, <1>6, VectorTypes
<1>8. PICK read : SimpleChain(ts, value, read) /\ Chained(SimpleFromValue, ts, value) = read[n]
  BY <1>7, SimpleChained
<1>9. PICK V : V = SimpleRange(t.type)
  OBVIOUS
<1>10. x \in Seq(V) /\ Len(x) = n
  <2>1. x \in [1 .. n -> V]
    BY <1>2, <1>9 DEF VectorRange
  <2> QED BY <2>1, SequenceOf
<1>11. ASSUME NEW i \in 1 .. n
       PROVE  Passes(read, i, es[i], x[i])
  <2>1. IsSimple(t.type) /\ x[i] \in SimpleRange(t.type) /\ t.type.tag # "FlaggedPoint"
    BY <1>2 DEF IsVector, VectorRange
  <2>2. read[i] = SimpleAfter(read[i - 1], t.type)
    BY <1>7, <1>8 DEF SimpleChain
  <2>3. es[i] = SimpleToValue(t.type, x[i])
    BY <1>1, <1>2
  <2>4. ASSUME NEW done, NEW suf \in Seq(Atom), read[i - 1] = Take(done, es[i] \o suf)
        PROVE  read[i] = Take(Append(done, x[i]), suf)
    <3>1. SimpleFromValue(t.type, es[i] \o suf) = Take(Norm(t.type, x[i]), suf)
      BY <2>1, <2>3, SimpleReads
    <3>2. Norm(t.type, x[i]) = x[i]
      BY <2>1 DEF Norm
    <3>3. read[i - 1].ok /\ read[i - 1].val = done /\ read[i - 1].rest = es[i] \o suf
      BY <2>4 DEF Take
    <3>4. PICK o : o = SimpleFromValue(t.type, es[i] \o suf) /\ o.ok /\ o.val = x[i] /\ o.rest = suf
      BY <3>1, <3>2 DEF Take
    <3> QED BY <2>2, <3>3, <3>4 DEF SimpleAfter
  <2> QED BY <2>4 DEF Passes
<1>12. read[0] = Take(<<>>, value)
  BY <1>8 DEF SimpleChain
<1>13. AllPass(read, n, es, x)
  BY <1>11 DEF AllPass
<1>14. read[n] = Take(x, rest)
  <2>1. Reads(n, es, V, x, rest, value, read)
    BY <1>4, <1>5, <1>10, <1>12, <1>13 DEF Reads
  <2> QED BY <2>1, ChainReads
<1>15. VectorToValue(t, x) = FlattenSeq(es)
  BY <1>1 DEF VectorToValue
<1> QED BY <1>5, <1>6, <1>8, <1>14, <1>15 DEF VectorFromValue

(* What the decoder of a vector accepts is a value of the type. *)
LEMMA VectorSound ==
  ASSUME NEW t, IsVector(t), NEW v \in Seq(Atom), NEW o, o = VectorFromValue(t, v), o.ok
  PROVE  Takes(o, Len(VectorAlignment(t)), v, VectorRange(t))
<1>1. PICK as : as = [i \in 1 .. t.length |-> SimpleAlignment(t.type)]
  OBVIOUS
<1>2. PICK n \in Nat : n = t.length
  BY DEF IsVector
<1>3. as \in Seq(Seq(Int)) /\ Len(as) = n /\ \A i \in 1 .. n : as[i] = SimpleAlignment(t.type)
  BY <1>1, <1>2, VectorAligned
<1>4. PICK ts : ts = [i \in 1 .. t.length |-> t.type]
  OBVIOUS
<1>5. Len(ts) = n /\ \A i \in 1 .. n : ts[i] = t.type
  BY <1>2, <1>4, VectorTypes
<1>6. PICK read : SimpleChain(ts, v, read) /\ o = read[n]
  <2>1. o = Chained(SimpleFromValue, ts, v)
    BY <1>4 DEF VectorFromValue
  <2> QED BY <1>5, <2>1, SimpleChained
<1>7. PICK V : V = SimpleRange(t.type)
  OBVIOUS
<1>8. PICK Vals : Vals = [i \in 1 .. n |-> V]
  OBVIOUS
<1>9. ASSUME NEW i \in 1 .. n
      PROVE  Returned(read, i, Vals[i], as[i])
  <2>1. read[i] = SimpleAfter(read[i - 1], t.type)
    BY <1>5, <1>6 DEF SimpleChain
  <2>2. ASSUME read[i].ok
        PROVE  /\ read[i - 1].ok
               /\ read[i - 1].rest \in Seq(Atom) =>
                    \E x \in Vals[i], rest \in Seq(Atom) :
                      /\ read[i] = Take(Append(read[i - 1].val, x), rest)
                      /\ Len(read[i - 1].rest) = Len(as[i]) + Len(rest)
    <3>1. read[i - 1].ok
      BY <2>1, <2>2, ThrowFacts DEF SimpleAfter
    <3>2. PICK u : u = SimpleFromValue(t.type, read[i - 1].rest)
      OBVIOUS
    <3>3. u.ok /\ read[i] = Take(Append(read[i - 1].val, u.val), u.rest)
      BY <2>1, <2>2, <3>1, <3>2, ThrowFacts DEF SimpleAfter
    <3>4. ASSUME read[i - 1].rest \in Seq(Atom)
          PROVE  u.val \in Vals[i] /\ u.rest \in Seq(Atom) /\ Len(read[i - 1].rest) = Len(as[i]) + Len(u.rest)
      <4>1. IsSimple(t.type)
        BY DEF IsVector
      <4>2. PICK w \in Seq(Atom) : w = read[i - 1].rest
        BY <3>4
      <4>3. PICK y : y = t.type
        OBVIOUS
      <4>4. Takes(u, Len(SimpleAlignment(y)), w, SimpleRange(y))
        BY <3>2, <3>3, <4>1, <4>2, <4>3, SimpleSound
      <4> QED BY <1>3, <1>7, <1>8, <4>2, <4>3, <4>4 DEF Takes
    <3> QED BY <3>1, <3>3, <3>4
  <2> QED BY <2>2 DEF Returned
<1>10. read[0] = Take(<<>>, v)
  BY <1>6 DEF SimpleChain
<1>11. AllReturned(read, n, V, Vals, as)
  BY <1>8, <1>9 DEF AllReturned
<1>12. Returns(n, as, V, Vals, v, read)
  BY <1>3, <1>6, <1>10, <1>11 DEF Returns
<1>13. ReadAll(n, as, V, Vals, v, read[n])
  BY <1>12, ChainSound
<1>14. o.val \in VectorRange(t)
  <2>1. PICK s \in Seq(V) : s = o.val /\ Len(s) = n
    BY <1>6, <1>13 DEF ReadAll, ListIn
  <2>2. s \in [1 .. n -> V]
    <3>1. s \in [1 .. Len(s) -> V]
      BY LenProperties
    <3> QED BY <2>1, <3>1
  <2> QED BY <1>2, <1>7, <2>1, <2>2 DEF VectorRange
<1>15. VectorAlignment(t) = FlattenSeq(as)
  BY <1>1 DEF VectorAlignment
<1> QED BY <1>6, <1>13, <1>14, <1>15 DEF ReadAll, Takes

(* Every type.                                                              *)
IsType(t) == IsSimple(t) \/ IsVector(t) \/ IsPath(t)

(* The values of a type. *)
TypeRange(t) ==
  CASE t.tag = "Vector"         -> VectorRange(t)
    [] t.tag = "MerkleTreePath" -> PathRange(t)
    [] OTHER                    -> SimpleRange(t)

(* What a value of a type reads back as. *)
TypeNorm(t, x) ==
  IF t.tag = "MerkleTreePath" THEN [leaf |-> Norm(t.leaf, x.leaf), path |-> x.path] ELSE Norm(t, x)

(* A simple type is not a vector or a path. *)
LEMMA SimpleTag ==
  ASSUME NEW t, IsSimple(t)
  PROVE  t.tag # "Vector" /\ t.tag # "MerkleTreePath"
BY DEF IsSimple, IsAtomic, IsForeign, IsFlagged

(* The encoding of a value of any type follows the type's alignment: as many
   atoms, none wider than it may be. *)
LEMMA TypeEncodes ==
  ASSUME NEW t, IsType(t), NEW x \in TypeRange(t)
  PROVE  Encodes(ToValue(t, x), Alignment(t))
<1>1. CASE IsSimple(t)
  <2>1. x \in SimpleRange(t) /\ ToValue(t, x) = SimpleToValue(t, x) /\ Alignment(t) = SimpleAlignment(t)
    BY <1>1, SimpleTag DEF TypeRange, ToValue, Alignment
  <2> QED BY <1>1, <2>1, SimpleEncodes
<1>2. CASE IsVector(t)
  <2>1. x \in VectorRange(t) /\ ToValue(t, x) = VectorToValue(t, x) /\ Alignment(t) = VectorAlignment(t)
    BY <1>2 DEF TypeRange, ToValue, Alignment, IsVector
  <2> QED BY <1>2, <2>1, VectorEncodes
<1>3. CASE IsPath(t)
  <2>1. x \in PathRange(t) /\ IsSimple(t.leaf) /\ IsVector(t.path)
    BY <1>3 DEF TypeRange, IsPath
  <2>2. x.leaf \in SimpleRange(t.leaf) /\ x.path \in VectorRange(t.path)
    BY <2>1 DEF PathRange
  <2>3. PICK a, b, c, d : /\ a = SimpleToValue(t.leaf, x.leaf) /\ b = SimpleAlignment(t.leaf)
                          /\ c = VectorToValue(t.path, x.path) /\ d = VectorAlignment(t.path)
    OBVIOUS
  <2>4. Encodes(a, b) /\ Encodes(c, d)
    BY <2>1, <2>2, <2>3, SimpleEncodes, VectorEncodes
  <2>5. ToValue(t, x) = a \o c /\ Alignment(t) = b \o d
    BY <1>3, <2>3 DEF ToValue, Alignment, IsPath
  <2> QED BY <2>4, <2>5, EncodesBoth
<1> QED BY <1>1, <1>2, <1>3 DEF IsType

(* The round trip: what follows the encoding is left for the next decoder.  *)
LEMMA TypeReads ==
  ASSUME NEW t, IsType(t), NEW x \in TypeRange(t), NEW rest \in Seq(Atom)
  PROVE  FromValue(t, ToValue(t, x) \o rest) = Take(TypeNorm(t, x), rest)
<1>1. CASE IsSimple(t)
  <2>1. t.tag # "Vector" /\ t.tag # "MerkleTreePath"
    BY <1>1, SimpleTag
  <2>2. x \in SimpleRange(t) /\ ToValue(t, x) = SimpleToValue(t, x) /\ TypeNorm(t, x) = Norm(t, x)
    BY <2>1 DEF TypeRange, ToValue, TypeNorm
  <2>3. \A v : FromValue(t, v) = SimpleFromValue(t, v)
    BY <2>1 DEF FromValue
  <2> QED BY <1>1, <2>2, <2>3, SimpleReads
<1>2. CASE IsVector(t)
  <2>1. t.tag = "Vector"
    BY <1>2 DEF IsVector
  <2>2. x \in VectorRange(t) /\ ToValue(t, x) = VectorToValue(t, x) /\ TypeNorm(t, x) = x
    BY <2>1 DEF TypeRange, ToValue, TypeNorm, Norm
  <2>3. \A v : FromValue(t, v) = VectorFromValue(t, v)
    BY <2>1 DEF FromValue
  <2> QED BY <1>2, <2>2, <2>3, VectorReads
<1>3. CASE IsPath(t)
  <2>1. t.tag = "MerkleTreePath" /\ x \in PathRange(t) /\ IsSimple(t.leaf) /\ IsVector(t.path)
    BY <1>3 DEF TypeRange, IsPath
  <2>2. x.leaf \in SimpleRange(t.leaf) /\ x.path \in VectorRange(t.path)
    BY <2>1 DEF PathRange
  <2>3. PICK a, c : a = SimpleToValue(t.leaf, x.leaf) /\ c = VectorToValue(t.path, x.path)
    OBVIOUS
  <2>4. a \in Seq(Atom) /\ c \in Seq(Atom)
    BY <2>1, <2>2, <2>3, SimpleEncodes, VectorEncodes DEF Encodes
  <2>5. ToValue(t, x) = a \o c
    BY <2>1, <2>3 DEF ToValue
  <2>6. (a \o c) \o rest = a \o (c \o rest) /\ c \o rest \in Seq(Atom)
    BY <2>4, AtomsAssociate, ConcatProperties
  <2>7. PICK w \in Seq(Atom) : w = c \o rest
    BY <2>6
  <2>8. PICK v : v = a \o w
    OBVIOUS
  <2>9. SimpleFromValue(t.leaf, v) = Take(Norm(t.leaf, x.leaf), w)
    BY <2>1, <2>2, <2>3, <2>8, SimpleReads
  <2>10. VectorFromValue(t.path, w) = Take(x.path, rest)
    BY <2>1, <2>2, <2>3, <2>7, VectorReads
  <2>11. FromValue(t, v) = MerkleTreePathFromValue(t, v)
    BY <2>1 DEF FromValue
  <2>12. PICK l, p : l = SimpleFromValue(t.leaf, v) /\ p = VectorFromValue(t.path, w)
    OBVIOUS
  <2>13. l.ok /\ l.val = Norm(t.leaf, x.leaf) /\ l.rest = w /\ p.ok /\ p.val = x.path /\ p.rest = rest
    BY <2>9, <2>10, <2>12 DEF Take
  <2>14. MerkleTreePathFromValue(t, v) = Take([leaf |-> l.val, path |-> p.val], p.rest)
    BY <2>12, <2>13 DEF MerkleTreePathFromValue
  <2> QED BY <2>1, <2>5, <2>6, <2>7, <2>8, <2>11, <2>13, <2>14 DEF TypeNorm
<1> QED BY <1>1, <1>2, <1>3 DEF IsType

(* What a decoder accepts is in the range of its type, and it takes the
   atoms of the alignment.                                                  *)
LEMMA TypeSound ==
  ASSUME NEW t, IsType(t), NEW v \in Seq(Atom), NEW o, o = FromValue(t, v), o.ok
  PROVE  Takes(o, Len(Alignment(t)), v, TypeRange(t))
<1>1. CASE IsSimple(t)
  <2>1. t.tag # "Vector" /\ t.tag # "MerkleTreePath"
    BY <1>1, SimpleTag
  <2>2. TypeRange(t) = SimpleRange(t) /\ Alignment(t) = SimpleAlignment(t) /\ o = SimpleFromValue(t, v)
    BY <2>1 DEF TypeRange, Alignment, FromValue
  <2> QED BY <1>1, <2>2, SimpleSound
<1>2. CASE IsVector(t)
  <2>1. t.tag = "Vector"
    BY <1>2 DEF IsVector
  <2>2. TypeRange(t) = VectorRange(t) /\ Alignment(t) = VectorAlignment(t) /\ o = VectorFromValue(t, v)
    BY <2>1 DEF TypeRange, Alignment, FromValue
  <2> QED BY <1>2, <2>2, VectorSound
<1>3. CASE IsPath(t)
  <2>1. t.tag = "MerkleTreePath" /\ IsSimple(t.leaf) /\ IsVector(t.path)
    BY <1>3 DEF IsPath
  <2>2. PICK l, p, y, z : l = SimpleFromValue(t.leaf, v) /\ p = VectorFromValue(t.path, l.rest)
           /\ y = t.leaf /\ z = t.path
    OBVIOUS
  <2>3. o = MerkleTreePathFromValue(t, v)
    BY <2>1 DEF FromValue
  <2>4. l.ok /\ p.ok /\ o = Take([leaf |-> l.val, path |-> p.val], p.rest)
    BY <2>2, <2>3, ThrowFacts DEF MerkleTreePathFromValue
  <2>5. Takes(l, Len(SimpleAlignment(y)), v, SimpleRange(y))
    BY <2>1, <2>2, <2>4, SimpleSound
  <2>6. PICK w \in Seq(Atom) : w = l.rest
    BY <2>5 DEF Takes
  <2>7. Takes(p, Len(VectorAlignment(z)), w, VectorRange(z))
    BY <2>1, <2>2, <2>4, <2>6, VectorSound
  <2>8. SimpleAlignment(y) \in Seq(Int) /\ VectorAlignment(z) \in Seq(Int)
    <3>1. PICK as : as = [i \in 1 .. z.length |-> SimpleAlignment(z.type)]
      OBVIOUS
    <3>2. as \in Seq(Seq(Int))
      BY <2>1, <2>2, <3>1, VectorAligned
    <3>3. FlattenSeq(as) \in Seq(Int)
      BY <3>2, FlattenType
    <3> QED BY <2>1, <2>2, <3>1, <3>3, SimpleAligned DEF VectorAlignment
  <2>9. Alignment(t) = SimpleAlignment(y) \o VectorAlignment(z)
    BY <2>1, <2>2 DEF Alignment
  <2>10. PICK b \in Nat, d \in Nat, m \in Nat :
           b = Len(SimpleAlignment(y)) /\ d = Len(VectorAlignment(z)) /\ m = Len(p.rest)
    <3>1. p.rest \in Seq(Atom)
      BY <2>7 DEF Takes
    <3> QED BY <2>8, <3>1, LenProperties
  <2>11. Len(Alignment(t)) = b + d
    BY <2>8, <2>9, <2>10, ConcatProperties
  <2>12. Len(v) = b + (d + m)
    BY <2>5, <2>6, <2>7, <2>10 DEF Takes
  <2>13. Len(v) = Len(Alignment(t)) + Len(p.rest)
    <3>1. b + (d + m) = (b + d) + m
      OBVIOUS
    <3> QED BY <2>10, <2>11, <2>12, <3>1
  <2>14. PICK x : x = [leaf |-> l.val, path |-> p.val]
    OBVIOUS
  <2>15. x \in PathRange(t) /\ PathRange(t) = TypeRange(t)
    BY <2>1, <2>2, <2>5, <2>7, <2>14 DEF PathRange, TypeRange, Takes
  <2>16. o.val = x /\ o.rest = p.rest
    BY <2>4, <2>14 DEF Take
  <2> QED BY <2>7, <2>13, <2>15, <2>16 DEF Takes
<1> QED BY <1>1, <1>2, <1>3 DEF IsType

------------------------------------------------------------------------------
(* The types of the kinds. *)

(* The types of the kinds.                                                  *)
LEMMA TypesOfKinds ==
  /\ TypeOf["Field"] = CompactTypeField
  /\ TypeOf["JubjubScalar"] = CompactTypeField
  /\ TypeOf["Secp256k1Base"] = CompactTypeSecp256k1Base
  /\ TypeOf["Secp256k1Scalar"] = CompactTypeSecp256k1Scalar
  /\ TypeOf["Secp256r1Base"] = CompactTypeSecp256r1Base
  /\ TypeOf["Secp256r1Scalar"] = CompactTypeSecp256r1Scalar
  /\ TypeOf["Curve25519Base"] = CompactTypeCurve25519Base
  /\ TypeOf["Curve25519Scalar"] = CompactTypeCurve25519Scalar
  /\ TypeOf["Uint"] = CompactTypeUnsignedInteger(UintMax, Len(Digits[UintMax]))
  /\ TypeOf["Enum"] = CompactTypeEnum(EnumMax, Len(Digits[EnumMax]))
  /\ TypeOf["Bytes"] = CompactTypeBytes(BytesLength)
  /\ TypeOf["Hash"] = Bytes32Descriptor
  /\ TypeOf["JubjubPoint"] = CompactTypeJubjubPoint
  /\ TypeOf["Secp256k1Point"] = CompactTypeSecp256k1Point
  /\ TypeOf["Secp256r1Point"] = CompactTypeSecp256r1Point
  /\ TypeOf["Curve25519Point"] = CompactTypeCurve25519Point
  /\ TypeOf["Boolean"] = CompactTypeBoolean
  /\ TypeOf["Opaque"] = CompactTypeOpaque
  /\ TypeOf["PathEntry"] = CompactTypeMerkleTreePathEntry
  /\ TypeOf["Path"] = CompactTypeMerkleTreePath(1, CompactTypeSecp256k1Point)
  /\ TypeOf["Vector"] = CompactTypeVector(2, CompactTypeSecp256k1Scalar)
  /\ TypeOf["CoinInfo"] = ShieldedCoinInfoDescriptor
  /\ TypeOf["Recipient"] = ShieldedCoinRecipientDescriptor
BY DEF TypeOf, CompactTypeJubjubScalar

(* The sorts of kinds. *)
ForeignKinds == {"Secp256k1Base", "Secp256k1Scalar", "Secp256r1Base", "Secp256r1Scalar",
                 "Curve25519Base", "Curve25519Scalar"}
FlaggedKinds == {"Secp256k1Point", "Secp256r1Point"}
PlainKinds == {"JubjubPoint", "Curve25519Point"}
OtherKinds == {"Boolean", "Opaque", "PathEntry", "Path", "Vector", "CoinInfo", "Recipient"}

(* The kinds, by sort. *)
LEMMA KindSets ==
  /\ NumberKinds = {"Field", "JubjubScalar", "Uint", "Enum"} \cup ForeignKinds
  /\ PointKinds = FlaggedKinds \cup PlainKinds
  /\ Kinds = NumberKinds \cup PointKinds \cup ByteKinds \cup OtherKinds
<1>1. NumberKinds = {"Field", "JubjubScalar", "Uint", "Enum"} \cup ForeignKinds
  BY DEF NumberKinds, Modulus, ForeignKinds
<1>2. PointKinds = FlaggedKinds \cup PlainKinds
  BY DEF PointKinds, Order, FlaggedKinds, PlainKinds
<1>3. Kinds = {"Field", "JubjubScalar", "Uint", "Enum"} \cup ForeignKinds
                \cup FlaggedKinds \cup PlainKinds \cup ByteKinds \cup OtherKinds
  BY DEF Kinds, TypeOf, ForeignKinds, FlaggedKinds, PlainKinds, ByteKinds, OtherKinds
<1>4. Kinds = NumberKinds \cup PointKinds \cup ByteKinds \cup OtherKinds
  <2>1. NumberKinds \cup PointKinds = {"Field", "JubjubScalar", "Uint", "Enum"} \cup ForeignKinds
                \cup FlaggedKinds \cup PlainKinds
    BY <1>1, <1>2
  <2> QED BY <1>3, <2>1
<1> QED BY <1>1, <1>2, <1>4

(* The foreign fields the runtime declares satisfy what their encoders
   assume. *)
LEMMA ForeignTypes ==
  /\ IsForeign(CompactTypeSecp256k1Base) /\ IsForeign(CompactTypeSecp256k1Scalar)
  /\ IsForeign(CompactTypeSecp256r1Base) /\ IsForeign(CompactTypeSecp256r1Scalar)
  /\ IsForeign(CompactTypeCurve25519Base) /\ IsForeign(CompactTypeCurve25519Scalar)
<1> DEFINE Fits(t) == /\ t.radix \in 1 .. MAX_FIELD + 1 /\ t.max \div t.radix <= MAX_FIELD
                      /\ t.widths \in Nat \X Nat
                      /\ Len(Digits[t.radix - 1]) <= t.widths[1]
                      /\ Len(Digits[t.max \div t.radix]) <= t.widths[2]
<1>1. \A t : t.tag = "Foreign" /\ t.max \in Nat /\ Fits(t) => IsForeign(t)
  BY DEF IsForeign
<1>2. /\ Fits(CompactTypeSecp256k1Base) /\ Fits(CompactTypeSecp256k1Scalar)
      /\ Fits(CompactTypeSecp256r1Base) /\ Fits(CompactTypeSecp256r1Scalar)
      /\ Fits(CompactTypeCurve25519Base) /\ Fits(CompactTypeCurve25519Scalar)
  BY LimbsAssumption
<1> HIDE DEF Fits
<1>3. \A c \in {K1, R1, C25519, Jubjub} : c.p - 1 \in Nat /\ c.order - 1 \in Nat
  BY CurvesAssumption
<1>4. CompactTypeSecp256k1Base.tag = "Foreign" /\ CompactTypeSecp256k1Base.max \in Nat
  BY <1>3 DEF CompactTypeSecp256k1Base, ForeignField8_24, SECP256K1_BASE_MODULUS
<1>5. CompactTypeSecp256k1Scalar.tag = "Foreign" /\ CompactTypeSecp256k1Scalar.max \in Nat
  BY <1>3 DEF CompactTypeSecp256k1Scalar, ForeignField8_24, SECP256K1_SCALAR_MODULUS
<1>6. CompactTypeSecp256r1Base.tag = "Foreign" /\ CompactTypeSecp256r1Base.max \in Nat
  BY <1>3 DEF CompactTypeSecp256r1Base, ForeignField8_24, SECP256R1_BASE_MODULUS
<1>7. CompactTypeSecp256r1Scalar.tag = "Foreign" /\ CompactTypeSecp256r1Scalar.max \in Nat
  BY <1>3 DEF CompactTypeSecp256r1Scalar, ForeignField8_24, SECP256R1_SCALAR_MODULUS
<1>8. CompactTypeCurve25519Base.tag = "Foreign" /\ CompactTypeCurve25519Base.max \in Nat
  BY <1>3 DEF CompactTypeCurve25519Base, ForeignField8_24, CURVE25519_BASE_MODULUS
<1>9. CompactTypeCurve25519Scalar.tag = "Foreign" /\ CompactTypeCurve25519Scalar.max \in Nat
  BY <1>3 DEF CompactTypeCurve25519Scalar, CURVE25519_SCALAR_MODULUS
<1> QED BY <1>1, <1>2, <1>4, <1>5, <1>6, <1>7, <1>8, <1>9

(* The maximum and the range of each.                                       *)
LEMMA ForeignMaxima ==
  /\ CompactTypeSecp256k1Base.max = K1.p - 1 /\ CompactTypeSecp256k1Scalar.max = K1.order - 1
  /\ CompactTypeSecp256r1Base.max = R1.p - 1 /\ CompactTypeSecp256r1Scalar.max = R1.order - 1
  /\ CompactTypeCurve25519Base.max = C25519.p - 1 /\ CompactTypeCurve25519Scalar.max = C25519.order - 1
BY DEF CompactTypeSecp256k1Base, CompactTypeSecp256k1Scalar, CompactTypeSecp256r1Base,
         CompactTypeSecp256r1Scalar,
       CompactTypeCurve25519Base, CompactTypeCurve25519Scalar, ForeignField8_24, SECP256K1_BASE_MODULUS,
       SECP256K1_SCALAR_MODULUS, SECP256R1_BASE_MODULUS, SECP256R1_SCALAR_MODULUS, CURVE25519_BASE_MODULUS,
       CURVE25519_SCALAR_MODULUS

(* The type of one byte. *)
LEMMA OneByte == IsUint(MaxUint8Descriptor)
<1>1. PICK m \in Nat : m = Base - 1
  BY ConstantTypes
<1>2. MaxUint8Descriptor.max = m /\ MaxUint8Descriptor.length = 1
  BY <1>1 DEF MaxUint8Descriptor, CompactTypeUnsignedInteger
<1>3. Number(Full(1)) = m
  <2>1. PICK z \in Nat : z = 0 /\ z + 1 = 1
    OBVIOUS
  <2>2. Number(Full(z + 1)) = (Base - 1) + Base * Number(Full(z))
    BY FullStep
  <2>3. Base * 0 = 0
    BY ConstantTypes
  <2> QED BY <1>1, <2>1, <2>2, <2>3, FullZero
<1>4. Len(Digits[m]) <= 1
  <2>1. ShortUpTo(1)
    BY DigitsShort
  <2> QED BY <1>3, <2>1 DEF ShortUpTo
<1> QED BY <1>2, <1>4 DEF IsUint

(* The atomic types the runtime and the circuit use. *)
LEMMA AtomicTypes ==
  /\ IsAtomic(CompactTypeField) /\ IsAtomic(CompactTypeBoolean) /\ IsAtomic(CompactTypeOpaque)
  /\ IsAtomic(Bytes32Descriptor) /\ IsAtomic(CompactTypeBytes(BytesLength)) /\ IsAtomic(MaxUint8Descriptor)
  /\ IsAtomic(CompactTypeUnsignedInteger(UintMax, Len(Digits[UintMax])))
  /\ IsAtomic(CompactTypeEnum(EnumMax, Len(Digits[EnumMax])))
<1>1. IsAtomic(CompactTypeField) /\ IsAtomic(CompactTypeBoolean) /\ IsAtomic(CompactTypeOpaque)
  BY DEF IsAtomic, CompactTypeField, CompactTypeBoolean, CompactTypeOpaque
<1>2. IsAtomic(Bytes32Descriptor) /\ IsAtomic(CompactTypeBytes(BytesLength))
  BY ConstantTypes DEF IsAtomic, Bytes32Descriptor, CompactTypeBytes
<1>3. IsAtomic(MaxUint8Descriptor)
  <2>1. MaxUint8Descriptor.tag = "Uint"
    BY DEF MaxUint8Descriptor, CompactTypeUnsignedInteger
  <2> QED BY <2>1, OneByte DEF IsAtomic
<1>4. ASSUME NEW m \in Nat
      PROVE  Len(Digits[m]) \in Nat
  BY DigitsDefined, LenProperties DEF Atom
<1>5. IsAtomic(CompactTypeUnsignedInteger(UintMax, Len(Digits[UintMax])))
  <2>1. PICK t : t = CompactTypeUnsignedInteger(UintMax, Len(Digits[UintMax]))
    OBVIOUS
  <2>2. t.tag = "Uint" /\ t.max = UintMax /\ t.length = Len(Digits[UintMax])
    BY <2>1 DEF CompactTypeUnsignedInteger
  <2>3. IsUint(t)
    BY <1>4, <2>2, ConstantTypes DEF IsUint
  <2> QED BY <2>1, <2>2, <2>3 DEF IsAtomic
<1>6. IsAtomic(CompactTypeEnum(EnumMax, Len(Digits[EnumMax])))
  <2>1. PICK t : t = CompactTypeEnum(EnumMax, Len(Digits[EnumMax]))
    OBVIOUS
  <2>2. t.tag = "Enum" /\ t.max = EnumMax /\ t.length = Len(Digits[EnumMax])
    BY <2>1 DEF CompactTypeEnum
  <2>3. IsUint(t) /\ Len(Digits[t.max]) <= WordBytes
    BY <1>4, <2>2, ConstantTypes, ValuesAssumption DEF IsUint
  <2> QED BY <2>1, <2>2, <2>3 DEF IsAtomic
<1> QED BY <1>1, <1>2, <1>3, <1>5, <1>6

(* Types with two parts. *)
LEMMA TwoParts ==
  ASSUME NEW a, NEW b, IsAtomic(a), IsAtomic(b), NEW p, p = <<a, b>>
  PROVE  IsParts(p) /\ Len(p) = 2
<1>1. p[1] = a /\ p[2] = b /\ Len(p) = 2 /\ DOMAIN p = 1 .. 2
  OBVIOUS
<1>2. \A i \in 1 .. 2 : i = 1 \/ i = 2
  OBVIOUS
<1> QED BY <1>1, <1>2 DEF IsParts

(* Types with three parts. *)
LEMMA ThreeParts ==
  ASSUME NEW a, NEW b, NEW c, IsAtomic(a), IsAtomic(b), IsAtomic(c), NEW p, p = <<a, b, c>>
  PROVE  IsParts(p) /\ Len(p) = 3
<1>1. p[1] = a /\ p[2] = b /\ p[3] = c /\ Len(p) = 3 /\ DOMAIN p = 1 .. 3
  OBVIOUS
<1>2. \A i \in 1 .. 3 : i = 1 \/ i = 2 \/ i = 3
  OBVIOUS
<1> QED BY <1>1, <1>2 DEF IsParts

(* The types with parts that the runtime declares. *)
LEMMA PartedTypes ==
  /\ IsSimple(CompactTypeJubjubPoint) /\ IsSimple(CompactTypeCurve25519Point)
  /\ IsFlagged(CompactTypeSecp256k1Point) /\ IsFlagged(CompactTypeSecp256r1Point)
  /\ IsSimple(CompactTypeMerkleTreePathEntry)
  /\ IsSimple(ShieldedCoinInfoDescriptor) /\ IsSimple(ShieldedCoinRecipientDescriptor)
<1>1. PICK f, b, h, u : f = CompactTypeField /\ b = CompactTypeBoolean /\ h = Bytes32Descriptor
         /\ u = MaxUint8Descriptor
  OBVIOUS
<1>2. IsAtomic(f) /\ IsAtomic(b) /\ IsAtomic(h) /\ IsAtomic(u)
  BY <1>1, AtomicTypes
<1>3. IsSimple(CompactTypeJubjubPoint)
  <2>1. PICK p : p = <<f, f>>
    OBVIOUS
  <2>2. IsParts(p) /\ Len(p) = 2
    BY <1>2, <2>1, TwoParts
  <2>3. CompactTypeJubjubPoint.tag = "Point" /\ CompactTypeJubjubPoint.parts = p
    BY <1>1, <2>1 DEF CompactTypeJubjubPoint
  <2> QED BY <2>2, <2>3 DEF IsSimple
<1>4. IsSimple(CompactTypeCurve25519Point)
  <2>1. PICK c : c = CompactTypeCurve25519Base
    OBVIOUS
  <2>2. IsAtomic(c)
    BY <2>1, ForeignTypes DEF IsAtomic
  <2>3. PICK p : p = <<c, c>>
    OBVIOUS
  <2>4. IsParts(p) /\ Len(p) = 2
    BY <2>2, <2>3, TwoParts
  <2>5. CompactTypeCurve25519Point.tag = "Point" /\ CompactTypeCurve25519Point.parts = p
    BY <2>1, <2>3 DEF CompactTypeCurve25519Point
  <2> QED BY <2>4, <2>5 DEF IsSimple
<1>5. IsFlagged(CompactTypeSecp256k1Point) /\ IsFlagged(CompactTypeSecp256r1Point)
  <2>1. CompactTypeSecp256k1Point.tag = "FlaggedPoint" /\ CompactTypeSecp256r1Point.tag = "FlaggedPoint"
    BY DEF CompactTypeSecp256k1Point, CompactTypeSecp256r1Point
  <2>2. /\ CompactTypeSecp256k1Point.parts = <<CompactTypeSecp256k1Base, CompactTypeSecp256k1Base,
           CompactTypeField>>
        /\ CompactTypeSecp256r1Point.parts = <<CompactTypeSecp256r1Base, CompactTypeSecp256r1Base,
                 CompactTypeField>>
    BY DEF CompactTypeSecp256k1Point, CompactTypeSecp256r1Point
  <2> QED BY <2>1, <2>2, ForeignTypes DEF IsFlagged
<1>6. IsSimple(CompactTypeMerkleTreePathEntry)
  <2>1. PICK p : p = <<f, b>>
    OBVIOUS
  <2>2. IsParts(p)
    BY <1>2, <2>1, TwoParts
  <2>3. CompactTypeMerkleTreePathEntry.tag = "Struct" /\ CompactTypeMerkleTreePathEntry.parts = p
    BY <1>1, <2>1 DEF CompactTypeMerkleTreePathEntry, CompactTypeMerkleTreeDigest
  <2> QED BY <2>2, <2>3 DEF IsSimple
<1>7. IsSimple(ShieldedCoinInfoDescriptor)
  <2>1. PICK p : p = <<h, h, u>>
    OBVIOUS
  <2>2. IsParts(p)
    BY <1>2, <2>1, ThreeParts
  <2>3. ShieldedCoinInfoDescriptor.tag = "Struct" /\ ShieldedCoinInfoDescriptor.parts = p
    BY <1>1, <2>1 DEF ShieldedCoinInfoDescriptor
  <2> QED BY <2>2, <2>3 DEF IsSimple
<1>8. IsSimple(ShieldedCoinRecipientDescriptor)
  <2>1. PICK p : p = <<b, h, h>>
    OBVIOUS
  <2>2. IsParts(p)
    BY <1>2, <2>1, ThreeParts
  <2>3. ShieldedCoinRecipientDescriptor.tag = "Struct" /\ ShieldedCoinRecipientDescriptor.parts = p
    BY <1>1, <2>1 DEF ShieldedCoinRecipientDescriptor, ZswapCoinPublicKeyDescriptor, ContractAddressDescriptor
  <2> QED BY <2>2, <2>3 DEF IsSimple
<1> QED BY <1>3, <1>4, <1>5, <1>6, <1>7, <1>8

(* Every kind has a type of those the lemmas above are about.               *)
LEMMA KindTypes ==
  ASSUME NEW kind \in Kinds
  PROVE  IsType(TypeOf[kind])
<1>1. CASE kind \in ForeignKinds
  <2>1. IsForeign(TypeOf[kind])
    BY <1>1, TypesOfKinds, ForeignTypes DEF ForeignKinds
  <2> QED BY <2>1 DEF IsAtomic, IsSimple, IsType
<1>2. CASE kind \in {"Field", "JubjubScalar", "Uint", "Enum", "Boolean", "Opaque", "Bytes", "Hash"}
  <2>1. IsAtomic(TypeOf[kind])
    BY <1>2, TypesOfKinds, AtomicTypes
  <2> QED BY <2>1 DEF IsSimple, IsType
<1>3. CASE kind \in {"JubjubPoint", "Curve25519Point", "PathEntry", "CoinInfo", "Recipient"}
  <2>1. IsSimple(TypeOf[kind])
    BY <1>3, TypesOfKinds, PartedTypes
  <2> QED BY <2>1 DEF IsType
<1>4. CASE kind \in FlaggedKinds
  <2>1. IsFlagged(TypeOf[kind])
    BY <1>4, TypesOfKinds, PartedTypes DEF FlaggedKinds
  <2> QED BY <2>1 DEF IsType, IsSimple
<1>5. CASE kind = "Vector"
  <2>1. PICK t : t = CompactTypeVector(2, CompactTypeSecp256k1Scalar)
    OBVIOUS
  <2>2. t.tag = "Vector" /\ t.length = 2 /\ t.type = CompactTypeSecp256k1Scalar
    BY <2>1 DEF CompactTypeVector
  <2>3. IsSimple(t.type) /\ t.type.tag # "FlaggedPoint"
    BY <2>2, ForeignTypes DEF IsSimple, IsAtomic, IsForeign
  <2>4. IsVector(t)
    BY <2>2, <2>3 DEF IsVector
  <2> QED BY <1>5, <2>1, <2>4, TypesOfKinds DEF IsType
<1>6. CASE kind = "Path"
  <2>1. PICK t, y : t = CompactTypeMerkleTreePath(1, CompactTypeSecp256k1Point)
                    /\ y = CompactTypeVector(1, CompactTypeMerkleTreePathEntry)
    OBVIOUS
  <2>2. t.tag = "MerkleTreePath" /\ t.leaf = CompactTypeSecp256k1Point /\ t.path = y
    BY <2>1 DEF CompactTypeMerkleTreePath
  <2>3. y.tag = "Vector" /\ y.length = 1 /\ y.type = CompactTypeMerkleTreePathEntry
    BY <2>1 DEF CompactTypeVector
  <2>4. CompactTypeMerkleTreePathEntry.tag = "Struct"
    BY DEF CompactTypeMerkleTreePathEntry
  <2>5. IsVector(y)
    BY <2>3, <2>4, PartedTypes DEF IsVector
  <2>6. IsSimple(t.leaf)
    BY <2>2, PartedTypes DEF IsSimple
  <2>7. IsPath(t)
    BY <2>2, <2>5, <2>6 DEF IsPath
  <2> QED BY <1>6, <2>1, <2>7, TypesOfKinds DEF IsType
<1>7. kind \in ForeignKinds \/ kind \in {"Field", "JubjubScalar", "Uint", "Enum", "Boolean", "Opaque",
         "Bytes", "Hash"}
      \/ kind \in {"JubjubPoint", "Curve25519Point", "PathEntry", "CoinInfo", "Recipient"}
      \/ kind \in FlaggedKinds \/ kind = "Vector" \/ kind = "Path"
  BY KindSets DEF ByteKinds, OtherKinds, PlainKinds
<1> QED BY <1>1, <1>2, <1>3, <1>4, <1>5, <1>6, <1>7

------------------------------------------------------------------------------
(* Congruences. *)

(* Remainders.                                                              *)
LEMMA Division ==
  ASSUME NEW a \in Int, NEW m \in Nat \ {0}
  PROVE  \E q \in Int, r \in 0 .. m - 1 : a = q * m + r /\ a % m = r
<1>1. a % m \in 0 .. m - 1 /\ a \div m \in Int /\ a = (a \div m) * m + (a % m)
  OBVIOUS
<1> QED BY <1>1

(* Quotient and remainder are determined. *)
LEMMA SameRemainder ==
  ASSUME NEW m \in Nat \ {0}, NEW q \in Int, NEW r \in 0 .. m - 1, NEW u \in Int, NEW s \in 0 .. m - 1,
         q * m + r = u * m + s
  PROVE  r = s
<1>1. CASE q = u
  <2>1. PICK w \in Int : w = q * m
    OBVIOUS
  <2> QED BY <1>1, <2>1
<1>2. ASSUME NEW a \in Int, NEW b \in Int, NEW x \in 0 .. m - 1, NEW y \in 0 .. m - 1,
         a * m + x = b * m + y, a < b
      PROVE  FALSE
  <2>1. (a + 1) * m <= b * m
    <3>1. PICK d \in Nat : b = (a + 1) + d
      BY <1>2
    <3>2. b * m = (a + 1) * m + d * m
      BY <3>1
    <3>3. d * m >= 0
      OBVIOUS
    <3>4. PICK e \in Int, f \in Int : e = (a + 1) * m /\ f = d * m
      OBVIOUS
    <3> QED BY <3>2, <3>3, <3>4
  <2>2. (a + 1) * m = a * m + m
    OBVIOUS
  <2>3. PICK e \in Int, f \in Int : e = a * m /\ f = b * m
    OBVIOUS
  <2> QED BY <1>2, <2>1, <2>2, <2>3
<1>3. q = u \/ q < u \/ u < q
  OBVIOUS
<1> QED BY <1>1, <1>2, <1>3

(* What has the form of a quotient and a remainder has that remainder. *)
LEMMA RemainderIs ==
  ASSUME NEW m \in Nat \ {0}, NEW a \in Int, NEW q \in Int, NEW r \in 0 .. m - 1, a = q * m + r
  PROVE  a % m = r
<1>1. PICK u \in Int, s \in 0 .. m - 1 : a = u * m + s /\ a % m = s
  BY Division
<1>2. r = s
  BY <1>1, SameRemainder
<1> QED BY <1>1, <1>2

(* A number in range is its own remainder.                                  *)
LEMMA SmallRemainder ==
  ASSUME NEW m \in Nat \ {0}, NEW r \in 0 .. m - 1
  PROVE  r % m = r
<1>1. r = 0 * m + r /\ r \in Int
  OBVIOUS
<1>2. PICK z \in Int : z = 0
  OBVIOUS
<1>3. r = z * m + r
  BY <1>1, <1>2
<1> QED BY <1>1, <1>3, RemainderIs

(* Numbers are congruent when they differ by a multiple of m.               *)
Same(a, b, m) == \E q \in Int : a = q * m + b

(* Numbers are congruent when their remainders are equal. *)
LEMMA SameIs ==
  ASSUME NEW m \in Nat \ {0}, NEW a \in Int, NEW b \in Int
  PROVE  Same(a, b, m) <=> a % m = b % m
<1>1. PICK u \in Int, s \in 0 .. m - 1 : a = u * m + s /\ a % m = s
  BY Division
<1>2. PICK v \in Int, t \in 0 .. m - 1 : b = v * m + t /\ b % m = t
  BY Division
<1>3. ASSUME Same(a, b, m) PROVE a % m = b % m
  <2>1. PICK q \in Int : a = q * m + b
    BY <1>3 DEF Same
  <2>2. a = (q + v) * m + t
    <3>1. (q + v) * m = q * m + v * m
      OBVIOUS
    <3>2. PICK e \in Int, f \in Int : e = q * m /\ f = v * m
      OBVIOUS
    <3> QED BY <1>2, <2>1, <3>1, <3>2
  <2>3. PICK w \in Int : w = q + v
    OBVIOUS
  <2>4. a % m = t
    BY <2>2, <2>3, RemainderIs
  <2> QED BY <1>2, <2>4
<1>4. ASSUME a % m = b % m PROVE Same(a, b, m)
  <2>1. s = t
    BY <1>1, <1>2, <1>4
  <2>2. a = (u - v) * m + b
    <3>1. (u - v) * m = u * m - v * m
      OBVIOUS
    <3>2. PICK e \in Int, f \in Int : e = u * m /\ f = v * m
      OBVIOUS
    <3> QED BY <1>1, <1>2, <2>1, <3>1, <3>2
  <2>3. u - v \in Int
    OBVIOUS
  <2> QED BY <2>2, <2>3 DEF Same
<1> QED BY <1>3, <1>4

(* A number is congruent to itself and to its remainder. *)
LEMMA SameRefl ==
  ASSUME NEW m \in Nat \ {0}, NEW a \in Int
  PROVE  Same(a, a, m) /\ Same(a % m, a, m) /\ Same(a, a % m, m) /\ a % m \in 0 .. m - 1
<1>1. PICK q \in Int, r \in 0 .. m - 1 : a = q * m + r /\ a % m = r
  BY Division
<1>2. r % m = r /\ r \in Int
  BY SmallRemainder
<1>3. r % m = a % m
  BY <1>1, <1>2
<1>4. Same(a, a, m) /\ Same(r, a, m) /\ Same(a, r, m)
  BY <1>2, <1>3, SameIs
<1> QED BY <1>1, <1>4

(* Congruence is symmetric. *)
LEMMA SameSym ==
  ASSUME NEW m \in Nat \ {0}, NEW a \in Int, NEW b \in Int, Same(a, b, m)
  PROVE  Same(b, a, m)
BY SameIs

(* Congruence is transitive. *)
LEMMA SameTrans ==
  ASSUME NEW m \in Nat \ {0}, NEW a \in Int, NEW b \in Int, NEW c \in Int, Same(a, b, m), Same(b, c, m)
  PROVE  Same(a, c, m)
BY SameIs

(* Congruence is kept by sums and differences. *)
LEMMA SameSum ==
  ASSUME NEW m \in Nat \ {0}, NEW a \in Int, NEW b \in Int, NEW c \in Int, NEW d \in Int,
         Same(a, b, m), Same(c, d, m)
  PROVE  Same(a + c, b + d, m) /\ Same(a - c, b - d, m)
<1>1. PICK q \in Int, u \in Int : a = q * m + b /\ c = u * m + d
  BY DEF Same
<1>2. PICK e \in Int, f \in Int : e = q * m /\ f = u * m
  OBVIOUS
<1>3. (q + u) * m = e + f /\ (q - u) * m = e - f
  BY <1>2
<1>4. a + c = (q + u) * m + (b + d) /\ a - c = (q - u) * m + (b - d)
  BY <1>1, <1>2, <1>3
<1>5. q + u \in Int /\ q - u \in Int
  OBVIOUS
<1> QED BY <1>4, <1>5 DEF Same

(* Congruence is kept by multiples. *)
LEMMA SameProduct ==
  ASSUME NEW m \in Nat \ {0}, NEW a \in Int, NEW b \in Int, NEW c \in Int, Same(a, b, m)
  PROVE  Same(a * c, b * c, m) /\ Same(c * a, c * b, m)
<1>1. PICK q \in Int : a = q * m + b
  BY DEF Same
<1>2. a * c = (q * c) * m + b * c
  <2>1. a * c = (q * m + b) * c
    BY <1>1
  <2>2. (q * m + b) * c = (q * m) * c + b * c
    OBVIOUS
  <2>3. (q * m) * c = (q * c) * m
    OBVIOUS
  <2> QED BY <2>1, <2>2, <2>3
<1>3. c * a = a * c /\ c * b = b * c /\ q * c \in Int
  OBVIOUS
<1> QED BY <1>2, <1>3 DEF Same

(* Congruence is kept by products. *)
LEMMA SameTimes ==
  ASSUME NEW m \in Nat \ {0}, NEW a \in Int, NEW b \in Int, NEW c \in Int, NEW d \in Int,
         Same(a, b, m), Same(c, d, m)
  PROVE  Same(a * c, b * d, m)
<1>1. Same(a * c, b * c, m) /\ Same(b * c, b * d, m)
  BY SameProduct
<1>2. PICK x \in Int, y \in Int, z \in Int : x = a * c /\ y = b * c /\ z = b * d
  OBVIOUS
<1>3. Same(x, z, m)
  BY <1>1, <1>2, SameTrans
<1> QED BY <1>2, <1>3

(* Congruent numbers in range are equal.                                    *)
LEMMA SameInRange ==
  ASSUME NEW m \in Nat \ {0}, NEW a \in 0 .. m - 1, NEW b \in 0 .. m - 1, Same(a, b, m)
  PROVE  a = b
<1>1. a \in Int /\ b \in Int /\ a % m = a /\ b % m = b
  BY SmallRemainder
<1>2. a % m = b % m
  BY <1>1, SameIs
<1> QED BY <1>1, <1>2

------------------------------------------------------------------------------
(* Multiples of a point. *)

(* The multiples of a point of a Weierstrass curve, by their recursion.                  *)
WeierstrassSeg(c, P, g, n) ==
  g = [i \in 0 .. n |-> IF i = 0 THEN ZERO ELSE WeierstrassPlus(c, g[i - 1], P)]

(* The multiples of a point can be tabulated up to any number. *)
LEMMA WeierstrassSegments ==
  ASSUME NEW c, NEW P
  PROVE  \A n \in Nat : \E g : WeierstrassSeg(c, P, g, n)
<1> DEFINE S == {n \in Nat : \E g : WeierstrassSeg(c, P, g, n)}
<1>1. ASSUME NEW n \in Nat, \A k \in 0 .. n - 1 : k \in S
      PROVE  n \in S
  <2>1. CASE n = 0
    <3>1. PICK g : g = [i \in 0 .. 0 |-> ZERO]
      OBVIOUS
    <3>2. \A i \in 0 .. 0 : i = 0
      OBVIOUS
    <3>3. g = [i \in 0 .. 0 |-> IF i = 0 THEN ZERO ELSE WeierstrassPlus(c, g[i - 1], P)]
      BY <3>1, <3>2
    <3> QED BY <2>1, <3>3 DEF WeierstrassSeg
  <2>2. CASE n # 0
    <3>1. PICK k \in Nat : n = k + 1 /\ k \in 0 .. n - 1
      <4>1. n - 1 \in Nat /\ n = (n - 1) + 1 /\ n - 1 \in 0 .. n - 1
        BY <2>2
      <4> QED BY <4>1
    <3>2. PICK g : WeierstrassSeg(c, P, g, k)
      BY <1>1, <3>1
    <3> DEFINE At(f, i) == IF i = 0 THEN ZERO ELSE WeierstrassPlus(c, f[i - 1], P)
    <3>3. \A i \in 0 .. k : g[i] = At(g, i)
      BY <3>2 DEF WeierstrassSeg
    <3>4. PICK h : h = [i \in 0 .. n |-> IF i = n THEN At(g, n) ELSE g[i]]
      OBVIOUS
    <3>5. ASSUME NEW i \in 0 .. n
          PROVE  h[i] = At(h, i)
      <4>1. CASE i = 0
        <5>1. i \in 0 .. k /\ h[i] = g[i]
          BY <2>2, <3>1, <3>4, <4>1
        <5> QED BY <3>3, <4>1, <5>1
      <4>2. CASE i = n
        <5>1. i - 1 \in 0 .. n /\ i - 1 # n
          BY <3>1, <4>2
        <5>2. h[i - 1] = g[i - 1]
          BY <3>4, <5>1
        <5> QED BY <3>4, <4>2, <5>2
      <4>3. CASE i # 0 /\ i # n
        <5>1. i \in 0 .. k /\ i - 1 \in 0 .. n /\ i - 1 # n
          BY <3>1, <4>3
        <5>2. h[i] = g[i] /\ h[i - 1] = g[i - 1]
          BY <3>4, <4>3, <5>1
        <5> QED BY <3>3, <5>1, <5>2
      <4> QED BY <4>1, <4>2, <4>3
    <3> HIDE DEF At
    <3>6. h = [i \in 0 .. n |-> At(h, i)]
      BY <3>4, <3>5
    <3>7. WeierstrassSeg(c, P, h, n)
      BY <3>6 DEF WeierstrassSeg, At
    <3> QED BY <3>7
  <2> QED BY <2>1, <2>2
<1> HIDE DEF S
<1>2. \A n \in Nat : n \in S
  BY <1>1, Induction
<1> QED BY <1>2 DEF S

(* Two tables of multiples agree. *)
LEMMA WeierstrassSegmentsAgree ==
  ASSUME NEW c, NEW P, NEW n \in Nat, NEW g, NEW h, WeierstrassSeg(c, P, g, n), WeierstrassSeg(c, P, h, n + 1)
  PROVE  g[n] = h[n]
<1> DEFINE S == {i \in 0 .. n : g[i] = h[i]}
<1>1. 0 \in S
  <2>1. 0 \in 0 .. n /\ 0 \in 0 .. n + 1
    OBVIOUS
  <2>2. g[0] = ZERO /\ h[0] = ZERO
    BY <2>1 DEF WeierstrassSeg
  <2> QED BY <2>1, <2>2
<1>2. ASSUME NEW i \in 0 .. n - 1, i \in S
      PROVE  i + 1 \in S
  <2>1. PICK j : j = i + 1 /\ j \in 0 .. n /\ j \in 0 .. n + 1 /\ j # 0 /\ j - 1 = i
    OBVIOUS
  <2>2. g[j] = WeierstrassPlus(c, g[i], P) /\ h[j] = WeierstrassPlus(c, h[i], P)
    BY <2>1 DEF WeierstrassSeg
  <2> QED BY <1>2, <2>1, <2>2
<1> HIDE DEF S
<1>3. \A i \in 0 .. n : i \in S
  BY <1>1, <1>2, Upward
<1> QED BY <1>3 DEF S

(* The equations of WeierstrassTimes. *)
LEMMA WeierstrassRecursion ==
  ASSUME NEW c, NEW P
  PROVE  /\ WeierstrassTimes(c, 0, P) = ZERO
         /\ \A n \in Nat : WeierstrassTimes(c, n + 1, P) = WeierstrassPlus(c, WeierstrassTimes(c, n, P), P)
<1> DEFINE At(g, n) == IF n = 0 THEN ZERO ELSE WeierstrassPlus(c, g[n - 1], P)
           Seg(n) == CHOOSE g : WeierstrassSeg(c, P, g, n)
           f == [n \in Nat |-> Seg(n)[n]]
<1>1. \A n \in Nat : WeierstrassSeg(c, P, Seg(n), n)
  BY WeierstrassSegments
<1> HIDE DEF Seg
<1>2. ASSUME NEW n \in Nat
      PROVE  f[n] = At(f, n)
  <2>1. PICK h : h = Seg(n) /\ WeierstrassSeg(c, P, h, n)
    BY <1>1
  <2>2. h[n] = IF n = 0 THEN ZERO ELSE WeierstrassPlus(c, h[n - 1], P)
    BY <2>1 DEF WeierstrassSeg
  <2>3. CASE n = 0
    BY <2>1, <2>2, <2>3
  <2>4. CASE n # 0
    <3>1. PICK k \in Nat : n = k + 1 /\ k = n - 1
      BY <2>4
    <3>2. PICK g : g = Seg(k) /\ WeierstrassSeg(c, P, g, k)
      BY <1>1
    <3>3. g[k] = h[k]
      BY <2>1, <3>1, <3>2, WeierstrassSegmentsAgree
    <3>4. f[k] = h[k] /\ f[n] = h[n]
      BY <2>1, <3>2, <3>3
    <3> QED BY <2>2, <2>4, <3>1, <3>4
  <2> QED BY <2>3, <2>4
<1>3. f = [n \in Nat |-> At(f, n)]
  <2> HIDE DEF At
  <2>1. f = [n \in Nat |-> f[n]]
    OBVIOUS
  <2> HIDE DEF f
  <2> QED BY <1>2, <2>1
<1> HIDE DEF f
<1> DEFINE Table(g) == g = [n \in Nat |-> At(g, n)]
           times == CHOOSE g : Table(g)
<1>4. Table(times)
  BY <1>3
<1>5. \A k : WeierstrassTimes(c, k, P) = times[k]
  BY DEF WeierstrassTimes
<1> HIDE DEF times
<1>6. WeierstrassTimes(c, 0, P) = ZERO
  BY <1>4, <1>5
<1>7. ASSUME NEW n \in Nat
      PROVE  WeierstrassTimes(c, n + 1, P) = WeierstrassPlus(c, WeierstrassTimes(c, n, P), P)
  <2>1. PICK m : m = n + 1 /\ m \in Nat /\ m # 0 /\ m - 1 = n
    OBVIOUS
  <2>2. times[m] = WeierstrassPlus(c, times[n], P)
    BY <1>4, <2>1
  <2> QED BY <1>5, <2>1, <2>2
<1> QED BY <1>6, <1>7

(* The multiples of a point of an Edwards curve, by their recursion.                  *)
EdwardsSeg(c, P, g, n) ==
  g = [i \in 0 .. n |-> IF i = 0 THEN <<0, 1>> ELSE EdwardsPlus(c, g[i - 1], P)]

(* The multiples of a point of an Edwards curve can be tabulated up to any
   number. *)
LEMMA EdwardsSegments ==
  ASSUME NEW c, NEW P
  PROVE  \A n \in Nat : \E g : EdwardsSeg(c, P, g, n)
<1> DEFINE S == {n \in Nat : \E g : EdwardsSeg(c, P, g, n)}
<1>1. ASSUME NEW n \in Nat, \A k \in 0 .. n - 1 : k \in S
      PROVE  n \in S
  <2>1. CASE n = 0
    <3>1. PICK g : g = [i \in 0 .. 0 |-> <<0, 1>>]
      OBVIOUS
    <3>2. \A i \in 0 .. 0 : i = 0
      OBVIOUS
    <3>3. g = [i \in 0 .. 0 |-> IF i = 0 THEN <<0, 1>> ELSE EdwardsPlus(c, g[i - 1], P)]
      BY <3>1, <3>2
    <3> QED BY <2>1, <3>3 DEF EdwardsSeg
  <2>2. CASE n # 0
    <3>1. PICK k \in Nat : n = k + 1 /\ k \in 0 .. n - 1
      <4>1. n - 1 \in Nat /\ n = (n - 1) + 1 /\ n - 1 \in 0 .. n - 1
        BY <2>2
      <4> QED BY <4>1
    <3>2. PICK g : EdwardsSeg(c, P, g, k)
      BY <1>1, <3>1
    <3> DEFINE At(f, i) == IF i = 0 THEN <<0, 1>> ELSE EdwardsPlus(c, f[i - 1], P)
    <3>3. \A i \in 0 .. k : g[i] = At(g, i)
      BY <3>2 DEF EdwardsSeg
    <3>4. PICK h : h = [i \in 0 .. n |-> IF i = n THEN At(g, n) ELSE g[i]]
      OBVIOUS
    <3>5. ASSUME NEW i \in 0 .. n
          PROVE  h[i] = At(h, i)
      <4>1. CASE i = 0
        <5>1. i \in 0 .. k /\ h[i] = g[i]
          BY <2>2, <3>1, <3>4, <4>1
        <5> QED BY <3>3, <4>1, <5>1
      <4>2. CASE i = n
        <5>1. i - 1 \in 0 .. n /\ i - 1 # n
          BY <3>1, <4>2
        <5>2. h[i - 1] = g[i - 1]
          BY <3>4, <5>1
        <5> QED BY <3>4, <4>2, <5>2
      <4>3. CASE i # 0 /\ i # n
        <5>1. i \in 0 .. k /\ i - 1 \in 0 .. n /\ i - 1 # n
          BY <3>1, <4>3
        <5>2. h[i] = g[i] /\ h[i - 1] = g[i - 1]
          BY <3>4, <4>3, <5>1
        <5> QED BY <3>3, <5>1, <5>2
      <4> QED BY <4>1, <4>2, <4>3
    <3> HIDE DEF At
    <3>6. h = [i \in 0 .. n |-> At(h, i)]
      BY <3>4, <3>5
    <3>7. EdwardsSeg(c, P, h, n)
      BY <3>6 DEF EdwardsSeg, At
    <3> QED BY <3>7
  <2> QED BY <2>1, <2>2
<1> HIDE DEF S
<1>2. \A n \in Nat : n \in S
  BY <1>1, Induction
<1> QED BY <1>2 DEF S

(* Two tables of multiples agree. *)
LEMMA EdwardsSegmentsAgree ==
  ASSUME NEW c, NEW P, NEW n \in Nat, NEW g, NEW h, EdwardsSeg(c, P, g, n), EdwardsSeg(c, P, h, n + 1)
  PROVE  g[n] = h[n]
<1> DEFINE S == {i \in 0 .. n : g[i] = h[i]}
<1>1. 0 \in S
  <2>1. 0 \in 0 .. n /\ 0 \in 0 .. n + 1
    OBVIOUS
  <2>2. g[0] = <<0, 1>> /\ h[0] = <<0, 1>>
    BY <2>1 DEF EdwardsSeg
  <2> QED BY <2>1, <2>2
<1>2. ASSUME NEW i \in 0 .. n - 1, i \in S
      PROVE  i + 1 \in S
  <2>1. PICK j : j = i + 1 /\ j \in 0 .. n /\ j \in 0 .. n + 1 /\ j # 0 /\ j - 1 = i
    OBVIOUS
  <2>2. g[j] = EdwardsPlus(c, g[i], P) /\ h[j] = EdwardsPlus(c, h[i], P)
    BY <2>1 DEF EdwardsSeg
  <2> QED BY <1>2, <2>1, <2>2
<1> HIDE DEF S
<1>3. \A i \in 0 .. n : i \in S
  BY <1>1, <1>2, Upward
<1> QED BY <1>3 DEF S

(* The equations of EdwardsTimes. *)
LEMMA EdwardsRecursion ==
  ASSUME NEW c, NEW P
  PROVE  /\ EdwardsTimes(c, 0, P) = <<0, 1>>
         /\ \A n \in Nat : EdwardsTimes(c, n + 1, P) = EdwardsPlus(c, EdwardsTimes(c, n, P), P)
<1> DEFINE At(g, n) == IF n = 0 THEN <<0, 1>> ELSE EdwardsPlus(c, g[n - 1], P)
           Seg(n) == CHOOSE g : EdwardsSeg(c, P, g, n)
           f == [n \in Nat |-> Seg(n)[n]]
<1>1. \A n \in Nat : EdwardsSeg(c, P, Seg(n), n)
  BY EdwardsSegments
<1> HIDE DEF Seg
<1>2. ASSUME NEW n \in Nat
      PROVE  f[n] = At(f, n)
  <2>1. PICK h : h = Seg(n) /\ EdwardsSeg(c, P, h, n)
    BY <1>1
  <2>2. h[n] = IF n = 0 THEN <<0, 1>> ELSE EdwardsPlus(c, h[n - 1], P)
    BY <2>1 DEF EdwardsSeg
  <2>3. CASE n = 0
    BY <2>1, <2>2, <2>3
  <2>4. CASE n # 0
    <3>1. PICK k \in Nat : n = k + 1 /\ k = n - 1
      BY <2>4
    <3>2. PICK g : g = Seg(k) /\ EdwardsSeg(c, P, g, k)
      BY <1>1
    <3>3. g[k] = h[k]
      BY <2>1, <3>1, <3>2, EdwardsSegmentsAgree
    <3>4. f[k] = h[k] /\ f[n] = h[n]
      BY <2>1, <3>2, <3>3
    <3> QED BY <2>2, <2>4, <3>1, <3>4
  <2> QED BY <2>3, <2>4
<1>3. f = [n \in Nat |-> At(f, n)]
  <2> HIDE DEF At
  <2>1. f = [n \in Nat |-> f[n]]
    OBVIOUS
  <2> HIDE DEF f
  <2> QED BY <1>2, <2>1
<1> HIDE DEF f
<1> DEFINE Table(g) == g = [n \in Nat |-> At(g, n)]
           times == CHOOSE g : Table(g)
<1>4. Table(times)
  BY <1>3
<1>5. \A k : EdwardsTimes(c, k, P) = times[k]
  BY DEF EdwardsTimes
<1> HIDE DEF times
<1>6. EdwardsTimes(c, 0, P) = <<0, 1>>
  BY <1>4, <1>5
<1>7. ASSUME NEW n \in Nat
      PROVE  EdwardsTimes(c, n + 1, P) = EdwardsPlus(c, EdwardsTimes(c, n, P), P)
  <2>1. PICK m : m = n + 1 /\ m \in Nat /\ m # 0 /\ m - 1 = n
    OBVIOUS
  <2>2. times[m] = EdwardsPlus(c, times[n], P)
    BY <1>4, <2>1
  <2> QED BY <1>5, <2>1, <2>2
<1> QED BY <1>6, <1>7

------------------------------------------------------------------------------
(* The secp curves. *)

(* The field and the order of a curve are numbers greater than four. *)
LEMMA CurveTypes ==
  ASSUME NEW c \in {K1, R1, C25519, Jubjub}
  PROVE  c.p \in Nat /\ c.p > 4 /\ c.order \in Nat /\ c.order > 4
<1>1. {c.p, c.order} \subseteq Nat \ 0 .. 4
  BY CurvesAssumption
<1> QED BY <1>1

(* The multiples of the generator of a secp curve.                          *)
WMul(c, k) == WeierstrassTimes(c, k, Lift(c.gen[1], c.gen[2]))

(* The group of a secp curve, in terms of the multiples of its generator. *)
LEMMA SecpGroup ==
  ASSUME NEW c \in {K1, R1}
  PROVE  /\ WMul(c, 0) = ZERO
         /\ \A k \in 1 .. c.order - 1 : WMul(c, k) \in WeierstrassPoints(c)
         /\ \A P \in WeierstrassPoints(c) : \E k \in 1 .. c.order - 1 : P = WMul(c, k)
         /\ \A j, k \in 0 .. c.order - 1 : WeierstrassPlus(c, WMul(c, j), WMul(c, k)) = WMul(c,
                  (j + k) % c.order)
<1>1. IsWeierstrassGroup(c)
  BY CurvesAssumption
<1>2. /\ {WMul(c, k) : k \in 1 .. c.order - 1} = WeierstrassPoints(c)
      /\ \A j, k \in 0 .. c.order - 1 : WeierstrassPlus(c, WMul(c, j), WMul(c, k)) = WMul(c,
               (j + k) % c.order)
  BY <1>1 DEF IsWeierstrassGroup, WMul
<1>3. WMul(c, 0) = ZERO
  BY WeierstrassRecursion DEF WMul
<1> QED BY <1>2, <1>3

(* The coordinates of a point; the pair of zeros is not one.                *)
LEMMA SecpPoint ==
  ASSUME NEW c \in {K1, R1}, NEW P \in WeierstrassPoints(c)
  PROVE  \E x, y \in 0 .. c.p - 1 :
           /\ P = Lift(x, y) /\ P = <<x, y, 1>> /\ OnWeierstrass(c, x, y)
           /\ <<x, y>> # <<0, 0>> /\ P # ZERO /\ ToAffine(P) = <<x, y>>
<1>1. PICK x \in 0 .. c.p - 1, y \in 0 .. c.p - 1 : P = Lift(x, y) /\ OnWeierstrass(c, P[1], P[2])
  BY DEF WeierstrassPoints
<1>2. P = <<x, y, 1>> /\ P[1] = x /\ P[2] = y
  BY <1>1 DEF Lift
<1>3. OnWeierstrass(c, x, y)
  BY <1>1, <1>2
<1>4. P # ZERO
  BY <1>2 DEF ZERO
<1>5. <<x, y>> # <<0, 0>>
  <2>1. SUFFICES ASSUME x = 0, y = 0 PROVE FALSE
    OBVIOUS
  <2>2. PICK p \in Nat, a \in Int, b \in Int : p = c.p /\ a = c.a /\ b = c.b
    <3>1. {c.a, c.b} \subseteq Int
      BY CurvesAssumption
    <3> QED BY <3>1, CurveTypes
  <2>3. b % p # 0 /\ p > 4
    <3>1. c.b % c.p # 0
      BY CurvesAssumption
    <3> QED BY <2>2, <3>1, CurveTypes
  <2>4. (0 * 0) % p = (0 * 0 * 0 + a * 0 + b) % p
    BY <1>3, <2>1, <2>2 DEF OnWeierstrass
  <2>5. 0 * 0 = 0 /\ 0 * 0 * 0 + a * 0 + b = b
    OBVIOUS
  <2>6. 0 % p = 0
    BY <2>3
  <2> QED BY <2>3, <2>4, <2>5, <2>6
<1>6. ToAffine(P) = <<x, y>>
  BY <1>2, <1>4 DEF ToAffine
<1> QED BY <1>1, <1>2, <1>3, <1>4, <1>5, <1>6

(* A multiple of a multiple.                                                *)
LEMMA ProductStep ==
  ASSUME NEW m \in Nat \ {0}, NEW k \in Nat, NEW e \in 0 .. m - 1
  PROVE  (((k * e) % m) + e) % m = ((k + 1) * e) % m
<1>1. PICK x \in Int, y \in Int, z \in Int : x = k * e /\ y = x % m /\ z = (k + 1) * e /\ y \in 0 .. m - 1
  <2>1. k * e \in Int /\ (k + 1) * e \in Int
    OBVIOUS
  <2>2. PICK x \in Int : x = k * e
    BY <2>1
  <2>3. x % m \in 0 .. m - 1
    BY SameRefl
  <2> QED BY <2>1, <2>2, <2>3
<1>2. z = x + e
  <2>1. (k + 1) * e = k * e + e
    OBVIOUS
  <2> QED BY <1>1, <2>1
<1>3. Same(y, x, m) /\ Same(e, e, m)
  BY <1>1, SameRefl
<1>4. Same(y + e, x + e, m)
  BY <1>3, SameSum
<1>5. PICK u \in Int : u = y + e
  OBVIOUS
<1>6. u % m = z % m
  BY <1>2, <1>4, <1>5, SameIs
<1> QED BY <1>1, <1>5, <1>6

(* A multiple of a multiple of the generator. *)
LEMMA SecpTimes ==
  ASSUME NEW c \in {K1, R1}, NEW e \in 0 .. c.order - 1
  PROVE  \A k \in Nat : WeierstrassTimes(c, k, WMul(c, e)) = WMul(c, (k * e) % c.order)
<1>1. PICK m \in Nat \ {0} : m = c.order
  <2>1. c.order \in Nat /\ c.order > 4
    BY CurveTypes
  <2> QED BY <2>1
<1>2. PICK P : P = WMul(c, e)
  OBVIOUS
<1> DEFINE S == {k \in Nat : WeierstrassTimes(c, k, P) = WMul(c, (k * e) % m)}
<1>3. WeierstrassTimes(c, 0, P) = ZERO /\ \A n \in Nat : WeierstrassTimes(c, n + 1,
         P) = WeierstrassPlus(c, WeierstrassTimes(c, n, P), P)
  BY WeierstrassRecursion
<1>4. ASSUME NEW n \in Nat, \A k \in 0 .. n - 1 : k \in S
      PROVE  n \in S
  <2>1. CASE n = 0
    <3>1. n * e = 0 /\ 0 % m = 0
      BY <2>1
    <3>2. WMul(c, 0) = ZERO
      BY SecpGroup
    <3> QED BY <1>3, <2>1, <3>1, <3>2
  <2>2. CASE n # 0
    <3>1. PICK k \in Nat : n = k + 1 /\ k \in 0 .. n - 1
      <4>1. n - 1 \in Nat /\ n = (n - 1) + 1 /\ n - 1 \in 0 .. n - 1
        BY <2>2
      <4> QED BY <4>1
    <3>2. WeierstrassTimes(c, k, P) = WMul(c, (k * e) % m)
      BY <1>4, <3>1
    <3>3. PICK x \in Int : x = k * e
      OBVIOUS
    <3>4. PICK y \in 0 .. m - 1 : y = (k * e) % m
      BY <3>3, SameRefl
    <3>5. WeierstrassPlus(c, WMul(c, y), WMul(c, e)) = WMul(c, (y + e) % m)
      <4>1. y \in 0 .. c.order - 1 /\ e \in 0 .. c.order - 1
        BY <1>1
      <4>2. \A i, j \in 0 .. c.order - 1 :
               WeierstrassPlus(c, WMul(c, i), WMul(c, j)) = WMul(c, (i + j) % c.order)
        BY SecpGroup
      <4>3. WeierstrassPlus(c, WMul(c, y), WMul(c, e)) = WMul(c, (y + e) % c.order)
        BY <4>1, <4>2
      <4> QED BY <1>1, <4>3
    <3>6. (y + e) % m = (n * e) % m
      <4>1. e \in 0 .. m - 1
        BY <1>1
      <4>2. (((k * e) % m) + e) % m = ((k + 1) * e) % m
        BY <4>1, ProductStep
      <4>3. (y + e) % m = ((k + 1) * e) % m
        BY <3>4, <4>2
      <4> QED BY <3>1, <4>3
    <3>7. WeierstrassTimes(c, n, P) = WeierstrassPlus(c, WMul(c, y), WMul(c, e))
      BY <1>2, <1>3, <3>1, <3>2, <3>4
    <3> QED BY <3>5, <3>6, <3>7
  <2> QED BY <2>1, <2>2
<1> HIDE DEF S
<1>5. \A n \in Nat : n \in S
  BY <1>4, Induction
<1>6. \A k \in Nat : WeierstrassTimes(c, k, P) = WMul(c, (k * e) % m)
  BY <1>5 DEF S
<1> QED BY <1>1, <1>2, <1>6

(* The points of the runtime.                                               *)
Flagged(P) == [x |-> ToAffine(P)[1], y |-> ToAffine(P)[2], identity |-> P = ZERO]

(* The two conversions of the runtime, for any secp curve. *)
WFrom(P) == [x |-> ToAffine(P)[1], y |-> ToAffine(P)[2], identity |-> ToAffine(P) = <<0, 0>>]

WTo(p) == IF p.identity THEN ZERO ELSE Lift(p.x, p.y)

(* Points with coordinates in the range of the field. *)
SecpRange(c) == [x : 0 .. c.p - 1, y : 0 .. c.p - 1, identity : BOOLEAN]

(* A point of the runtime that stands for a multiple of the generator.      *)
StandsFor(c, x, k) ==
  /\ x \in SecpRange(c) /\ k \in 0 .. c.order - 1
  /\ \/ x.identity = TRUE /\ k = 0
     \/ x = Flagged(WMul(c, k)) /\ x.identity = FALSE

(* The runtime's record of a multiple: the flag is set for the zero only,
   and the record converts back. *)
LEMMA FlaggedMultiple ==
  ASSUME NEW c \in {K1, R1}, NEW k \in 0 .. c.order - 1
  PROVE  /\ WFrom(WMul(c, k)) = Flagged(WMul(c, k))
         /\ Flagged(WMul(c, k)) \in SecpRange(c)
         /\ Flagged(WMul(c, k)).identity = (k = 0)
         /\ WTo(Flagged(WMul(c, k))) = WMul(c, k)
<1>1. PICK P : P = WMul(c, k)
  OBVIOUS
<1>2. PICK p \in Nat, o \in Nat : p = c.p /\ o = c.order /\ p > 4
  BY CurveTypes
<1>3. CASE k = 0
  <2>1. P = ZERO
    BY <1>1, <1>3, SecpGroup
  <2>2. ToAffine(P) = <<0, 0>> /\ ToAffine(P)[1] = 0 /\ ToAffine(P)[2] = 0
    BY <2>1 DEF ToAffine
  <2>3. Flagged(P) = [x |-> 0, y |-> 0, identity |-> TRUE] /\ WFrom(P) = [x |-> 0, y |-> 0, identity |-> TRUE]
    BY <2>1, <2>2 DEF Flagged, WFrom
  <2>4. 0 \in 0 .. c.p - 1
    BY <1>2
  <2>5. Flagged(P) \in SecpRange(c)
    BY <2>3, <2>4 DEF SecpRange
  <2>6. Flagged(P).identity = TRUE
    BY <2>3
  <2>7. WTo(Flagged(P)) = P
    BY <2>1, <2>6 DEF WTo
  <2>8. (k = 0) = TRUE
    BY <1>3
  <2> QED BY <1>1, <2>3, <2>5, <2>6, <2>7, <2>8
<1>4. CASE k # 0
  <2>1. k \in 1 .. c.order - 1
    BY <1>2, <1>4
  <2>2. P \in WeierstrassPoints(c)
    BY <1>1, <2>1, SecpGroup
  <2>3. PICK x \in 0 .. c.p - 1, y \in 0 .. c.p - 1 :
           P = Lift(x, y) /\ <<x, y>> # <<0, 0>> /\ P # ZERO /\ ToAffine(P) = <<x, y>>
    BY <2>2, SecpPoint
  <2>4. PICK A : A = ToAffine(P) /\ A[1] = x /\ A[2] = y /\ A # <<0, 0>>
    BY <2>3
  <2>5. (P = ZERO) = FALSE /\ (ToAffine(P) = <<0, 0>>) = FALSE /\ (k = 0) = FALSE
    BY <1>4, <2>3, <2>4
  <2>6. Flagged(P) = [x |-> x, y |-> y, identity |-> FALSE] /\ WFrom(P) = [x |-> x, y |-> y,
           identity |-> FALSE]
    BY <2>4, <2>5 DEF Flagged, WFrom
  <2>7. Flagged(P) \in SecpRange(c)
    BY <2>6 DEF SecpRange
  <2>8. PICK f : f = Flagged(P) /\ f.x = x /\ f.y = y /\ f.identity = FALSE
    BY <2>6
  <2>9. WTo(f) = P
    BY <2>3, <2>8 DEF WTo
  <2> QED BY <1>1, <2>5, <2>6, <2>7, <2>8, <2>9
<1> QED BY <1>3, <1>4

(* What stands for a multiple converts to it. *)
LEMMA StandsToProjective ==
  ASSUME NEW c \in {K1, R1}, NEW x, NEW k, StandsFor(c, x, k)
  PROVE  WTo(x) = WMul(c, k)
<1>1. k \in 0 .. c.order - 1
  BY DEF StandsFor
<1>2. CASE x.identity = TRUE /\ k = 0
  BY <1>2, SecpGroup DEF WTo
<1>3. CASE x = Flagged(WMul(c, k))
  BY <1>1, <1>3, FlaggedMultiple
<1> QED BY <1>2, <1>3 DEF StandsFor

(* What the library returns stands for its multiple.                        *)
LEMMA StandsFromProjective ==
  ASSUME NEW c \in {K1, R1}, NEW k \in 0 .. c.order - 1, NEW x, x = WFrom(WMul(c, k))
  PROVE  StandsFor(c, x, k)
<1>1. PICK f : /\ f = Flagged(WMul(c, k)) /\ x = f /\ f \in SecpRange(c)
               /\ f.identity = (k = 0)
  BY FlaggedMultiple
<1>2. CASE k = 0
  BY <1>1, <1>2 DEF StandsFor
<1>3. CASE k # 0
  BY <1>1, <1>3 DEF StandsFor
<1> QED BY <1>2, <1>3

(* The runtime's sum of points stands for the sum. *)
LEMMA SecpPlus ==
  ASSUME NEW c \in {K1, R1}, NEW a, NEW j, StandsFor(c, a, j), NEW b, NEW k, StandsFor(c, b, k)
  PROVE  StandsFor(c, WFrom(WeierstrassPlus(c, WTo(a), WTo(b))), (j + k) % c.order)
<1>1. j \in 0 .. c.order - 1 /\ k \in 0 .. c.order - 1
  BY DEF StandsFor
<1>2. WTo(a) = WMul(c, j) /\ WTo(b) = WMul(c, k)
  BY StandsToProjective
<1>3. PICK m \in Nat \ {0} : m = c.order
  <2>1. c.order \in Nat /\ c.order > 4
    BY CurveTypes
  <2> QED BY <2>1
<1>4. PICK s \in Int : s = j + k
  BY <1>1
<1>5. PICK r \in 0 .. c.order - 1 : r = (j + k) % c.order
  BY <1>3, <1>4, SameRefl
<1>6. WeierstrassPlus(c, WTo(a), WTo(b)) = WMul(c, r)
  BY <1>1, <1>2, <1>5, SecpGroup
<1>7. PICK x : x = WFrom(WMul(c, r))
  OBVIOUS
<1>8. StandsFor(c, x, r)
  BY <1>7, StandsFromProjective
<1> QED BY <1>5, <1>6, <1>7, <1>8

(* The runtime's multiple of a point stands for the multiple. *)
LEMMA SecpMultiple ==
  ASSUME NEW c \in {K1, R1}, NEW a, NEW j, StandsFor(c, a, j), NEW k \in Nat
  PROVE  StandsFor(c, WFrom(WeierstrassTimes(c, k, WTo(a))), (k * j) % c.order)
<1>1. j \in 0 .. c.order - 1
  BY DEF StandsFor
<1>2. WTo(a) = WMul(c, j)
  BY StandsToProjective
<1>3. PICK m \in Nat \ {0} : m = c.order
  <2>1. c.order \in Nat /\ c.order > 4
    BY CurveTypes
  <2> QED BY <2>1
<1>4. PICK s \in Int : s = k * j
  <2>1. j \in Int
    BY <1>1
  <2> QED BY <2>1
<1>5. PICK r \in 0 .. c.order - 1 : r = (k * j) % c.order
  BY <1>3, <1>4, SameRefl
<1>6. WeierstrassTimes(c, k, WTo(a)) = WMul(c, r)
  BY <1>1, <1>2, <1>5, SecpTimes
<1>7. PICK x : x = WFrom(WMul(c, r))
  OBVIOUS
<1>8. StandsFor(c, x, r)
  BY <1>7, StandsFromProjective
<1> QED BY <1>5, <1>6, <1>7, <1>8

(* The runtime's multiple of the generator stands for the multiple. *)
LEMMA SecpGenerated ==
  ASSUME NEW c \in {K1, R1}, NEW k \in 0 .. c.order - 1
  PROVE  StandsFor(c, WFrom(WMul(c, k)), k)
<1>1. PICK x : x = WFrom(WMul(c, k))
  OBVIOUS
<1> QED BY <1>1, StandsFromProjective

------------------------------------------------------------------------------
(* The built-ins of the two secp curves. *)

(* The copies of the group's operators that the instance for Secp256k1 makes.      *)
LEMMA Secp256k1Groups ==
  /\ Secp256k1!ZERO = ZERO
  /\ \A x, y : Secp256k1!Lift(x, y) = Lift(x, y)
  /\ \A P : Secp256k1!ToAffine(P) = ToAffine(P)
  /\ \A x, p : Secp256k1!InverseMod(x, p) = InverseMod(x, p)
  /\ \A c, x, y : Secp256k1!OnWeierstrass(c, x, y) = OnWeierstrass(c, x, y)
  /\ \A c, P, Q : Secp256k1!WeierstrassPlus(c, P, Q) = WeierstrassPlus(c, P, Q)
  /\ \A c, k, P : Secp256k1!WeierstrassTimes(c, k, P) = WeierstrassTimes(c, k, P)
<1>1. Secp256k1!ZERO = ZERO
  BY DEF Secp256k1!ZERO, ZERO
<1>2. \A x, y : Secp256k1!Lift(x, y) = Lift(x, y)
  BY DEF Secp256k1!Lift, Lift
<1>3. \A P : Secp256k1!ToAffine(P) = ToAffine(P)
  BY DEF Secp256k1!ToAffine, ToAffine, ZERO, Secp256k1!ZERO
<1>4. \A x, p : Secp256k1!InverseMod(x, p) = InverseMod(x, p)
  BY DEF Secp256k1!InverseMod, InverseMod
<1>5. \A c, x, y : Secp256k1!OnWeierstrass(c, x, y) = OnWeierstrass(c, x, y)
  BY DEF Secp256k1!OnWeierstrass, OnWeierstrass
<1>6. \A c, P, Q : Secp256k1!WeierstrassPlus(c, P, Q) = WeierstrassPlus(c, P, Q)
  BY DEF Secp256k1!WeierstrassPlus, WeierstrassPlus, ZERO, Secp256k1!ZERO, Lift, Secp256k1!Lift,
           InverseMod, Secp256k1!InverseMod
<1>7. \A c, k, P : Secp256k1!WeierstrassTimes(c, k, P) = WeierstrassTimes(c, k, P)
  BY DEF Secp256k1!WeierstrassTimes, WeierstrassTimes, Secp256k1!WeierstrassPlus, WeierstrassPlus,
         ZERO, Secp256k1!ZERO, Lift, Secp256k1!Lift, InverseMod, Secp256k1!InverseMod
<1> QED BY <1>1, <1>2, <1>3, <1>4, <1>5, <1>6, <1>7

(* The built-ins of Secp256k1 in terms of the group.                               *)
LEMMA Secp256k1BuiltIns ==
  /\ \A P : Secp256k1!FromProjective(P) = WFrom(P)
  /\ \A p : Secp256k1!ToProjective(p) = WTo(p)
  /\ \A a, b : Secp256k1!PlusPoint(a, b) = WFrom(WeierstrassPlus(K1, WTo(a), WTo(b)))
  /\ \A a, k : Secp256k1!TimesPoint(a, k) = WFrom(WeierstrassTimes(K1, k, WTo(a)))
  /\ \A k : Secp256k1!MulGenerator(k) = WFrom(WMul(K1, k))
<1>1. \A P : Secp256k1!FromProjective(P) = WFrom(P)
  BY Secp256k1Groups DEF Secp256k1!FromProjective, WFrom
<1>2. \A p : Secp256k1!ToProjective(p) = WTo(p)
  BY Secp256k1Groups DEF Secp256k1!ToProjective, WTo
<1>3. \A a, b : Secp256k1!PlusPoint(a, b) = WFrom(WeierstrassPlus(K1, WTo(a), WTo(b)))
  BY <1>1, <1>2, Secp256k1Groups DEF Secp256k1!PlusPoint
<1>4. \A a, k : Secp256k1!TimesPoint(a, k) = WFrom(WeierstrassTimes(K1, k, WTo(a)))
  BY <1>1, <1>2, Secp256k1Groups DEF Secp256k1!TimesPoint
<1>5. \A k : Secp256k1!MulGenerator(k) = WFrom(WMul(K1, k))
  BY <1>1, Secp256k1Groups DEF Secp256k1!MulGenerator, WMul
<1> QED BY <1>1, <1>2, <1>3, <1>4, <1>5

(* Every built-in of Secp256k1 returns a point that stands for the multiple that   *)
(* the group's law gives.                                                   *)
LEMMA Secp256k1Points ==
  ASSUME NEW a, NEW j, StandsFor(K1, a, j), NEW k \in 0 .. K1.order - 1
  PROVE  /\ StandsFor(K1, Secp256k1!PlusPoint(a, Secp256k1!MulGenerator(k)), (j + k) % K1.order)
         /\ StandsFor(K1, Secp256k1!TimesPoint(a, k), (j * k) % K1.order)
<1>1. PICK c \in {K1, R1} : c = K1
  OBVIOUS
<1>2. PICK b : b = Secp256k1!MulGenerator(k)
  OBVIOUS
<1>3. StandsFor(c, b, k)
  <2>1. b = WFrom(WMul(c, k))
    BY <1>1, <1>2, Secp256k1BuiltIns
  <2> QED BY <1>1, <2>1, SecpGenerated
<1>4. StandsFor(c, WFrom(WeierstrassPlus(c, WTo(a), WTo(b))), (j + k) % c.order)
  BY <1>1, <1>3, SecpPlus
<1>5. k \in Nat /\ j * k = k * j
  <2>1. k \in Nat
    BY <1>1, CurveTypes
  <2>2. j \in Nat
    BY <1>1, CurveTypes DEF StandsFor
  <2> QED BY <2>1, <2>2
<1>6. StandsFor(c, WFrom(WeierstrassTimes(c, k, WTo(a))), (k * j) % c.order)
  BY <1>1, <1>5, SecpMultiple
<1>7. Secp256k1!PlusPoint(a, b) = WFrom(WeierstrassPlus(c, WTo(a), WTo(b)))
  BY <1>1, Secp256k1BuiltIns
<1>8. Secp256k1!TimesPoint(a, k) = WFrom(WeierstrassTimes(c, k, WTo(a)))
  BY <1>1, Secp256k1BuiltIns
<1>9. StandsFor(c, Secp256k1!PlusPoint(a, b), (j + k) % c.order)
  BY <1>4, <1>7
<1>10. StandsFor(c, Secp256k1!TimesPoint(a, k), (j * k) % c.order)
  BY <1>5, <1>6, <1>8
<1> QED BY <1>1, <1>2, <1>9, <1>10

(* The same for the built-in of secp256k1. *)
LEMMA Secp256k1Generated ==
  ASSUME NEW k \in 0 .. K1.order - 1
  PROVE  StandsFor(K1, Secp256k1!MulGenerator(k), k)
<1>1. Secp256k1!MulGenerator(k) = WFrom(WMul(K1, k))
  BY Secp256k1BuiltIns
<1>2. PICK c \in {K1, R1} : c = K1
  OBVIOUS
<1>3. StandsFor(c, WFrom(WMul(c, k)), k)
  BY <1>2, SecpGenerated
<1> QED BY <1>1, <1>2, <1>3

(* The copies of the group's operators that the instance for Secp256r1 makes.      *)
LEMMA Secp256r1Groups ==
  /\ Secp256r1!ZERO = ZERO
  /\ \A x, y : Secp256r1!Lift(x, y) = Lift(x, y)
  /\ \A P : Secp256r1!ToAffine(P) = ToAffine(P)
  /\ \A x, p : Secp256r1!InverseMod(x, p) = InverseMod(x, p)
  /\ \A c, x, y : Secp256r1!OnWeierstrass(c, x, y) = OnWeierstrass(c, x, y)
  /\ \A c, P, Q : Secp256r1!WeierstrassPlus(c, P, Q) = WeierstrassPlus(c, P, Q)
  /\ \A c, k, P : Secp256r1!WeierstrassTimes(c, k, P) = WeierstrassTimes(c, k, P)
<1>1. Secp256r1!ZERO = ZERO
  BY DEF Secp256r1!ZERO, ZERO
<1>2. \A x, y : Secp256r1!Lift(x, y) = Lift(x, y)
  BY DEF Secp256r1!Lift, Lift
<1>3. \A P : Secp256r1!ToAffine(P) = ToAffine(P)
  BY DEF Secp256r1!ToAffine, ToAffine, ZERO, Secp256r1!ZERO
<1>4. \A x, p : Secp256r1!InverseMod(x, p) = InverseMod(x, p)
  BY DEF Secp256r1!InverseMod, InverseMod
<1>5. \A c, x, y : Secp256r1!OnWeierstrass(c, x, y) = OnWeierstrass(c, x, y)
  BY DEF Secp256r1!OnWeierstrass, OnWeierstrass
<1>6. \A c, P, Q : Secp256r1!WeierstrassPlus(c, P, Q) = WeierstrassPlus(c, P, Q)
  BY DEF Secp256r1!WeierstrassPlus, WeierstrassPlus, ZERO, Secp256r1!ZERO, Lift, Secp256r1!Lift,
           InverseMod, Secp256r1!InverseMod
<1>7. \A c, k, P : Secp256r1!WeierstrassTimes(c, k, P) = WeierstrassTimes(c, k, P)
  BY DEF Secp256r1!WeierstrassTimes, WeierstrassTimes, Secp256r1!WeierstrassPlus, WeierstrassPlus,
         ZERO, Secp256r1!ZERO, Lift, Secp256r1!Lift, InverseMod, Secp256r1!InverseMod
<1> QED BY <1>1, <1>2, <1>3, <1>4, <1>5, <1>6, <1>7

(* The built-ins of Secp256r1 in terms of the group.                               *)
LEMMA Secp256r1BuiltIns ==
  /\ \A P : Secp256r1!FromProjective(P) = WFrom(P)
  /\ \A p : Secp256r1!ToProjective(p) = WTo(p)
  /\ \A a, b : Secp256r1!PlusPoint(a, b) = WFrom(WeierstrassPlus(R1, WTo(a), WTo(b)))
  /\ \A a, k : Secp256r1!TimesPoint(a, k) = WFrom(WeierstrassTimes(R1, k, WTo(a)))
  /\ \A k : Secp256r1!MulGenerator(k) = WFrom(WMul(R1, k))
<1>1. \A P : Secp256r1!FromProjective(P) = WFrom(P)
  BY Secp256r1Groups DEF Secp256r1!FromProjective, WFrom
<1>2. \A p : Secp256r1!ToProjective(p) = WTo(p)
  BY Secp256r1Groups DEF Secp256r1!ToProjective, WTo
<1>3. \A a, b : Secp256r1!PlusPoint(a, b) = WFrom(WeierstrassPlus(R1, WTo(a), WTo(b)))
  BY <1>1, <1>2, Secp256r1Groups DEF Secp256r1!PlusPoint
<1>4. \A a, k : Secp256r1!TimesPoint(a, k) = WFrom(WeierstrassTimes(R1, k, WTo(a)))
  BY <1>1, <1>2, Secp256r1Groups DEF Secp256r1!TimesPoint
<1>5. \A k : Secp256r1!MulGenerator(k) = WFrom(WMul(R1, k))
  BY <1>1, Secp256r1Groups DEF Secp256r1!MulGenerator, WMul
<1> QED BY <1>1, <1>2, <1>3, <1>4, <1>5

(* Every built-in of Secp256r1 returns a point that stands for the multiple that   *)
(* the group's law gives.                                                   *)
LEMMA Secp256r1Points ==
  ASSUME NEW a, NEW j, StandsFor(R1, a, j), NEW k \in 0 .. R1.order - 1
  PROVE  /\ StandsFor(R1, Secp256r1!PlusPoint(a, Secp256r1!MulGenerator(k)), (j + k) % R1.order)
         /\ StandsFor(R1, Secp256r1!TimesPoint(a, k), (j * k) % R1.order)
<1>1. PICK c \in {K1, R1} : c = R1
  OBVIOUS
<1>2. PICK b : b = Secp256r1!MulGenerator(k)
  OBVIOUS
<1>3. StandsFor(c, b, k)
  <2>1. b = WFrom(WMul(c, k))
    BY <1>1, <1>2, Secp256r1BuiltIns
  <2> QED BY <1>1, <2>1, SecpGenerated
<1>4. StandsFor(c, WFrom(WeierstrassPlus(c, WTo(a), WTo(b))), (j + k) % c.order)
  BY <1>1, <1>3, SecpPlus
<1>5. k \in Nat /\ j * k = k * j
  <2>1. k \in Nat
    BY <1>1, CurveTypes
  <2>2. j \in Nat
    BY <1>1, CurveTypes DEF StandsFor
  <2> QED BY <2>1, <2>2
<1>6. StandsFor(c, WFrom(WeierstrassTimes(c, k, WTo(a))), (k * j) % c.order)
  BY <1>1, <1>5, SecpMultiple
<1>7. Secp256r1!PlusPoint(a, b) = WFrom(WeierstrassPlus(c, WTo(a), WTo(b)))
  BY <1>1, Secp256r1BuiltIns
<1>8. Secp256r1!TimesPoint(a, k) = WFrom(WeierstrassTimes(c, k, WTo(a)))
  BY <1>1, Secp256r1BuiltIns
<1>9. StandsFor(c, Secp256r1!PlusPoint(a, b), (j + k) % c.order)
  BY <1>4, <1>7
<1>10. StandsFor(c, Secp256r1!TimesPoint(a, k), (j * k) % c.order)
  BY <1>5, <1>6, <1>8
<1> QED BY <1>1, <1>2, <1>9, <1>10

(* The same for the built-in of secp256r1. *)
LEMMA Secp256r1Generated ==
  ASSUME NEW k \in 0 .. R1.order - 1
  PROVE  StandsFor(R1, Secp256r1!MulGenerator(k), k)
<1>1. Secp256r1!MulGenerator(k) = WFrom(WMul(R1, k))
  BY Secp256r1BuiltIns
<1>2. PICK c \in {K1, R1} : c = R1
  OBVIOUS
<1>3. StandsFor(c, WFrom(WMul(c, k)), k)
  BY <1>2, SecpGenerated
<1> QED BY <1>1, <1>2, <1>3

------------------------------------------------------------------------------
(* The Edwards curves. *)

(* Two sequences of one element.                                            *)
LEMMA TwoConcat ==
  ASSUME NEW a, NEW b
  PROVE  <<a>> \o <<b>> = <<a, b>>
<1>1. PICK S : S = {a, b}
  OBVIOUS
<1>2. PICK c \in Seq(S), d \in Seq(S) : c = <<a>> /\ d = <<b>>
  <2>1. <<a>> \in Seq(S) /\ <<b>> \in Seq(S)
    BY <1>1
  <2> QED BY <2>1
<1>3. c \o d \in Seq(S) /\ Len(c \o d) = 2 /\ (c \o d)[1] = a /\ (c \o d)[2] = b
  BY <1>2
<1>4. PICK s \in Seq(S) : s = c \o d /\ Len(s) = 2 /\ s[1] = a /\ s[2] = b
  BY <1>3
<1>5. PICK u \in Seq(S) : u = <<a, b>> /\ Len(u) = 2 /\ u[1] = a /\ u[2] = b
  <2>1. <<a, b>> \in Seq(S)
    BY <1>1
  <2> QED BY <2>1
<1>6. s = u
  <2>1. \A i \in 1 .. 2 : s[i] = u[i]
    BY <1>4, <1>5
  <2> QED BY <1>4, <1>5, <2>1, SeqEqual
<1> QED BY <1>2, <1>4, <1>5, <1>6

(* A point comes back from the on-chain runtime as it was given.            *)
LEMMA JubjubReads ==
  ASSUME NEW x \in 0 .. MAX_FIELD, NEW y \in 0 .. MAX_FIELD
  PROVE  JubjubFromRuntime(<<x, y>>) = [x |-> x, y |-> y]
<1>1. PICK t : t = CompactTypeJubjubPoint
  OBVIOUS
<1>2. PICK v : v = [x |-> x, y |-> y]
  OBVIOUS
<1>3. IsSimple(t) /\ t.tag = "Point"
  BY <1>1, PartedTypes DEF CompactTypeJubjubPoint
<1>4. v \in SimpleRange(t)
  <2>1. t.parts[1] = CompactTypeField /\ t.parts[2] = CompactTypeField
    BY <1>1 DEF CompactTypeJubjubPoint
  <2>2. AtomicRange(CompactTypeField) = 0 .. MAX_FIELD
    BY DEF AtomicRange, CompactTypeField
  <2>3. x \in AtomicRange(t.parts[1]) /\ y \in AtomicRange(t.parts[2])
    BY <2>1, <2>2
  <2> QED BY <1>2, <1>3, <2>3 DEF SimpleRange
<1>5. PICK a \in Atom, b \in Atom : a = Digits[x] /\ b = Digits[y]
  <2>1. x \in Nat /\ y \in Nat
    BY ConstantTypes
  <2>2. Digits[x] \in Atom /\ Digits[y] \in Atom
    BY <2>1, DigitsDefined
  <2> QED BY <2>2
<1>6. SimpleToValue(t, v) = <<a, b>>
  <2>1. PICK es : es = [i \in 1 .. 2 |-> AtomicToValue(t.parts[i], PartsOf(t, v)[i])]
    OBVIOUS
  <2>2. es[1] = <<a>> /\ es[2] = <<b>>
    <3>1. t.parts[1] = CompactTypeField /\ t.parts[2] = CompactTypeField
      BY <1>1 DEF CompactTypeJubjubPoint
    <3>2. PICK w : w = PartsOf(t, v)
      OBVIOUS
    <3>3. w[1] = x /\ w[2] = y
      BY <1>2, <1>3, <3>2 DEF PartsOf
    <3>4. es[1] = AtomicToValue(CompactTypeField, x) /\ es[2] = AtomicToValue(CompactTypeField, y)
      BY <2>1, <3>1, <3>2, <3>3
    <3>5. \A u : AtomicToValue(CompactTypeField, u) = <<Digits[u]>>
      BY DEF AtomicToValue, CompactTypeField
    <3> QED BY <1>5, <3>4, <3>5
  <2>3. PICK S : S = Atom
    OBVIOUS
  <2>4. es \in Seq(Seq(S)) /\ Len(es) = 2
    <3>1. <<a>> \in Seq(S) /\ <<b>> \in Seq(S)
      BY <2>3
    <3>2. es = <<<<a>>, <<b>>>>
      BY <2>1, <2>2
    <3> QED BY <3>1, <3>2
  <2>5. PICK h : Joined(S, es, h)
    BY <2>4, FlattenJoins
  <2>6. h[0] = <<>> /\ FlattenSeq(es) = h[2]
    BY <2>4, <2>5 DEF Joined
  <2>7. h[1] = h[0] \o es[1]
    <3>1. PICK i \in 1 .. Len(es) : i = 1 /\ i - 1 = 0
      BY <2>4
    <3> QED BY <2>5, <3>1 DEF Joined
  <2>8. h[2] = h[1] \o es[2]
    <3>1. PICK i \in 1 .. Len(es) : i = 2 /\ i - 1 = 1
      BY <2>4
    <3> QED BY <2>5, <3>1 DEF Joined
  <2>9. FlattenSeq(es) = <<a, b>>
    <3>1. h[1] = <<a>>
      BY <2>2, <2>6, <2>7
    <3>2. h[2] = <<a>> \o <<b>>
      BY <2>2, <2>8, <3>1
    <3>3. <<a>> \o <<b>> = <<a, b>>
      BY TwoConcat, Zenon
    <3> QED BY <2>6, <3>2, <3>3
  <2>10. Len(t.parts) = 2 /\ t.tag \in {"Point", "FlaggedPoint", "Struct"}
    BY <1>1 DEF CompactTypeJubjubPoint
  <2>11. SimpleToValue(t, v) = FlattenSeq([i \in 1 .. Len(t.parts) |-> AtomicToValue(t.parts[i],
           PartsOf(t, v)[i])])
    BY <2>10 DEF SimpleToValue
  <2>12. es = [i \in 1 .. Len(t.parts) |-> AtomicToValue(t.parts[i], PartsOf(t, v)[i])]
    BY <2>1, <2>10
  <2>13. FlattenSeq(es) = SimpleToValue(t, v)
    <3>1. PICK fn : fn = [i \in 1 .. Len(t.parts) |-> AtomicToValue(t.parts[i], PartsOf(t, v)[i])]
      OBVIOUS
    <3>2. SimpleToValue(t, v) = FlattenSeq(fn)
      BY <2>11, <3>1
    <3>3. es = fn
      BY <2>12, <3>1
    <3> QED BY <3>2, <3>3
  <2> QED BY <2>9, <2>13
<1>7. SimpleFromValue(t, <<a, b>>) = Take(v, <<>>)
  <2>1. PICK r \in Seq(Atom) : r = <<>>
    <3>1. \A S : <<>> \in Seq(S)
      OBVIOUS
    <3> QED BY <3>1
  <2>2. SimpleFromValue(t, SimpleToValue(t, v) \o r) = Take(Norm(t, v), r)
    BY <1>3, <1>4, SimpleReads
  <2>3. <<a, b>> \o r = <<a, b>>
    BY <2>1
  <2>4. Norm(t, v) = v
    BY <1>3 DEF Norm
  <2> QED BY <1>6, <2>1, <2>2, <2>3, <2>4
<1>8. SimpleFromValue(t, <<a, b>>) = PointFromValue(t, <<a, b>>)
  BY <1>3 DEF SimpleFromValue
<1>9. PointFromValue(t, <<a, b>>).val = v
  <2>1. PICK e : e = Take(v, <<>>)
    OBVIOUS
  <2>2. e.val = v
    BY <2>1, TakeFacts
  <2> QED BY <1>7, <1>8, <2>1, <2>2
<1>10. PICK P : P = <<x, y>>
  OBVIOUS
<1>11. JubjubFromRuntime(P) = v
  BY <1>1, <1>5, <1>9, <1>10 DEF JubjubFromRuntime
<1> QED BY <1>2, <1>10, <1>11

(* The multiples of the generator of an Edwards curve.                      *)
EMul(c, k) == EdwardsTimes(c, k, c.gen)

(* The group of an Edwards curve, in terms of the multiples of its
   generator. *)
LEMMA EdwardsGroup ==
  ASSUME NEW c \in {C25519, Jubjub}
  PROVE  /\ EMul(c, 0) = <<0, 1>>
         /\ \A k \in 0 .. c.order - 1 : EMul(c, k) \in EdwardsPoints(c)
         /\ \A P \in EdwardsPoints(c) : \E k \in 0 .. c.order - 1 : P = EMul(c, k)
         /\ \A k \in 1 .. c.order - 1 : EMul(c, k) # <<0, 1>>
         /\ \A j, k \in 0 .. c.order - 1 : EdwardsPlus(c, EMul(c, j), EMul(c, k)) = EMul(c, (j + k) % c.order)
         /\ \A k \in 0 .. c.order - 1 : EMul(c, (-k) % c.order) = <<(-EMul(c, k)[1]) % c.p, EMul(c, k)[2]>>
<1>1. IsEdwardsGroup(c)
  BY CurvesAssumption
<1>2. /\ {EMul(c, k) : k \in 0 .. c.order - 1} = EdwardsPoints(c)
      /\ \A k \in 1 .. c.order - 1 : EMul(c, k) # <<0, 1>>
      /\ \A j, k \in 0 .. c.order - 1 : EdwardsPlus(c, EMul(c, j), EMul(c, k)) = EMul(c, (j + k) % c.order)
      /\ \A k \in 0 .. c.order - 1 : EMul(c, (-k) % c.order) = <<(-EMul(c, k)[1]) % c.p, EMul(c, k)[2]>>
  BY <1>1 DEF IsEdwardsGroup, EMul
<1>3. EMul(c, 0) = <<0, 1>>
  BY EdwardsRecursion DEF EMul
<1> QED BY <1>2, <1>3

(* A multiple of a multiple of the generator. *)
LEMMA EdwardsTimesMultiple ==
  ASSUME NEW c \in {C25519, Jubjub}, NEW e \in 0 .. c.order - 1
  PROVE  \A k \in Nat : EdwardsTimes(c, k, EMul(c, e)) = EMul(c, (k * e) % c.order)
<1>1. PICK m \in Nat \ {0} : m = c.order
  <2>1. c.order \in Nat /\ c.order > 4
    BY CurveTypes
  <2> QED BY <2>1
<1>2. PICK P : P = EMul(c, e)
  OBVIOUS
<1> DEFINE S == {k \in Nat : EdwardsTimes(c, k, P) = EMul(c, (k * e) % m)}
<1>3. EdwardsTimes(c, 0, P) = <<0, 1>> /\ \A n \in Nat : EdwardsTimes(c, n + 1, P) = EdwardsPlus(c,
         EdwardsTimes(c, n, P), P)
  BY EdwardsRecursion
<1>4. ASSUME NEW n \in Nat, \A k \in 0 .. n - 1 : k \in S
      PROVE  n \in S
  <2>1. CASE n = 0
    <3>1. n * e = 0 /\ 0 % m = 0
      BY <2>1
    <3>2. EMul(c, 0) = <<0, 1>>
      BY EdwardsGroup
    <3> QED BY <1>3, <2>1, <3>1, <3>2
  <2>2. CASE n # 0
    <3>1. PICK k \in Nat : n = k + 1 /\ k \in 0 .. n - 1
      <4>1. n - 1 \in Nat /\ n = (n - 1) + 1 /\ n - 1 \in 0 .. n - 1
        BY <2>2
      <4> QED BY <4>1
    <3>2. EdwardsTimes(c, k, P) = EMul(c, (k * e) % m)
      BY <1>4, <3>1
    <3>3. PICK x \in Int : x = k * e
      OBVIOUS
    <3>4. PICK y \in 0 .. m - 1 : y = (k * e) % m
      BY <3>3, SameRefl
    <3>5. EdwardsPlus(c, EMul(c, y), EMul(c, e)) = EMul(c, (y + e) % m)
      <4>1. y \in 0 .. c.order - 1 /\ e \in 0 .. c.order - 1
        BY <1>1
      <4>2. \A i, j \in 0 .. c.order - 1 :
               EdwardsPlus(c, EMul(c, i), EMul(c, j)) = EMul(c, (i + j) % c.order)
        BY EdwardsGroup
      <4>3. EdwardsPlus(c, EMul(c, y), EMul(c, e)) = EMul(c, (y + e) % c.order)
        BY <4>1, <4>2
      <4> QED BY <1>1, <4>3
    <3>6. (y + e) % m = (n * e) % m
      <4>1. e \in 0 .. m - 1
        BY <1>1
      <4>2. (((k * e) % m) + e) % m = ((k + 1) * e) % m
        BY <4>1, ProductStep
      <4>3. (y + e) % m = ((k + 1) * e) % m
        BY <3>4, <4>2
      <4> QED BY <3>1, <4>3
    <3>7. EdwardsTimes(c, n, P) = EdwardsPlus(c, EMul(c, y), EMul(c, e))
      BY <1>2, <1>3, <3>1, <3>2, <3>4
    <3> QED BY <3>5, <3>6, <3>7
  <2> QED BY <2>1, <2>2
<1> HIDE DEF S
<1>5. \A n \in Nat : n \in S
  BY <1>4, Induction
<1>6. \A k \in Nat : EdwardsTimes(c, k, P) = EMul(c, (k * e) % m)
  BY <1>5 DEF S
<1> QED BY <1>1, <1>2, <1>6

(* Points without a flag, as records and as pairs. *)
Plain(P) == [x |-> P[1], y |-> P[2]]
Pair(p) == <<p.x, p.y>>

(* A point of the runtime that is a multiple of the generator.              *)
IsMultiple(c, x, k) ==
  /\ k \in 0 .. c.order - 1 /\ x = Plain(EMul(c, k))
  /\ x \in [x : 0 .. c.p - 1, y : 0 .. c.p - 1]
  /\ Pair(x) = EMul(c, k)

(* The record of a multiple is one. *)
LEMMA MultipleIs ==
  ASSUME NEW c \in {C25519, Jubjub}, NEW k \in 0 .. c.order - 1
  PROVE  IsMultiple(c, Plain(EMul(c, k)), k)
<1>1. EMul(c, k) \in EdwardsPoints(c)
  BY EdwardsGroup
<1>2. PICK x \in 0 .. c.p - 1, y \in 0 .. c.p - 1 : EMul(c, k) = <<x, y>>
  BY <1>1 DEF EdwardsPoints
<1>3. Plain(EMul(c, k)) = [x |-> x, y |-> y]
  BY <1>2 DEF Plain
<1>4. Pair([x |-> x, y |-> y]) = <<x, y>>
  BY DEF Pair
<1> QED BY <1>2, <1>3, <1>4 DEF IsMultiple

(* The sum of two multiples. *)
LEMMA EdwardsSum ==
  ASSUME NEW c \in {C25519, Jubjub}, NEW a, NEW j, IsMultiple(c, a, j), NEW b, NEW k, IsMultiple(c, b, k)
  PROVE  \E r \in 0 .. c.order - 1 : r = (j + k) % c.order /\ EdwardsPlus(c, Pair(a), Pair(b)) = EMul(c, r)
<1>1. j \in 0 .. c.order - 1 /\ k \in 0 .. c.order - 1 /\ Pair(a) = EMul(c, j) /\ Pair(b) = EMul(c, k)
  BY DEF IsMultiple
<1>2. PICK m \in Nat \ {0} : m = c.order
  <2>1. c.order \in Nat /\ c.order > 4
    BY CurveTypes
  <2> QED BY <2>1
<1>3. PICK s \in Int : s = j + k
  BY <1>1
<1>4. PICK r \in 0 .. c.order - 1 : r = (j + k) % c.order
  BY <1>2, <1>3, SameRefl
<1>5. EdwardsPlus(c, Pair(a), Pair(b)) = EMul(c, (j + k) % c.order)
  BY <1>1, EdwardsGroup
<1> QED BY <1>4, <1>5

(* A multiple of a multiple, for records. *)
LEMMA EdwardsProduct ==
  ASSUME NEW c \in {C25519, Jubjub}, NEW a, NEW j, IsMultiple(c, a, j), NEW k \in Nat
  PROVE  \E r \in 0 .. c.order - 1 : r = (j * k) % c.order /\ EdwardsTimes(c, k, Pair(a)) = EMul(c, r)
<1>1. j \in 0 .. c.order - 1 /\ Pair(a) = EMul(c, j)
  BY DEF IsMultiple
<1>2. PICK m \in Nat \ {0} : m = c.order
  <2>1. c.order \in Nat /\ c.order > 4
    BY CurveTypes
  <2> QED BY <2>1
<1>3. PICK s \in Int : s = j * k /\ s = k * j
  <2>1. j \in Int
    BY <1>1
  <2> QED BY <2>1
<1>4. PICK r \in 0 .. c.order - 1 : r = (j * k) % c.order
  BY <1>2, <1>3, SameRefl
<1>5. EdwardsTimes(c, k, Pair(a)) = EMul(c, (k * j) % c.order)
  BY <1>1, EdwardsTimesMultiple
<1> QED BY <1>3, <1>4, <1>5

------------------------------------------------------------------------------
(* The built-ins of Curve25519 and Jubjub. *)

(* The conversions of Curve25519 keep the coordinates.                      *)
LEMMA CurveConversions ==
  /\ \A P : Curve25519FromProjective(P) = Plain(P)
  /\ \A p : Curve25519ToProjective(p) = Pair(p)
<1>1. \A P : Curve25519FromProjective(P) = Plain(P)
  BY DEF Curve25519FromProjective, Plain
<1>2. ASSUME NEW p
      PROVE  Curve25519ToProjective(p) = Pair(p)
  <2>1. CASE p.x = 0 /\ p.y = 1
    BY <2>1 DEF Curve25519ToProjective, Pair
  <2>2. CASE ~(p.x = 0 /\ p.y = 1)
    BY <2>2 DEF Curve25519ToProjective, Pair
  <2> QED BY <2>1, <2>2
<1> QED BY <1>1, <1>2

(* A multiple comes back from the on-chain runtime as itself. *)
LEMMA RuntimeConversion ==
  ASSUME NEW k \in 0 .. Jubjub.order - 1
  PROVE  JubjubFromRuntime(EMul(Jubjub, k)) = Plain(EMul(Jubjub, k))
<1>1. PICK c \in {C25519, Jubjub} : c = Jubjub
  OBVIOUS
<1>2. EMul(c, k) \in EdwardsPoints(c)
  BY <1>1, EdwardsGroup
<1>3. PICK x \in 0 .. c.p - 1, y \in 0 .. c.p - 1 : EMul(c, k) = <<x, y>>
  BY <1>2 DEF EdwardsPoints
<1>4. c.p - 1 = MAX_FIELD
  <2>1. Jubjub.p = MAX_FIELD + 1
    BY CurvesAssumption
  <2> QED BY <1>1, <2>1, ConstantTypes
<1>5. JubjubFromRuntime(<<x, y>>) = [x |-> x, y |-> y]
  BY <1>4, JubjubReads
<1>6. PICK P : P = <<x, y>>
  OBVIOUS
<1>7. Plain(P) = [x |-> x, y |-> y]
  BY <1>6 DEF Plain
<1> QED BY <1>1, <1>3, <1>5, <1>6, <1>7

(* Every built-in of Curve25519 returns the multiple that the group's law gives.    *)
LEMMA Curve25519Generated ==
  ASSUME NEW k \in 0 .. C25519.order - 1
  PROVE  IsMultiple(C25519, Curve25519MulGenerator(k), k)
<1>1. PICK c \in {C25519, Jubjub} : c = C25519
  OBVIOUS
<1>2. IsMultiple(c, Plain(EMul(c, k)), k)
  BY <1>1, MultipleIs
<1>3. Curve25519MulGenerator(k) = Plain(EMul(C25519, k))
  BY CurveConversions DEF Curve25519MulGenerator, EMul
<1> QED BY <1>1, <1>2, <1>3

(* The built-ins of Curve25519 return the sum and the multiple. *)
LEMMA Curve25519Points ==
  ASSUME NEW a, NEW j, IsMultiple(C25519, a, j), NEW k \in 0 .. C25519.order - 1
  PROVE  /\ IsMultiple(C25519, Curve25519Add(a, Curve25519MulGenerator(k)), (j + k) % C25519.order)
         /\ IsMultiple(C25519, Curve25519Mul(a, k), (j * k) % C25519.order)
<1>1. PICK c \in {C25519, Jubjub} : c = C25519
  OBVIOUS
<1>2. PICK b : b = Curve25519MulGenerator(k)
  OBVIOUS
<1>3. IsMultiple(c, b, k)
  BY <1>1, <1>2, Curve25519Generated
<1>4. PICK r \in 0 .. c.order - 1 : r = (j + k) % c.order /\ EdwardsPlus(c, Pair(a), Pair(b)) = EMul(c, r)
  BY <1>1, <1>3, EdwardsSum
<1>5. PICK q \in 0 .. c.order - 1 : q = (j * k) % c.order /\ EdwardsTimes(c, k, Pair(a)) = EMul(c, q)
  <2>1. k \in Nat
    BY <1>1, CurveTypes
  <2> QED BY <1>1, <2>1, EdwardsProduct
<1>6. Curve25519Add(a, b) = Plain(EMul(c, r))
  <2>1. Curve25519Add(a, b) = Plain(EdwardsPlus(C25519, Pair(a), Pair(b)))
    BY CurveConversions DEF Curve25519Add
  <2> QED BY <1>1, <1>4, <2>1
<1>7. Curve25519Mul(a, k) = Plain(EMul(c, q))
  <2>1. Curve25519Mul(a, k) = Plain(EdwardsTimes(C25519, k, Pair(a)))
    BY CurveConversions DEF Curve25519Mul
  <2> QED BY <1>1, <1>5, <2>1
<1>8. IsMultiple(c, Plain(EMul(c, r)), r) /\ IsMultiple(c, Plain(EMul(c, q)), q)
  BY MultipleIs
<1>9. IsMultiple(c, Curve25519Add(a, b), r) /\ IsMultiple(c, Curve25519Mul(a, k), q)
  BY <1>6, <1>7, <1>8
<1>10. IsMultiple(c, Curve25519Add(a, b), (j + k) % c.order) /\ IsMultiple(c, Curve25519Mul(a, k),
         (j * k) % c.order)
  BY <1>4, <1>5, <1>9
<1> QED BY <1>1, <1>2, <1>10

(* Every built-in of Jubjub returns the multiple that the group's law gives.    *)
LEMMA JubjubGenerated ==
  ASSUME NEW k \in 0 .. Jubjub.order - 1
  PROVE  IsMultiple(Jubjub, EcMulGenerator(k), k)
<1>1. PICK c \in {C25519, Jubjub} : c = Jubjub
  OBVIOUS
<1>2. IsMultiple(c, Plain(EMul(c, k)), k)
  BY <1>1, MultipleIs
<1>3. EcMulGenerator(k) = Plain(EMul(Jubjub, k))
  BY RuntimeConversion DEF EcMulGenerator, EMul
<1> QED BY <1>1, <1>2, <1>3

(* The built-ins of Jubjub return the sum and the multiple. *)
LEMMA JubjubPoints ==
  ASSUME NEW a, NEW j, IsMultiple(Jubjub, a, j), NEW k \in 0 .. Jubjub.order - 1
  PROVE  /\ IsMultiple(Jubjub, EcAdd(a, EcMulGenerator(k)), (j + k) % Jubjub.order)
         /\ IsMultiple(Jubjub, EcMul(a, k), (j * k) % Jubjub.order)
<1>1. PICK c \in {C25519, Jubjub} : c = Jubjub
  OBVIOUS
<1>2. PICK b : b = EcMulGenerator(k)
  OBVIOUS
<1>3. IsMultiple(c, b, k)
  BY <1>1, <1>2, JubjubGenerated
<1>4. PICK r \in 0 .. c.order - 1 : r = (j + k) % c.order /\ EdwardsPlus(c, Pair(a), Pair(b)) = EMul(c, r)
  BY <1>1, <1>3, EdwardsSum
<1>5. PICK q \in 0 .. c.order - 1 : q = (j * k) % c.order /\ EdwardsTimes(c, k, Pair(a)) = EMul(c, q)
  <2>1. k \in Nat
    BY <1>1, CurveTypes
  <2> QED BY <1>1, <2>1, EdwardsProduct
<1>6. EcAdd(a, b) = Plain(EMul(c, r))
  <2>1. EcAdd(a, b) = JubjubFromRuntime(EdwardsPlus(Jubjub, Pair(a), Pair(b)))
    BY DEF EcAdd, Pair
  <2>2. EcAdd(a, b) = JubjubFromRuntime(EMul(Jubjub, r))
    BY <1>1, <1>4, <2>1
  <2> QED BY <1>1, <2>2, RuntimeConversion
<1>7. EcMul(a, k) = Plain(EMul(c, q))
  <2>1. EcMul(a, k) = JubjubFromRuntime(EdwardsTimes(Jubjub, k, Pair(a)))
    BY DEF EcMul, Pair
  <2>2. EcMul(a, k) = JubjubFromRuntime(EMul(Jubjub, q))
    BY <1>1, <1>5, <2>1
  <2> QED BY <1>1, <2>2, RuntimeConversion
<1>8. IsMultiple(c, Plain(EMul(c, r)), r) /\ IsMultiple(c, Plain(EMul(c, q)), q)
  BY MultipleIs
<1>9. IsMultiple(c, EcAdd(a, b), r) /\ IsMultiple(c, EcMul(a, k), q)
  BY <1>6, <1>7, <1>8
<1>10. IsMultiple(c, EcAdd(a, b), (j + k) % c.order) /\ IsMultiple(c, EcMul(a, k), (j * k) % c.order)
  BY <1>4, <1>5, <1>9
<1> QED BY <1>1, <1>2, <1>10

(* The built-in negation returns the negative. *)
LEMMA JubjubNegated ==
  ASSUME NEW a, NEW j, IsMultiple(Jubjub, a, j)
  PROVE  IsMultiple(Jubjub, EcNeg(a), (-j) % Jubjub.order)
<1>1. PICK c \in {C25519, Jubjub} : c = Jubjub
  OBVIOUS
<1>2. j \in 0 .. c.order - 1 /\ a = Plain(EMul(c, j)) /\ Pair(a) = EMul(c, j)
  BY <1>1 DEF IsMultiple
<1>3. PICK x \in 0 .. c.p - 1, y \in 0 .. c.p - 1 : a = [x |-> x, y |-> y]
  BY <1>1 DEF IsMultiple
<1>4. EMul(c, j) = <<x, y>>
  <2>1. Pair(a) = <<x, y>>
    BY <1>3 DEF Pair
  <2> QED BY <1>2, <2>1
<1>5. PICK r \in 0 .. c.order - 1 : r = (-j) % c.order
  <2>1. PICK m \in Nat \ {0} : m = c.order
    <3>1. c.order \in Nat /\ c.order > 4
      BY CurveTypes
    <3> QED BY <3>1
  <2>2. PICK s \in Int : s = -j
    BY <1>2
  <2>3. s % m \in 0 .. m - 1
    BY SameRefl
  <2> QED BY <2>1, <2>2, <2>3
<1>6. PICK p \in Nat \ {0} : p = c.p /\ p = FIELD_MODULUS
  <2>1. c.p \in Nat /\ c.p > 4
    BY CurveTypes
  <2>2. Jubjub.p = MAX_FIELD + 1
    BY CurvesAssumption
  <2> QED BY <1>1, <2>1, <2>2 DEF FIELD_MODULUS
<1>7. PICK z : z = IF x = 0 THEN 0 ELSE p - x
  OBVIOUS
<1>8. (-x) % p = z
  <2>1. x \in 0 .. p - 1
    BY <1>6
  <2>2. CASE x = 0
    <3>1. PICK u \in Int : u = -x /\ u = 0
      BY <2>2
    <3>2. u % p = 0
      BY <3>1
    <3> QED BY <1>7, <2>2, <3>1, <3>2
  <2>3. CASE x # 0
    <3>1. PICK u \in Int, w \in 0 .. p - 1 : u = -x /\ w = p - x /\ u = (-1) * p + w
      BY <2>1, <2>3
    <3>2. u % p = w
      BY <3>1, RemainderIs
    <3> QED BY <1>7, <2>3, <3>1, <3>2
  <2> QED BY <2>2, <2>3
<1>9. EMul(c, r) = <<z, y>>
  <2>1. EMul(c, (-j) % c.order) = <<(-EMul(c, j)[1]) % c.p, EMul(c, j)[2]>>
    BY <1>2, EdwardsGroup
  <2>2. PICK P : P = EMul(c, j)
    OBVIOUS
  <2>3. P[1] = x /\ P[2] = y
    BY <1>4, <2>2
  <2>4. EMul(c, r) = <<(-x) % c.p, y>>
    BY <1>5, <2>1, <2>2, <2>3
  <2>5. c.p = p
    BY <1>6
  <2> QED BY <1>8, <2>4, <2>5
<1>10. EcNeg(a) = [x |-> z, y |-> y]
  <2>1. a.x = x /\ a.y = y
    BY <1>3
  <2> QED BY <1>6, <1>7, <2>1 DEF EcNeg, ConstructJubjubPoint
<1>11. Plain(EMul(c, r)) = [x |-> z, y |-> y]
  <2>1. PICK P : P = EMul(c, r)
    OBVIOUS
  <2>2. P[1] = z /\ P[2] = y
    BY <1>9, <2>1
  <2> QED BY <2>1, <2>2 DEF Plain
<1>12. IsMultiple(c, Plain(EMul(c, r)), r)
  BY MultipleIs
<1> QED BY <1>1, <1>5, <1>10, <1>11, <1>12
==============================================================================
