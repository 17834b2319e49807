---------------------------- MODULE Fixtures_proofs ----------------------------
(* Theorems about Fixtures: the compile slots and their order, the output a  *)
(* runtime test sees, the output a command touches, the output the cleanup   *)
(* leaves and the outline that is printed, for every set of fixtures, every  *)
(* limit, command line and order of completion.                              *)
EXTENDS Fixtures, WellFoundedInduction, FiniteSetTheorems, SequenceTheorems, TLAPS

------------------------------------------------------------------------------
(* Greatest members of bounded sets of numbers                               *)

Before == {s \in Nat \X Nat : s[1] < s[2]}

LEMMA BeforeIsWellFounded == IsWellFoundedOn(Before, Nat)
<1>1. OpToRel(<, Nat) = Before
  BY DEF OpToRel, Before
<1> QED BY <1>1, NatLessThanWellFounded

LEMMA LeastMember ==
  ASSUME NEW T \in SUBSET Nat, T # {}
  PROVE  \E m \in T : \A n \in T : m <= n
<1>1. PICK m \in T : \A n \in T : <<n, m>> \notin Before
  BY BeforeIsWellFounded, WFMin
<1>2. \A n \in T : n \in Nat /\ m \in Nat
  OBVIOUS
<1>3. \A n \in T : ~(n < m)
  BY <1>1, <1>2 DEF Before
<1> QED BY <1>2, <1>3

LEMMA GreatestMember ==
  ASSUME NEW bound \in Nat, NEW T \in SUBSET (0 .. bound), T # {}
  PROVE  \E m \in T : \A n \in T : n <= m
<1> DEFINE Gaps == {k \in Nat : k <= bound /\ bound - k \in T}
<1>1. \A n \in T : n \in Nat /\ n <= bound
  OBVIOUS
<1>2. \A n \in T : bound - n \in Gaps
  BY <1>1
<1>3. Gaps # {} /\ Gaps \in SUBSET Nat
  BY <1>2
<1>4. PICK k \in Gaps : \A j \in Gaps : k <= j
  BY <1>3, LeastMember
<1>5. bound - k \in T /\ k \in Nat
  BY <1>4
<1>6. \A n \in T : n <= bound - k
  BY <1>1, <1>2, <1>4, <1>5
<1> QED BY <1>5, <1>6

------------------------------------------------------------------------------
(* The compile slots                                                         *)

CompileState == {"none", "queued"} \cup Holding \cup CompileOutcome

Held(states) == {d \in Dir : states[d] \in Holding}

(* The queue holds fixtures that wait, each once; the counters count the     *)
(* fixtures that hold a slot; a slow one holds all of them.                  *)
SlotsOK(states, queue, active, exclusive) ==
  /\ states \in [Dir -> CompileState]
  /\ queue \in Seq(Dir)
  /\ active \in Nat
  /\ \A i \in 1 .. Len(queue) : states[queue[i]] = "queued"
  /\ \A i, j \in 1 .. Len(queue) : queue[i] = queue[j] => i = j
  /\ active = Cardinality(Held(states) \ SlowDirs)
  /\ exclusive = (Held(states) \cap SlowDirs # {})
  /\ Cardinality(Held(states)) <= MaxConcurrentCompiles
  /\ \A d \in Held(states) \cap SlowDirs : Held(states) = {d}

Blocked(states, queue) ==
  queue # <<>> =>
    IF IsSlowFixture(Head(queue)) THEN Held(states) # {}
    ELSE \/ Cardinality(Held(states)) = MaxConcurrentCompiles
         \/ \E d \in Held(states) : IsSlowFixture(d)

SInv ==
  /\ SlotsOK(compile, compileSlotQueue, activeNormalCompiles, activeExclusiveCompile)
  /\ Blocked(compile, compileSlotQueue)

LEMMA DirsAreFinite == IsFiniteSet(Dir)
<1>1. Dir = {Dirs[i] : i \in 1 .. Len(Dirs)}
  BY DirsAreListed DEF Dir, ToSet
<1>2. Len(Dirs) \in Nat
  BY DirsAreListed
<1>3. IsFiniteSet(1 .. Len(Dirs))
  BY <1>2, FS_Interval
<1>4. Dirs \in Surjection(1 .. Len(Dirs), Dir)
  BY <1>1, DirsAreListed DEF Surjection, Dir
<1> QED BY <1>3, <1>4, FS_Surjection

LEMMA HeldIsFinite ==
  ASSUME NEW states
  PROVE  /\ IsFiniteSet(Held(states)) /\ Cardinality(Held(states)) \in Nat
         /\ IsFiniteSet(Held(states) \ SlowDirs) /\ Cardinality(Held(states) \ SlowDirs) \in Nat
<1>1. Held(states) \subseteq Dir /\ Held(states) \ SlowDirs \subseteq Dir
  BY DEF Held
<1> QED BY <1>1, DirsAreFinite, FS_Subset, FS_CardinalityType

(* The first n waiters of a queue are n fixtures.                            *)
LEMMA FirstWaiters ==
  ASSUME NEW queue \in Seq(Dir), NEW n \in 0 .. Len(queue), NEW granted,
         \A i, j \in 1 .. Len(queue) : queue[i] = queue[j] => i = j,
         granted = {queue[i] : i \in 1 .. n}
  PROVE  IsFiniteSet(granted) /\ Cardinality(granted) = n /\ granted \subseteq Dir
<1>1. n \in Nat /\ Len(queue) \in Nat /\ n <= Len(queue)
  OBVIOUS
<1>2. \A i \in 1 .. n : i \in 1 .. Len(queue) /\ queue[i] \in Dir
  BY <1>1
<1>3. ExistsBijection(1 .. n, granted)
  <2>1. [i \in 1 .. n |-> queue[i]] \in Bijection(1 .. n, granted)
    BY <1>2 DEF Bijection, Injection, Surjection, IsInjective
  <2> QED BY <2>1 DEF ExistsBijection
<1>4. IsFiniteSet(1 .. n) /\ Cardinality(1 .. n) = n
  BY <1>1, FS_Interval
<1>5. IsFiniteSet(granted) /\ Cardinality(granted) = n
  BY <1>3, <1>4, FS_Bijection
<1>6. granted \subseteq Dir
  BY <1>2
<1> QED BY <1>5, <1>6

LEMMA DisjointSizes ==
  ASSUME NEW S, NEW T, IsFiniteSet(S), IsFiniteSet(T), S \cap T = {}
  PROVE  Cardinality(S \cup T) = Cardinality(S) + Cardinality(T)
<1>1. Cardinality(S \cap T) = 0
  BY FS_EmptySet
<1>2. Cardinality(S) \in Nat /\ Cardinality(T) \in Nat
  BY FS_CardinalityType
<1>3. Cardinality(S \cup T) = Cardinality(S) + Cardinality(T) - Cardinality(S \cap T)
  BY FS_Union
<1> QED BY <1>1, <1>2, <1>3

(* What granting a slot to the first n waiters does to states and queue.     *)
FirstOf(queue, n) == {queue[i] : i \in 1 .. n}

WithGranted(states, granted) ==
  [d \in Dir |-> IF d \in granted THEN "granted" ELSE states[d]]

Granting(states, queue, n, after, rest) ==
  /\ after \in [Dir -> CompileState]
  /\ Held(after) = Held(states) \cup FirstOf(queue, n)
  /\ Held(states) \cap FirstOf(queue, n) = {}
  /\ IsFiniteSet(FirstOf(queue, n)) /\ Cardinality(FirstOf(queue, n)) = n
  /\ rest \in Seq(Dir) /\ Len(rest) = Len(queue) - n
  /\ \A i \in 1 .. Len(rest) : n + i \in 1 .. Len(queue) /\ rest[i] = queue[n + i]
  /\ \A i \in 1 .. Len(rest) : after[rest[i]] = "queued"
  /\ \A i, j \in 1 .. Len(rest) : rest[i] = rest[j] => i = j
  /\ \A d \in Dir : \/ after[d] = states[d]
                    \/ states[d] = "queued" /\ after[d] = "granted"

LEMMA FirstAreGranted ==
  ASSUME NEW states \in [Dir -> CompileState], NEW queue \in Seq(Dir), NEW n \in 0 .. Len(queue),
         NEW after, NEW rest,
         \A i \in 1 .. Len(queue) : states[queue[i]] = "queued",
         \A i, j \in 1 .. Len(queue) : queue[i] = queue[j] => i = j,
         after = WithGranted(states, FirstOf(queue, n)),
         rest = SubSeq(queue, n + 1, Len(queue))
  PROVE  Granting(states, queue, n, after, rest)
<1>1. PICK granted : granted = FirstOf(queue, n)
  OBVIOUS
<1>2. n \in Nat /\ Len(queue) \in Nat /\ n <= Len(queue)
  OBVIOUS
<1>3. \A i \in 1 .. n : i \in 1 .. Len(queue) /\ queue[i] \in Dir
  BY <1>2
<1>4. IsFiniteSet(granted) /\ Cardinality(granted) = n /\ granted \subseteq Dir
  BY <1>1, FirstWaiters DEF FirstOf
<1>5. \A d \in granted : states[d] = "queued"
  BY <1>1, <1>3 DEF FirstOf
<1>6. after = [d \in Dir |-> IF d \in granted THEN "granted" ELSE states[d]]
  BY <1>1 DEF WithGranted
<1>7. after \in [Dir -> CompileState]
  BY <1>4, <1>6 DEF CompileState, Holding
<1>8. Held(after) = Held(states) \cup granted /\ Held(states) \cap granted = {}
  BY <1>4, <1>5, <1>6 DEF Held, Holding
<1>9. rest \in Seq(Dir) /\ Len(rest) = Len(queue) - n
  BY <1>2
<1>10. \A i \in 1 .. Len(rest) : n + i \in 1 .. Len(queue) /\ rest[i] = queue[n + i]
  BY <1>2, <1>9
<1>11. \A i \in 1 .. Len(rest) : rest[i] \in Dir /\ rest[i] \notin granted
  <2> TAKE i \in 1 .. Len(rest)
  <2>1. i \in Nat /\ i >= 1
    BY <1>9
  <2>2. rest[i] = queue[n + i] /\ n + i \in 1 .. Len(queue)
    BY <1>10
  <2>3. \A j \in 1 .. n : j \in Nat /\ j # n + i
    BY <1>2, <2>1
  <2> QED BY <1>1, <1>3, <2>2, <2>3 DEF FirstOf
<1>12. \A i \in 1 .. Len(rest) : after[rest[i]] = "queued"
  BY <1>10, <1>11, <1>6
<1>13. \A i, j \in 1 .. Len(rest) : rest[i] = rest[j] => i = j
  <2> TAKE i, j \in 1 .. Len(rest)
  <2>1. i \in Nat /\ j \in Nat
    BY <1>9
  <2>2. /\ n + i \in 1 .. Len(queue) /\ rest[i] = queue[n + i]
        /\ n + j \in 1 .. Len(queue) /\ rest[j] = queue[n + j]
    BY <1>10
  <2>3. queue[n + i] = queue[n + j] => n + i = n + j
    BY <2>2
  <2>4. rest[i] = rest[j] => n + i = n + j
    BY <2>2, <2>3
  <2> QED BY <1>2, <2>1, <2>4
<1>14. \A d \in Dir : \/ after[d] = states[d]
                      \/ states[d] = "queued" /\ after[d] = "granted"
  BY <1>5, <1>6
<1> QED BY <1>1, <1>4, <1>7, <1>8, <1>9, <1>10, <1>12, <1>13, <1>14 DEF Granting

(* The waiters that may start include the largest such number of them.       *)
LEMMA StartedIsGreatest ==
  ASSUME NEW queue \in Seq(Dir), NEW active \in 0 .. MaxConcurrentCompiles
  PROVE  LET n == Started(queue, active, FALSE)
         IN /\ n \in Startable(queue, active) /\ n \in 0 .. Len(queue)
            /\ \A m \in Startable(queue, active) : m <= n
<1>1. Len(queue) \in Nat /\ MaxConcurrentCompiles \in Nat /\ active \in Nat /\ active <= MaxConcurrentCompiles
  BY LimitsArePositive
<1>2. 0 \in Startable(queue, active)
  BY <1>1 DEF Startable
<1>3. Startable(queue, active) \subseteq 0 .. Len(queue)
  <2>1. CASE queue # <<>> /\ IsSlowFixture(Head(queue))
    <3>1. Len(queue) >= 1
      BY <1>1, <2>1
    <3> QED BY <1>1, <2>1, <3>1 DEF Startable
  <2>2. CASE ~(queue # <<>> /\ IsSlowFixture(Head(queue)))
    BY <2>2 DEF Startable
  <2> QED BY <2>1, <2>2
<1>4. \E n \in Startable(queue, active) : \A m \in Startable(queue, active) : m <= n
  BY <1>1, <1>2, <1>3, GreatestMember
<1> QED BY <1>3, <1>4 DEF Started

(* A drain grants slots to the first waiters, as many as Started says.       *)
LEMMA DrainGrants ==
  ASSUME NEW states, NEW queue, NEW active, NEW exclusive, NEW n \in 0 .. Len(queue),
         SlotsOK(states, queue, active, exclusive),
         DrainCompileSlotQueue(states, queue, active, exclusive),
         n = Started(queue, active, exclusive)
  PROVE  Granting(states, queue, n, compile', compileSlotQueue')
<1>1. /\ compile' = WithGranted(states, FirstOf(queue, n))
      /\ compileSlotQueue' = SubSeq(queue, n + 1, Len(queue))
  BY DEF DrainCompileSlotQueue, WithGranted, FirstOf
<1>2. /\ states \in [Dir -> CompileState] /\ queue \in Seq(Dir)
      /\ \A i \in 1 .. Len(queue) : states[queue[i]] = "queued"
      /\ \A i, j \in 1 .. Len(queue) : queue[i] = queue[j] => i = j
  BY DEF SlotsOK
<1> QED BY <1>1, <1>2, FirstAreGranted

(* Nobody starts.                                                            *)
LEMMA DrainNothing ==
  ASSUME NEW states, NEW queue, NEW active, NEW exclusive,
         SlotsOK(states, queue, active, exclusive),
         DrainCompileSlotQueue(states, queue, active, exclusive),
         Started(queue, active, exclusive) = 0, Blocked(states, queue)
  PROVE  SInv' /\ compile' = states
<1>1. states \in [Dir -> CompileState] /\ queue \in Seq(Dir) /\ active \in Nat
  BY DEF SlotsOK
<1>2. /\ compile' = [d \in Dir |-> IF d \in {queue[i] : i \in 1 .. 0} THEN "granted" ELSE states[d]]
      /\ compileSlotQueue' = SubSeq(queue, 0 + 1, Len(queue))
      /\ activeNormalCompiles' = active + 0
  BY DEF DrainCompileSlotQueue
<1>3. activeExclusiveCompile' = (Held(states) \cap SlowDirs # {})
  <2>1. exclusive = (Held(states) \cap SlowDirs # {})
    BY DEF SlotsOK
  <2>2. activeExclusiveCompile' = (exclusive \/ (0 = 1 /\ IsSlowFixture(Head(queue))))
    BY DEF DrainCompileSlotQueue
  <2>3. 0 # 1
    OBVIOUS
  <2> QED BY <2>1, <2>2, <2>3
<1>4. compile' = states /\ compileSlotQueue' = queue /\ activeNormalCompiles' = active
  BY <1>1, <1>2
<1>5. SlotsOK(compile', compileSlotQueue', activeNormalCompiles', activeExclusiveCompile')
  BY <1>3, <1>4 DEF SlotsOK
<1> QED BY <1>4, <1>5 DEF SInv

(* A slow fixture starts, alone.                                             *)
LEMMA DrainSlow ==
  ASSUME NEW states, NEW queue, NEW active, NEW exclusive,
         SlotsOK(states, queue, active, exclusive),
         DrainCompileSlotQueue(states, queue, active, exclusive),
         queue # <<>>, IsSlowFixture(Head(queue)), Held(states) = {},
         Started(queue, active, exclusive) = 1
  PROVE  /\ SInv'
         /\ \A d \in Dir : \/ compile'[d] = states[d]
                           \/ states[d] = "queued" /\ compile'[d] = "granted"
<1>1. activeNormalCompiles' = active /\ activeExclusiveCompile' = TRUE
  BY DEF DrainCompileSlotQueue
<1>2. queue \in Seq(Dir) /\ active \in Nat /\ active = Cardinality(Held(states) \ SlowDirs)
  BY DEF SlotsOK
<1>3. 1 \in 0 .. Len(queue)
  BY <1>2
<1>4. Granting(states, queue, 1, compile', compileSlotQueue')
  BY <1>3, DrainGrants
<1>5. PICK h : h = Held(compile')
  OBVIOUS
<1>6. FirstOf(queue, 1) = {Head(queue)}
  BY <1>2 DEF FirstOf
<1>7. h = {Head(queue)} /\ Head(queue) \in SlowDirs
  BY <1>6, <1>4, <1>5 DEF IsSlowFixture, Granting
<1>8. Held(states) \ SlowDirs = {} /\ h \ SlowDirs = {} /\ (h \cap SlowDirs # {}) = TRUE
  BY <1>7
<1>9. active = 0 /\ Cardinality(h \ SlowDirs) = 0
  BY <1>2, <1>8, FS_EmptySet
<1>10. Cardinality(h) = 1
  BY <1>7, FS_Singleton
<1>11. 1 <= MaxConcurrentCompiles
  BY LimitsArePositive
<1>12. \A d \in h \cap SlowDirs : h = {d}
  BY <1>7
<1>13. SlotsOK(compile', compileSlotQueue', activeNormalCompiles', activeExclusiveCompile')
  BY <1>1, <1>2, <1>4, <1>5, <1>8, <1>9, <1>10, <1>12, <1>11 DEF SlotsOK, Granting
<1>14. Blocked(compile', compileSlotQueue')
  BY <1>5, <1>7 DEF Blocked, IsSlowFixture
<1> QED BY <1>4, <1>13, <1>14 DEF SInv, Granting

(* Normal fixtures start, as many as there is room for.                      *)
LEMMA DrainNormal ==
  ASSUME NEW states, NEW queue, NEW active, NEW exclusive,
         SlotsOK(states, queue, active, exclusive),
         DrainCompileSlotQueue(states, queue, active, exclusive),
         ~(queue # <<>> /\ IsSlowFixture(Head(queue))), ~exclusive,
         NEW n \in 0 .. Len(queue), n = Started(queue, active, exclusive),
         n \in Startable(queue, active), \A m \in Startable(queue, active) : m <= n
  PROVE  /\ SInv'
         /\ \A d \in Dir : \/ compile'[d] = states[d]
                           \/ states[d] = "queued" /\ compile'[d] = "granted"
<1>1. /\ queue \in Seq(Dir) /\ active \in Nat /\ active = Cardinality(Held(states) \ SlowDirs)
      /\ exclusive = (Held(states) \cap SlowDirs # {})
  BY DEF SlotsOK
<1>2. Granting(states, queue, n, compile', compileSlotQueue')
  BY DrainGrants
<1>3. active + n <= MaxConcurrentCompiles /\ \A i \in 1 .. n : ~IsSlowFixture(queue[i])
  BY DEF Startable
<1>4. n = 1 => queue # <<>>
  BY <1>1
<1>5. activeNormalCompiles' = active + n /\ activeExclusiveCompile' = FALSE
  <2>1. ~(n = 1 /\ IsSlowFixture(Head(queue)))
    BY <1>4
  <2>2. activeExclusiveCompile' = (exclusive \/ (n = 1 /\ IsSlowFixture(Head(queue))))
    BY DEF DrainCompileSlotQueue
  <2>3. activeNormalCompiles' = active + n
    BY <2>1 DEF DrainCompileSlotQueue
  <2> QED BY <2>1, <2>2, <2>3
<1>6. PICK h, granted : h = Held(compile') /\ granted = FirstOf(queue, n)
  OBVIOUS
<1>7. h = Held(states) \cup granted /\ Held(states) \cap granted = {}
  BY <1>2, <1>6 DEF Granting
<1>8. Held(states) \cap SlowDirs = {} /\ granted \cap SlowDirs = {}
  BY <1>1, <1>3, <1>6 DEF FirstOf, IsSlowFixture
<1>9. Held(states) \ SlowDirs = Held(states) /\ h \ SlowDirs = h /\ (h \cap SlowDirs # {}) = FALSE
  BY <1>7, <1>8
<1>10. Cardinality(h) = active + n
  <2>1. IsFiniteSet(granted) /\ Cardinality(granted) = n
    BY <1>2, <1>6 DEF Granting
  <2>2. IsFiniteSet(Held(states)) /\ Cardinality(Held(states)) = active
    BY <1>1, <1>9, HeldIsFinite
  <2>3. Cardinality(h) = Cardinality(Held(states)) + Cardinality(granted)
    BY <1>7, <2>1, <2>2, DisjointSizes
  <2> QED BY <2>1, <2>2, <2>3
<1>11. active + n \in Nat
  BY <1>1
<1>12. SlotsOK(compile', compileSlotQueue', activeNormalCompiles', activeExclusiveCompile')
  BY <1>2, <1>3, <1>5, <1>6, <1>8, <1>9, <1>10, <1>11 DEF SlotsOK, Granting
<1>13. Blocked(compile', compileSlotQueue')
  <2>1. SUFFICES ASSUME compileSlotQueue' # <<>>
        PROVE  IF IsSlowFixture(Head(compileSlotQueue')) THEN h # {}
               ELSE Cardinality(h) = MaxConcurrentCompiles
    BY <1>6 DEF Blocked
  <2>2. PICK rest : rest = compileSlotQueue'
    OBVIOUS
  <2>3. /\ rest \in Seq(Dir) /\ Len(rest) = Len(queue) - n
        /\ \A i \in 1 .. Len(rest) : rest[i] = queue[n + i]
    BY <1>2, <2>2 DEF Granting
  <2>4. Len(rest) \in Nat /\ Len(rest) # 0 /\ 1 \in 1 .. Len(rest)
    BY <2>1, <2>2, <2>3
  <2>5. Head(rest) = queue[n + 1] /\ n + 1 \in 0 .. Len(queue)
    <3>1. Head(rest) = rest[1] /\ rest[1] = queue[n + 1]
      BY <2>3, <2>4
    <3>2. Len(rest) >= 1 /\ Len(queue) \in Nat
      BY <1>1, <2>4
    <3>3. n + 1 \in 0 .. Len(queue)
      BY <2>3, <3>2
    <3> QED BY <3>1, <3>3
  <2>6. CASE IsSlowFixture(Head(rest))
    <3>1. n # 0
      BY <1>1, <2>5, <2>6
    <3>2. granted # {}
      BY <1>2, <1>6, <3>1, FS_EmptySet DEF Granting
    <3> QED BY <1>7, <2>2, <2>6, <3>2
  <2>7. CASE ~IsSlowFixture(Head(rest))
    <3>1. n + 1 \notin Startable(queue, active)
      OBVIOUS
    <3>2. \A i \in 1 .. n + 1 : i \in 1 .. n \/ i = n + 1
      OBVIOUS
    <3>3. \A i \in 1 .. n + 1 : ~IsSlowFixture(queue[i])
      BY <1>3, <2>5, <2>7, <3>2
    <3>4. Startable(queue, active) =
            {m \in 0 .. Len(queue) : active + m <= MaxConcurrentCompiles
                                     /\ \A i \in 1 .. m : ~IsSlowFixture(queue[i])}
      BY Zenon DEF Startable
    <3>5. ~(active + (n + 1) <= MaxConcurrentCompiles)
      <4>1. PICK k : k = n + 1
        OBVIOUS
      <4>2. k \in 0 .. Len(queue) /\ k \notin Startable(queue, active)
            /\ \A i \in 1 .. k : ~IsSlowFixture(queue[i])
        BY <2>5, <3>1, <3>3, <4>1
      <4>3. ~(active + k <= MaxConcurrentCompiles)
        BY <3>4, <4>2
      <4> QED BY <4>1, <4>3
    <3>6. active + n = MaxConcurrentCompiles
      <4>1. n \in Int /\ active \in Int /\ MaxConcurrentCompiles \in Int
        BY <1>1, LimitsArePositive
      <4> QED BY <1>3, <3>5, <4>1
    <3> QED BY <1>10, <2>2, <2>7, <3>6
  <2> QED BY <2>2, <2>6, <2>7
<1> QED BY <1>2, <1>12, <1>13 DEF SInv, Granting

(* A drain gives every slot that is free to the waiters next in turn.        *)
LEMMA DrainSlots ==
  ASSUME NEW states, NEW queue, NEW active, NEW exclusive,
         SlotsOK(states, queue, active, exclusive),
         DrainCompileSlotQueue(states, queue, active, exclusive)
  PROVE  /\ SInv'
         /\ \A d \in Dir : \/ compile'[d] = states[d]
                           \/ states[d] = "queued" /\ compile'[d] = "granted"
<1>1. /\ queue \in Seq(Dir) /\ active \in Nat /\ active = Cardinality(Held(states) \ SlowDirs)
      /\ exclusive = (Held(states) \cap SlowDirs # {})
      /\ Cardinality(Held(states)) <= MaxConcurrentCompiles
  BY DEF SlotsOK
<1>2. active <= Cardinality(Held(states)) /\ Cardinality(Held(states)) \in Nat
  BY <1>1, HeldIsFinite, FS_Subset
<1>3. active \in 0 .. MaxConcurrentCompiles
  BY <1>1, <1>2, LimitsArePositive
<1>4. CASE exclusive
  <2>1. Started(queue, active, exclusive) = 0
    BY <1>4 DEF Started
  <2>2. Blocked(states, queue)
    BY <1>1, <1>4 DEF Blocked, IsSlowFixture
  <2> QED BY <2>1, <2>2, DrainNothing
<1>5. CASE ~exclusive
  <2>1. PICK n : n = Started(queue, active, exclusive)
    OBVIOUS
  <2>2. n = Started(queue, active, FALSE)
    BY <1>5, <2>1 DEF Started
  <2>3. n \in Startable(queue, active) /\ n \in 0 .. Len(queue) /\ \A m \in Startable(queue, active) : m <= n
    BY <1>1, <1>3, <2>2, StartedIsGreatest
  <2>4. Held(states) \cap SlowDirs = {}
    BY <1>1, <1>5
  <2>5. Held(states) \ SlowDirs = Held(states) /\ IsFiniteSet(Held(states))
    BY <2>4, HeldIsFinite
  <2>6. CASE queue # <<>> /\ IsSlowFixture(Head(queue)) /\ active = 0
    <3>1. Held(states) = {}
      BY <1>1, <2>5, <2>6, FS_EmptySet
    <3>2. Startable(queue, active) = {0, 1}
      BY <2>6 DEF Startable
    <3>3. n = 1
      BY <2>3, <3>2
    <3> QED BY <2>1, <2>6, <3>1, <3>3, DrainSlow
  <2>7. CASE queue # <<>> /\ IsSlowFixture(Head(queue)) /\ active # 0
    <3>1. Startable(queue, active) = {0}
      BY <2>7 DEF Startable
    <3>2. Held(states) # {}
      BY <1>1, <2>5, <2>7, FS_EmptySet
    <3>3. Blocked(states, queue)
      BY <2>7, <3>2 DEF Blocked
    <3> QED BY <2>1, <2>3, <3>1, <3>3, DrainNothing
  <2>8. CASE ~(queue # <<>> /\ IsSlowFixture(Head(queue)))
    BY <1>5, <2>1, <2>3, <2>8, DrainNormal
  <2> QED BY <2>6, <2>7, <2>8
<1> QED BY <1>4, <1>5

LEMMA DrainGrantsSome ==
  ASSUME NEW states, NEW queue, NEW active, NEW exclusive,
         SlotsOK(states, queue, active, exclusive),
         DrainCompileSlotQueue(states, queue, active, exclusive)
  PROVE  \E n \in 0 .. Len(queue) : Granting(states, queue, n, compile', compileSlotQueue')
<1>1. /\ queue \in Seq(Dir) /\ active \in Nat /\ active = Cardinality(Held(states) \ SlowDirs)
      /\ Cardinality(Held(states)) <= MaxConcurrentCompiles
  BY DEF SlotsOK
<1>2. active <= Cardinality(Held(states)) /\ Cardinality(Held(states)) \in Nat
  BY <1>1, HeldIsFinite, FS_Subset
<1>3. active \in 0 .. MaxConcurrentCompiles
  BY <1>1, <1>2, LimitsArePositive
<1>4. PICK n : n = Started(queue, active, exclusive)
  OBVIOUS
<1>5. CASE exclusive
  <2>1. n = 0
    BY <1>4, <1>5 DEF Started
  <2>2. n \in 0 .. Len(queue)
    BY <1>1, <2>1
  <2> QED BY <1>4, <2>2, DrainGrants
<1>6. CASE ~exclusive
  <2>1. n = Started(queue, active, FALSE)
    BY <1>4, <1>6 DEF Started
  <2>2. n \in 0 .. Len(queue)
    BY <1>1, <1>3, <2>1, StartedIsGreatest
  <2> QED BY <1>4, <2>2, DrainGrants
<1> QED BY <1>5, <1>6

LEMMA InitSlots == Init => SInv
<1> SUFFICES ASSUME Init PROVE SInv
  OBVIOUS
<1>1. /\ compile = [d \in Dir |-> "none"] /\ compileSlotQueue = <<>>
      /\ activeNormalCompiles = 0 /\ activeExclusiveCompile = FALSE
  BY DEF Init
<1>2. Held(compile) = {}
  BY <1>1 DEF Held, Holding
<1>3. compile \in [Dir -> CompileState] /\ compileSlotQueue \in Seq(Dir) /\ Len(compileSlotQueue) = 0
  BY <1>1 DEF CompileState
<1>4. Held(compile) \ SlowDirs = {} /\ (Held(compile) \cap SlowDirs # {}) = FALSE
  BY <1>2
<1>5. Cardinality(Held(compile)) = 0 /\ Cardinality(Held(compile) \ SlowDirs) = 0
  BY <1>2, <1>4, FS_EmptySet
<1>6. 0 <= MaxConcurrentCompiles
  BY LimitsArePositive
<1>7. activeExclusiveCompile = (Held(compile) \cap SlowDirs # {})
  BY <1>1, <1>4
<1>8. SlotsOK(compile, compileSlotQueue, activeNormalCompiles, activeExclusiveCompile)
  BY <1>1, <1>2, <1>3, <1>5, <1>6, <1>7 DEF SlotsOK
<1> QED BY <1>1, <1>8 DEF SInv, Blocked

(* A fixture that has not been compiled joins the queue.                     *)
LEMMA QueuedSlots ==
  ASSUME NEW states, NEW queue, NEW active, NEW exclusive,
         SlotsOK(states, queue, active, exclusive),
         NEW d \in Dir, states[d] = "none"
  PROVE  SlotsOK([states EXCEPT ![d] = "queued"], Append(queue, d), active, exclusive)
<1>1. PICK after, longer : after = [states EXCEPT ![d] = "queued"] /\ longer = Append(queue, d)
  OBVIOUS
<1>2. /\ states \in [Dir -> CompileState] /\ queue \in Seq(Dir)
      /\ \A i \in 1 .. Len(queue) : states[queue[i]] = "queued"
      /\ \A i, j \in 1 .. Len(queue) : queue[i] = queue[j] => i = j
  BY DEF SlotsOK
<1>3. after \in [Dir -> CompileState] /\ longer \in Seq(Dir)
  BY <1>1, <1>2 DEF CompileState
<1>4. Len(longer) = Len(queue) + 1 /\ Len(queue) \in Nat /\ longer[Len(queue) + 1] = d
  BY <1>1, <1>2
<1>5. \A i \in 1 .. Len(longer) :
         \/ i \in 1 .. Len(queue) /\ longer[i] = queue[i]
         \/ i = Len(queue) + 1 /\ longer[i] = d
  BY <1>1, <1>2, <1>4
<1>6. \A i \in 1 .. Len(queue) : queue[i] # d /\ queue[i] \in Dir
  BY <1>2
<1>7. \A i \in 1 .. Len(longer) : after[longer[i]] = "queued"
  BY <1>1, <1>2, <1>5, <1>6
<1>8. \A i, j \in 1 .. Len(longer) : longer[i] = longer[j] => i = j
  BY <1>2, <1>5, <1>6
<1>9. Held(after) = Held(states)
  BY <1>1, <1>2 DEF Held, Holding
<1>10. SlotsOK(after, longer, active, exclusive)
  BY <1>3, <1>7, <1>8, <1>9 DEF SlotsOK
<1> QED BY <1>1, <1>10

(* A compile that has ended gives back what it held.                         *)
LEMMA ReleasedSlots ==
  ASSUME NEW states, NEW queue, NEW active, NEW exclusive,
         SlotsOK(states, queue, active, exclusive),
         NEW d \in Dir, states[d] \in Holding, NEW outcome \in CompileOutcome,
         NEW after, after = [states EXCEPT ![d] = outcome]
  PROVE  /\ IsSlowFixture(d) => SlotsOK(after, queue, active, FALSE)
         /\ ~IsSlowFixture(d) => SlotsOK(after, queue, active - 1, FALSE)
         /\ (exclusive /\ ~IsSlowFixture(d)) = FALSE
<1>1. PICK h, k : after = [states EXCEPT ![d] = outcome] /\ h = Held(states) /\ k = Held(after)
  OBVIOUS
<1>2. /\ states \in [Dir -> CompileState] /\ queue \in Seq(Dir)
      /\ active \in Nat
      /\ \A i \in 1 .. Len(queue) : states[queue[i]] = "queued"
      /\ \A i, j \in 1 .. Len(queue) : queue[i] = queue[j] => i = j
      /\ active = Cardinality(h \ SlowDirs) /\ exclusive = (h \cap SlowDirs # {})
      /\ Cardinality(h) <= MaxConcurrentCompiles
      /\ \A e \in h \cap SlowDirs : h = {e}
  BY <1>1 DEF SlotsOK
<1>3. after \in [Dir -> CompileState]
  BY <1>1, <1>2 DEF CompileState
<1>4. k = h \ {d} /\ d \in h
  BY <1>1, <1>2 DEF Held, Holding, CompileOutcome
<1>5. \A i \in 1 .. Len(queue) : queue[i] # d /\ queue[i] \in Dir
  BY <1>2 DEF Holding
<1>6. \A i \in 1 .. Len(queue) : after[queue[i]] = "queued"
  BY <1>1, <1>2, <1>5
<1>7. /\ IsFiniteSet(h) /\ IsFiniteSet(h \ SlowDirs)
      /\ Cardinality(h) \in Nat /\ Cardinality(k) \in Nat
  BY <1>1, HeldIsFinite
<1>8. Cardinality(k) = Cardinality(h) - 1
  BY <1>4, <1>7, FS_RemoveElement
<1>9. Cardinality(k) <= MaxConcurrentCompiles
  BY <1>2, <1>7, <1>8, LimitsArePositive
<1>10. CASE IsSlowFixture(d)
  <2>1. h = {d} /\ k = {}
    BY <1>2, <1>4, <1>10 DEF IsSlowFixture
  <2>2. h \ SlowDirs = {} /\ k \ SlowDirs = {} /\ (k \cap SlowDirs # {}) = FALSE
    BY <1>10, <2>1 DEF IsSlowFixture
  <2>3. active = Cardinality(k \ SlowDirs)
    BY <1>2, <2>2
  <2>4. SlotsOK(after, queue, active, FALSE)
    BY <1>1, <1>2, <1>3, <1>6, <1>9, <2>2, <2>3 DEF SlotsOK
  <2>5. (exclusive /\ ~IsSlowFixture(d)) = FALSE
    BY <1>10
  <2> QED BY <1>1, <1>10, <2>4, <2>5
<1>11. CASE ~IsSlowFixture(d)
  <2>1. k \ SlowDirs = (h \ SlowDirs) \ {d} /\ d \in h \ SlowDirs
    BY <1>4, <1>11 DEF IsSlowFixture
  <2>2. Cardinality(k \ SlowDirs) = active - 1
    <3>1. PICK normal : normal = h \ SlowDirs
      OBVIOUS
    <3>2. IsFiniteSet(normal) /\ d \in normal /\ k \ SlowDirs = normal \ {d}
      BY <1>7, <2>1, <3>1
    <3>3. Cardinality(normal \ {d}) = Cardinality(normal) - 1
      BY <3>2, FS_RemoveElement
    <3> QED BY <1>2, <3>1, <3>2, <3>3
  <2>3. Cardinality(k \ SlowDirs) \in Nat
    BY <1>1, HeldIsFinite
  <2>4. h \cap SlowDirs = {} /\ (k \cap SlowDirs # {}) = FALSE
    BY <1>2, <1>4, <1>11 DEF IsSlowFixture
  <2>5. SlotsOK(after, queue, active - 1, FALSE)
    BY <1>1, <1>2, <1>3, <1>6, <1>9, <2>2, <2>3, <2>4 DEF SlotsOK
  <2>6. (exclusive /\ ~IsSlowFixture(d)) = FALSE
    BY <1>2, <2>4
  <2> QED BY <1>1, <1>11, <2>5, <2>6
<1> QED BY <1>10, <1>11

------------------------------------------------------------------------------
(* From a compile to what the cleanup leaves                                 *)

PhaseType == {"start", "refused", "preparing", "prepared", "cleaned", "testing",
              "cleaning", "kept", "finished"}
Over == {"cleaning", "kept", "finished"}

TypeF ==
  /\ phase \in PhaseType
  /\ disk = [d \in Dir |-> disk[d]]
  /\ compileResults \subseteq Dir
  /\ fixtureStatuses \in [Dir -> {"none", "ok", "failed"}]
  /\ visited \subseteq Dir
  /\ pc \in [Tests -> {"none", "compiling", "loading", "running", "done"}]
  /\ verdict \in [Tests -> {"none", "passed", "failed", "timedout"}]

(* Before the tests nothing is compiled; while they run a fixture that is    *)
(* not in the cache has not been; once they are over, all are reported.      *)
Begun ==
  phase \notin {"testing"} \cup Over =>
    /\ \A d \in Dir : compile[d] = "none"
    /\ \A t \in Tests : pc[t] = "none"

Cached == phase \notin Over => \A d \in Dir \ compileResults : compile[d] = "none"

Answered == phase \in Over => \A t \in Tests : pc[t] = "none" \/ verdict[t] # "none"

Unstarted == phase = "testing" => pending \subseteq {t \in Tests : pc[t] = "none"}

Ended == phase = "finished" => Records \subseteq visited

(* What a promise has awaited, also after its test timed out.                *)
Promised(t) ==
  /\ pc[t] \in {"loading", "running"} => compile[t[1]] = "ok"
  /\ verdict[t] \in {"passed", "failed"} => pc[t] = "done" /\ compile[t[1]] \in CompileOutcome

(* Until the tests are over nothing touches what a compile wrote.            *)
Written(d) ==
  phase = "testing" =>
    /\ compile[d] = "ok" => disk[d] = Output("built", "test")
    /\ compile[d] \in Exited => disk[d].holds \in {"built", "broken"}
    /\ compile[d] \in {"removed"} \cup CompileOutcome => fixtureStatuses[d] # "none"

(* What a verdict says of the record and the output of the fixture.          *)
Kept(t) ==
  /\ verdict[t] = "failed" /\ compile[t[1]] \in Exited =>
       fixtureStatuses[t[1]] = "failed" /\ disk[t[1]].holds \in {"built", "broken"}
  /\ verdict[t] = "passed" /\ fixtureStatuses[t[1]] = "none" => disk[t[1]].holds = "absent"

Blamed(d) ==
  /\ fixtureStatuses[d] = "failed" =>
       \E p \in TestPhase : verdict[<<d, p>>] \in {"failed", "timedout"}
  /\ d \in visited => fixtureStatuses[d] = "failed"

FInv ==
  /\ TypeF /\ Begun /\ Cached /\ Answered /\ Unstarted /\ Ended
  /\ \A t \in Tests : Promised(t) /\ Kept(t)
  /\ \A d \in Dir : Written(d) /\ Blamed(d)

LEMMA InitFInv == Init => FInv
<1> SUFFICES ASSUME Init PROVE FInv
  OBVIOUS
<1>1. /\ phase = "start" /\ compileResults = {} /\ visited = {}
      /\ compile = [d \in Dir |-> "none"] /\ fixtureStatuses = [d \in Dir |-> "none"]
      /\ pc = [t \in Tests |-> "none"] /\ verdict = [t \in Tests |-> "none"]
      /\ \E left : disk = [d \in Dir |-> left]
  BY DEF Init
<1>2. TypeF
  BY <1>1 DEF TypeF, PhaseType
<1>3. Begun /\ Cached /\ Answered /\ Unstarted /\ Ended
  BY <1>1 DEF Begun, Cached, Answered, Unstarted, Ended, Over
<1>4. ASSUME NEW t \in Tests PROVE Promised(t) /\ Kept(t)
  BY <1>1 DEF Promised, Kept
<1>5. ASSUME NEW d \in Dir PROVE Written(d) /\ Blamed(d)
  BY <1>1 DEF Written, Blamed
<1> QED BY <1>2, <1>3, <1>4, <1>5 DEF FInv

(* A step that comes before the tests.                                       *)
LEMMA PreparationKeeps ==
  ASSUME FInv, phase \notin {"testing"} \cup Over, phase' \in PhaseType \ Over,
         disk' = [d \in Dir |-> disk'[d]], UNCHANGED Orchestration,
         phase' = "testing" => pending' \subseteq Tests
  PROVE  FInv'
<1>1. /\ compile' = compile /\ compileResults' = compileResults /\ visited' = visited
      /\ fixtureStatuses' = fixtureStatuses /\ pc' = pc /\ verdict' = verdict
  BY DEF Orchestration, slots
<1>2. /\ \A d \in Dir : compile[d] = "none"
      /\ \A t \in Tests : pc[t] = "none"
  BY DEF FInv, Begun
<1>3. TypeF'
  BY <1>1 DEF FInv, TypeF
<1>4. Begun' /\ Cached' /\ Answered' /\ Unstarted' /\ Ended'
  BY <1>1, <1>2 DEF Begun, Cached, Answered, Unstarted, Ended, Over
<1>5. ASSUME NEW t \in Tests PROVE Promised(t)' /\ Kept(t)'
  <2>1. Promised(t) /\ pc[t] = "none"
    BY <1>2 DEF FInv
  <2>2. verdict[t] \notin {"passed", "failed"}
    BY <2>1 DEF Promised
  <2> QED BY <1>1, <2>1, <2>2 DEF Promised, Kept
<1>6. ASSUME NEW d \in Dir PROVE Written(d)' /\ Blamed(d)'
  <2>1. Blamed(d) /\ compile[d] = "none"
    BY <1>2 DEF FInv
  <2> QED BY <1>1, <2>1 DEF Written, Blamed, CompileOutcome, Exited
<1> QED BY <1>3, <1>4, <1>5, <1>6 DEF FInv

LEMMA RunnerKeeps ==
  ASSUME FInv, Runner
  PROVE  FInv' /\ UNCHANGED slots
<1>1. phase \notin {"testing"} \cup Over /\ UNCHANGED Orchestration
  BY DEF Runner, RunnerRefuses, StartPreparing, PrepareNext, PreparingEnds, RunVitest,
         RegisterTests, Over
<1>2. phase' \in PhaseType \ Over
  <2>1. phase \in PhaseType
    BY DEF FInv, TypeF
  <2> QED BY <1>1, <2>1 DEF Runner, RunnerRefuses, StartPreparing, PrepareNext, PreparingEnds,
          RunVitest, RegisterTests, Over, PhaseType, CompileFixtureForTypecheck
<1>3. disk' = [d \in Dir |-> disk'[d]]
  <2>1. disk = [d \in Dir |-> disk[d]]
    BY DEF FInv, TypeF
  <2>2. CASE PrepareNext
    BY <2>1, <2>2 DEF PrepareNext, CompileFixtureForTypecheck
  <2>3. CASE RunVitest
    BY <2>1, <2>3 DEF RunVitest
  <2>4. CASE ~PrepareNext /\ ~RunVitest
    <3>1. disk' = disk
      BY <2>4 DEF Runner, RunnerRefuses, StartPreparing, PreparingEnds, RegisterTests
    <3> QED BY <2>1, <3>1
  <2> QED BY <2>2, <2>3, <2>4
<1>4. UNCHANGED slots
  BY <1>1 DEF Orchestration
<1>5. phase' = "testing" => pending' \subseteq Tests
  <2>1. phase' = "testing" => RegisterTests
    BY <1>1 DEF Runner, RunnerRefuses, StartPreparing, PrepareNext, PreparingEnds, RunVitest,
       CompileFixtureForTypecheck, Over
  <2>2. Registered(tree, FiltersOf(command)) \subseteq Tests
    BY DEF Registered, SelectedFixtures, DiscoveredFixtures, Tests, Dir
  <2> QED BY <2>1, <2>2 DEF RegisterTests
<1> QED BY <1>1, <1>2, <1>3, <1>4, <1>5, PreparationKeeps

(* A test whose promise ends, in time or after it timed out.                 *)
LEMMA EndKeeps ==
  ASSUME FInv, Running, NEW t \in Tests, NEW ok \in BOOLEAN, NEW marks \in BOOLEAN,
         pc[t] \in {"compiling", "loading", "running"}, compile[t[1]] \in CompileOutcome,
         ~ok /\ compile[t[1]] \in Exited => marks,
         Ends(t, ok, marks), TestStep
  PROVE  FInv'
<1> DEFINE d == t[1]
<1>1. /\ phase' = phase /\ disk' = disk /\ compile' = compile /\ compileResults' = compileResults
      /\ visited' = visited /\ pending' = pending
  BY DEF TestStep, slots
<1>2. /\ pc \in [Tests -> {"none", "compiling", "loading", "running", "done"}]
      /\ verdict \in [Tests -> {"none", "passed", "failed", "timedout"}]
      /\ fixtureStatuses \in [Dir -> {"none", "ok", "failed"}]
  BY DEF FInv, TypeF
<1>3. d \in Dir /\ t = <<d, t[2]>> /\ t[2] \in TestPhase
  BY DEF Tests
<1>4. /\ pc' = [pc EXCEPT ![t] = "done"]
      /\ pc'[t] = "done" /\ \A u \in Tests : u # t => pc'[u] = pc[u]
  BY <1>2 DEF Ends
<1>5. verdict[t] \in {"none", "timedout"}
  <2>1. Promised(t)
    BY DEF FInv
  <2> QED BY <1>2, <2>1 DEF Promised
<1>6. /\ verdict' \in [Tests -> {"none", "passed", "failed", "timedout"}]
      /\ verdict'[t] = IF verdict[t] = "timedout" THEN "timedout"
                       ELSE IF ok THEN "passed" ELSE "failed"
      /\ \A u \in Tests : u # t => verdict'[u] = verdict[u]
  BY <1>2, <1>5 DEF Ends, Report
<1>7. /\ fixtureStatuses' \in [Dir -> {"none", "ok", "failed"}]
      /\ fixtureStatuses'[d] = IF ~ok /\ marks THEN "failed" ELSE fixtureStatuses[d]
      /\ \A e \in Dir : e # d => fixtureStatuses'[e] = fixtureStatuses[e]
  BY <1>2, <1>3 DEF Ends, MarkedFailed
<1>8. phase \in {"testing", "cleaning"}
  BY DEF Running
<1>9. TypeF'
  <2>1. pc' \in [Tests -> {"none", "compiling", "loading", "running", "done"}]
    BY <1>2, <1>4
  <2>2. TypeF
    BY DEF FInv
  <2> QED BY <1>1, <1>6, <1>7, <2>1, <2>2 DEF TypeF
<1>10. Begun' /\ Cached' /\ Unstarted' /\ Ended'
  <2>1. Cached /\ Unstarted
    BY DEF FInv
  <2>2. phase = "testing" => \A u \in pending : u \in Tests /\ pc'[u] = "none"
    BY <1>4, <2>1 DEF Unstarted
  <2> QED BY <1>1, <1>8, <2>1, <2>2 DEF Begun, Cached, Unstarted, Ended, Over
<1>11. Answered'
  <2>1. Answered
    BY DEF FInv
  <2>2. ASSUME phase \in Over, NEW u \in Tests
        PROVE  pc'[u] = "none" \/ verdict'[u] # "none"
    BY <1>4, <1>6, <2>1, <2>2 DEF Answered
  <2> QED BY <1>1, <2>2 DEF Answered
<1>12. ASSUME NEW u \in Tests PROVE Promised(u)'
  <2>1. Promised(u)
    BY DEF FInv
  <2> QED BY <1>1, <1>4, <1>6, <2>1 DEF Promised
<1>13. ASSUME NEW e \in Dir PROVE Written(e)'
  <2>1. Written(e)
    BY DEF FInv
  <2>2. fixtureStatuses[e] # "none" => fixtureStatuses'[e] # "none"
    BY <1>7
  <2> QED BY <1>1, <2>1, <2>2 DEF Written
<1>14. ASSUME NEW u \in Tests PROVE Kept(u)'
  <2>1. Kept(u) /\ Written(u[1]) /\ Written(d) /\ u[1] \in Dir
    BY <1>3 DEF FInv, Tests
  <2>2. fixtureStatuses[u[1]] # "none" => fixtureStatuses'[u[1]] # "none"
    BY <1>7, <2>1
  <2>3. fixtureStatuses[u[1]] = "failed" => fixtureStatuses'[u[1]] = "failed"
    BY <1>7, <2>1
  <2>4. CASE u # t
    BY <1>1, <1>6, <2>1, <2>2, <2>3, <2>4 DEF Kept
  <2>5. CASE u = t
    <3>1. verdict'[t] \in {"passed", "failed"} => phase = "testing"
      <4>1. Answered
        BY DEF FInv
      <4> QED BY <1>5, <1>6, <1>8, <4>1 DEF Answered, Over
    <3>2. /\ verdict'[t] = "failed" /\ compile[d] \in Exited =>
               fixtureStatuses'[d] = "failed" /\ disk[d].holds \in {"built", "broken"}
      BY <1>6, <1>7, <2>1, <3>1 DEF Written
    <3>3. verdict'[t] = "passed" => fixtureStatuses'[d] # "none"
      BY <1>7, <2>1, <3>1 DEF Written
    <3> QED BY <1>1, <2>5, <3>2, <3>3 DEF Kept
  <2> QED BY <2>4, <2>5
<1>15. ASSUME NEW e \in Dir PROVE Blamed(e)'
  <2>1. Blamed(e)
    BY DEF FInv
  <2>2. \A p \in TestPhase : verdict[<<e, p>>] \in {"failed", "timedout"} =>
                               verdict'[<<e, p>>] \in {"failed", "timedout"}
    <3> TAKE p \in TestPhase
    <3>1. <<e, p>> \in Tests
      BY DEF Tests
    <3> QED BY <1>5, <1>6, <3>1
  <2>3. fixtureStatuses'[e] = "failed" =>
          fixtureStatuses[e] = "failed" \/ (e = d /\ verdict'[t] \in {"failed", "timedout"})
    BY <1>6, <1>7
  <2>4. fixtureStatuses[e] = "failed" => fixtureStatuses'[e] = "failed"
    BY <1>7
  <2>5. fixtureStatuses'[e] = "failed" => \E p \in TestPhase : verdict'[<<e, p>>] \in {"failed", "timedout"}
    BY <1>3, <2>1, <2>2, <2>3 DEF Blamed
  <2> QED BY <1>1, <2>1, <2>4, <2>5 DEF Blamed
<1> QED BY <1>9, <1>10, <1>11, <1>12, <1>13, <1>14, <1>15 DEF FInv

(* A runtime test that goes on.                                              *)
LEMMA AdvanceKeeps ==
  ASSUME FInv, Running, NEW t \in Tests, NEW next \in {"loading", "running"},
         pc[t] \in {"compiling", "loading"}, compile[t[1]] = "ok",
         pc' = [pc EXCEPT ![t] = next], verdict' = verdict, fixtureStatuses' = fixtureStatuses,
         TestStep
  PROVE  FInv'
<1>1. /\ phase' = phase /\ disk' = disk /\ compile' = compile /\ compileResults' = compileResults
      /\ visited' = visited /\ pending' = pending
  BY DEF TestStep, slots
<1>2. /\ pc' \in [Tests -> {"none", "compiling", "loading", "running", "done"}]
      /\ pc'[t] = next /\ \A u \in Tests : u # t => pc'[u] = pc[u]
  BY DEF FInv, TypeF
<1>3. TypeF'
  BY <1>1, <1>2 DEF FInv, TypeF
<1>4. Begun' /\ Cached' /\ Unstarted' /\ Ended'
  <2>1. Cached /\ Unstarted /\ phase \in {"testing", "cleaning"}
    BY DEF FInv, Running
  <2>2. phase = "testing" => \A u \in pending : u \in Tests /\ pc'[u] = "none"
    BY <1>2, <2>1 DEF Unstarted
  <2> QED BY <1>1, <2>1, <2>2 DEF Begun, Cached, Unstarted, Ended, Over
<1>5. Answered'
  <2>1. Answered
    BY DEF FInv
  <2>2. ASSUME phase \in Over, NEW u \in Tests
        PROVE  pc'[u] = "none" \/ verdict'[u] # "none"
    BY <1>2, <2>1, <2>2 DEF Answered
  <2> QED BY <1>1, <2>2 DEF Answered
<1>6. ASSUME NEW u \in Tests PROVE Promised(u)' /\ Kept(u)'
  <2>1. Promised(u) /\ Kept(u)
    BY DEF FInv
  <2> QED BY <1>1, <1>2, <2>1 DEF Promised, Kept
<1>7. ASSUME NEW d \in Dir PROVE Written(d)' /\ Blamed(d)'
  <2>1. Written(d) /\ Blamed(d)
    BY DEF FInv
  <2> QED BY <1>1, <2>1 DEF Written, Blamed
<1> QED BY <1>3, <1>4, <1>5, <1>6, <1>7 DEF FInv

LEMMA TestsKeep ==
  ASSUME FInv, NEW d \in Dir,
         RunCompileTest(d) \/ RunRuntimeTest(d) \/ LoadGeneratedContract(d) \/ RuntimeEnds(d)
  PROVE  FInv' /\ UNCHANGED slots
<1>1. <<d, "compile">> \in Tests /\ <<d, "runtime">> \in Tests
  BY DEF Tests, TestPhase
<1>2. \A t \in Tests : Promised(t)
  BY DEF FInv
<1>3. CASE RunCompileTest(d)
  <2>1. PICK ok \in BOOLEAN : ok = AsExpectedToCompile(d, compile[d])
    BY DEF AsExpectedToCompile
  <2>2. /\ Running /\ pc[<<d, "compile">>] = "compiling" /\ compile[d] \in CompileOutcome
        /\ Ends(<<d, "compile">>, ok, TRUE) /\ TestStep
    BY <1>3, <2>1 DEF RunCompileTest, Compiled
  <2>3. FInv'
    BY <1>1, <2>2, EndKeeps
  <2> QED BY <2>2, <2>3 DEF TestStep
<1>4. CASE RunRuntimeTest(d)
  <2>1. /\ Running /\ pc[<<d, "runtime">>] = "compiling" /\ compile[d] \in CompileOutcome /\ TestStep
    BY <1>4 DEF RunRuntimeTest, Compiled
  <2>2. CASE compile[d] = "ok"
    <3>1. /\ pc' = [pc EXCEPT ![<<d, "runtime">>] = "loading"]
          /\ verdict' = verdict /\ fixtureStatuses' = fixtureStatuses
      BY <1>4, <2>2 DEF RunRuntimeTest
    <3>2. FInv'
      BY <1>1, <2>1, <2>2, <3>1, AdvanceKeeps
    <3> QED BY <2>1, <3>2 DEF TestStep
  <2>3. CASE compile[d] # "ok"
    <3>1. Ends(<<d, "runtime">>, FALSE, compile[d] \in Exited)
      BY <1>4, <2>3 DEF RunRuntimeTest
    <3>2. PICK marks \in BOOLEAN :
            /\ compile[d] \in Exited => marks
            /\ Ends(<<d, "runtime">>, FALSE, marks)
      <4>1. CASE compile[d] \in Exited
        <5>1. Ends(<<d, "runtime">>, FALSE, TRUE)
          BY <3>1, <4>1 DEF Ends
        <5> QED BY <5>1
      <4>2. CASE compile[d] \notin Exited
        <5>1. Ends(<<d, "runtime">>, FALSE, FALSE)
          BY <3>1, <4>2 DEF Ends
        <5> QED BY <4>2, <5>1
      <4> QED BY <4>1, <4>2
    <3>3. FInv'
      BY <1>1, <2>1, <2>3, <3>2, EndKeeps
    <3> QED BY <2>1, <3>3 DEF TestStep
  <2> QED BY <2>2, <2>3
<1>5. CASE LoadGeneratedContract(d)
  <2>1. Running /\ pc[<<d, "runtime">>] = "loading" /\ TestStep
    BY <1>5 DEF LoadGeneratedContract
  <2>2. compile[d] = "ok"
    BY <1>1, <1>2, <2>1 DEF Promised
  <2>3. CASE /\ pc' = [pc EXCEPT ![<<d, "runtime">>] = "running"]
             /\ verdict' = verdict /\ fixtureStatuses' = fixtureStatuses
    <3>1. FInv'
      BY <1>1, <2>1, <2>2, <2>3, AdvanceKeeps
    <3> QED BY <2>1, <3>1 DEF TestStep
  <2>4. CASE Ends(<<d, "runtime">>, FALSE, TRUE)
    <3>1. FInv'
      BY <1>1, <2>1, <2>2, <2>4, EndKeeps DEF CompileOutcome
    <3> QED BY <2>1, <3>1 DEF TestStep
  <2> QED BY <1>5, <2>3, <2>4 DEF LoadGeneratedContract
<1>6. CASE RuntimeEnds(d)
  <2>1. Running /\ pc[<<d, "runtime">>] = "running" /\ TestStep
    BY <1>6 DEF RuntimeEnds
  <2>2. compile[d] = "ok"
    BY <1>1, <1>2, <2>1 DEF Promised
  <2>3. PICK thrown \in {"nothing", "expected", "other"} :
          Ends(<<d, "runtime">>, AsExpectedToRun(d, thrown), TRUE)
    BY <1>6 DEF RuntimeEnds
  <2>4. PICK ok \in BOOLEAN : ok = AsExpectedToRun(d, thrown)
    BY DEF AsExpectedToRun
  <2>5. FInv'
    BY <1>1, <2>1, <2>2, <2>3, <2>4, EndKeeps DEF CompileOutcome
  <2> QED BY <2>1, <2>5 DEF TestStep
<1> QED BY <1>3, <1>4, <1>5, <1>6

LEMMA TimeoutKeeps ==
  ASSUME FInv, NEW t \in Tests, TimesOut(t)
  PROVE  FInv' /\ UNCHANGED slots
<1>1. /\ phase' = phase /\ disk' = disk /\ compile' = compile /\ compileResults' = compileResults
      /\ visited' = visited /\ fixtureStatuses' = fixtureStatuses /\ pc' = pc
      /\ phase = "testing" /\ pending' = pending /\ UNCHANGED slots
  BY DEF TimesOut, TestStep, slots
<1>2. /\ verdict' \in [Tests -> {"none", "passed", "failed", "timedout"}]
      /\ verdict[t] = "none" /\ verdict'[t] = "timedout"
      /\ \A u \in Tests : u # t => verdict'[u] = verdict[u]
  BY DEF TimesOut, InFlight, Report, FInv, TypeF
<1>3. TypeF'
  BY <1>1, <1>2 DEF FInv, TypeF
<1>4. Begun' /\ Cached' /\ Answered' /\ Unstarted' /\ Ended'
  BY <1>1 DEF FInv, Begun, Cached, Answered, Unstarted, Ended, Over
<1>5. ASSUME NEW u \in Tests PROVE Promised(u)' /\ Kept(u)'
  <2>1. Promised(u) /\ Kept(u)
    BY DEF FInv
  <2> QED BY <1>1, <1>2, <2>1 DEF Promised, Kept
<1>6. ASSUME NEW d \in Dir PROVE Written(d)' /\ Blamed(d)'
  <2>1. Written(d) /\ Blamed(d)
    BY DEF FInv
  <2>2. \A p \in TestPhase : verdict[<<d, p>>] \in {"failed", "timedout"} =>
                               verdict'[<<d, p>>] \in {"failed", "timedout"}
    BY <1>2 DEF Tests
  <2> QED BY <1>1, <2>1, <2>2 DEF Written, Blamed
<1> QED BY <1>1, <1>3, <1>4, <1>5, <1>6 DEF FInv

(* The cleanup of one record.                                                *)
LEMMA CleanupKeeps ==
  ASSUME FInv, NEW d \in Dir, CleanupPassedFixture(d)
  PROVE  FInv' /\ UNCHANGED slots
<1>1. /\ phase = "cleaning" /\ phase' = phase /\ compile' = compile /\ pc' = pc /\ verdict' = verdict
      /\ UNCHANGED slots
  BY DEF CleanupPassedFixture, slots
<1>2. TypeF /\ Answered /\ d \in Records \ visited
  BY DEF FInv, CleanupPassedFixture
<1>3. CASE fixtureStatuses[d] = "failed"
  <2>1. /\ visited' = visited \cup {d} /\ disk' = disk /\ fixtureStatuses' = fixtureStatuses
        /\ compileResults' = compileResults
    BY <1>3 DEF CleanupPassedFixture
  <2>2. TypeF'
    BY <1>1, <1>2, <2>1 DEF TypeF
  <2>3. Begun' /\ Cached' /\ Answered' /\ Unstarted' /\ Ended'
    BY <1>1, <1>2 DEF Begun, Cached, Answered, Unstarted, Ended, Over
  <2>4. ASSUME NEW u \in Tests PROVE Promised(u)' /\ Kept(u)'
    <3>1. Promised(u) /\ Kept(u)
      BY DEF FInv
    <3> QED BY <1>1, <2>1, <3>1 DEF Promised, Kept
  <2>5. ASSUME NEW e \in Dir PROVE Written(e)' /\ Blamed(e)'
    <3>1. Blamed(e)
      BY DEF FInv
    <3> QED BY <1>1, <1>3, <2>1, <3>1 DEF Written, Blamed
  <2> QED BY <1>1, <2>2, <2>3, <2>4, <2>5 DEF FInv
<1>4. CASE fixtureStatuses[d] # "failed"
  <2>1. /\ disk' = [disk EXCEPT ![d] = Output("absent", "test")]
        /\ fixtureStatuses' = [fixtureStatuses EXCEPT ![d] = "none"]
        /\ compileResults' = compileResults \ {d} /\ visited' = visited
    BY <1>4 DEF CleanupPassedFixture
  <2>2. /\ fixtureStatuses' \in [Dir -> {"none", "ok", "failed"}]
        /\ fixtureStatuses'[d] = "none"
        /\ \A e \in Dir : e # d => fixtureStatuses'[e] = fixtureStatuses[e]
    BY <1>2, <2>1 DEF TypeF
  <2>3. /\ disk' = [e \in Dir |-> disk'[e]] /\ disk'[d].holds = "absent"
        /\ \A e \in Dir : e # d => disk'[e] = disk[e]
    BY <1>2, <2>1 DEF TypeF, Output
  <2>4. TypeF'
    BY <1>1, <1>2, <2>1, <2>2, <2>3 DEF TypeF
  <2>5. Begun' /\ Cached' /\ Answered' /\ Unstarted' /\ Ended'
    BY <1>1, <1>2 DEF Begun, Cached, Answered, Unstarted, Ended, Over
  <2>6. ASSUME NEW u \in Tests PROVE Promised(u)' /\ Kept(u)'
    <3>1. Promised(u) /\ Kept(u) /\ u[1] \in Dir
      BY DEF FInv, Tests
    <3>2. CASE u[1] = d
      BY <1>1, <1>4, <2>2, <2>3, <3>1, <3>2 DEF Promised, Kept
    <3>3. CASE u[1] # d
      BY <1>1, <2>2, <2>3, <3>1, <3>3 DEF Promised, Kept
    <3> QED BY <3>2, <3>3
  <2>7. ASSUME NEW e \in Dir PROVE Written(e)' /\ Blamed(e)'
    <3>1. Blamed(e)
      BY DEF FInv
    <3> QED BY <1>1, <1>2, <1>4, <2>1, <2>2, <3>1 DEF Written, Blamed
  <2> QED BY <1>1, <2>4, <2>5, <2>6, <2>7 DEF FInv
<1> QED BY <1>3, <1>4

LEMMA PhaseKeeps ==
  ASSUME FInv, StartCleanup \/ CleanupEnds
  PROVE  FInv' /\ UNCHANGED slots
<1>1. /\ disk' = disk /\ compile' = compile /\ compileResults' = compileResults /\ visited' = visited
      /\ fixtureStatuses' = fixtureStatuses /\ pc' = pc /\ verdict' = verdict /\ UNCHANGED slots
  BY DEF StartCleanup, CleanupEnds, Orchestration, slots
<1>2. /\ phase' \in Over /\ phase \in {"testing", "cleaning"}
      /\ phase' = "finished" => Records \subseteq visited
  BY DEF StartCleanup, CleanupEnds, Over
<1>3. TypeF'
  BY <1>1, <1>2 DEF FInv, TypeF, Over, PhaseType
<1>4. Begun' /\ Cached' /\ Unstarted' /\ Ended'
  BY <1>1, <1>2 DEF Begun, Cached, Unstarted, Ended, Over, Records
<1>5. Answered'
  <2>1. ASSUME NEW u \in Tests PROVE pc[u] = "none" \/ verdict[u] # "none"
    <3>1. CASE StartCleanup
      BY <3>1 DEF StartCleanup, AllReported, InFlight
    <3>2. CASE CleanupEnds
      BY <3>2 DEF CleanupEnds, FInv, Answered, Over
    <3> QED BY <3>1, <3>2
  <2> QED BY <1>1, <2>1 DEF Answered
<1>6. ASSUME NEW u \in Tests PROVE Promised(u)' /\ Kept(u)'
  BY <1>1 DEF FInv, Promised, Kept
<1>7. ASSUME NEW e \in Dir PROVE Written(e)' /\ Blamed(e)'
  BY <1>1, <1>2 DEF FInv, Written, Blamed, Over
<1> QED BY <1>1, <1>3, <1>4, <1>5, <1>6, <1>7 DEF FInv

------------------------------------------------------------------------------
(* Compiles                                                                  *)

LEMMA RemoveKeeps ==
  ASSUME FInv, SInv, NEW d \in Dir, RemoveOutput(d)
  PROVE  FInv' /\ SInv'
<1>1. /\ phase' = phase /\ phase \in {"testing", "cleaning"} /\ compileResults' = compileResults
      /\ visited' = visited /\ pc' = pc /\ verdict' = verdict /\ pending' = pending
      /\ compile[d] = "granted" /\ compile' = [compile EXCEPT ![d] = "removed"]
      /\ fixtureStatuses' = [fixtureStatuses EXCEPT ![d] = IF @ = "none" THEN "ok" ELSE @]
      /\ disk' = [disk EXCEPT ![d] = Output("absent", "test")]
      /\ compileSlotQueue' = compileSlotQueue
      /\ activeNormalCompiles' = activeNormalCompiles
      /\ activeExclusiveCompile' = activeExclusiveCompile
  BY DEF RemoveOutput, Running
<1>2. TypeF /\ compile \in [Dir -> CompileState]
  BY DEF FInv, SInv, SlotsOK
<1>3. /\ compile' \in [Dir -> CompileState]
      /\ compile'[d] = "removed" /\ \A e \in Dir : e # d => compile'[e] = compile[e]
  BY <1>1, <1>2 DEF CompileState, Holding
<1>4. /\ fixtureStatuses' \in [Dir -> {"none", "ok", "failed"}]
      /\ fixtureStatuses'[d] # "none"
      /\ fixtureStatuses'[d] = "failed" <=> fixtureStatuses[d] = "failed"
      /\ \A e \in Dir : e # d => fixtureStatuses'[e] = fixtureStatuses[e]
  BY <1>1, <1>2 DEF TypeF
<1>5. /\ disk' = [e \in Dir |-> disk'[e]]
      /\ \A e \in Dir : e # d => disk'[e] = disk[e]
  BY <1>1, <1>2 DEF TypeF
<1>6. TypeF'
  BY <1>1, <1>2, <1>4, <1>5 DEF TypeF
<1>7. Begun' /\ Cached' /\ Answered' /\ Unstarted' /\ Ended'
  <2>1. Cached /\ Answered /\ Unstarted
    BY DEF FInv
  <2>2. phase \notin Over => \A e \in Dir \ compileResults : compile'[e] = "none"
    BY <1>1, <1>3, <2>1 DEF Cached
  <2> QED BY <1>1, <2>1, <2>2 DEF Begun, Cached, Answered, Unstarted, Ended, Over
<1>8. ASSUME NEW u \in Tests PROVE Promised(u)' /\ Kept(u)'
  <2>1. Promised(u) /\ Kept(u) /\ u[1] \in Dir
    BY DEF FInv, Tests
  <2>2. CASE u[1] = d
    <3>1. compile[d] \notin CompileOutcome /\ compile'[d] \notin CompileOutcome
      BY <1>1, <1>3 DEF CompileOutcome
    <3>2. pc[u] \notin {"loading", "running"} /\ verdict[u] \notin {"passed", "failed"}
      BY <2>1, <2>2, <3>1 DEF Promised, CompileOutcome
    <3> QED BY <1>1, <3>2 DEF Promised, Kept
  <2>3. CASE u[1] # d
    BY <1>1, <1>3, <1>4, <1>5, <2>1, <2>3 DEF Promised, Kept
  <2> QED BY <2>2, <2>3
<1>9. ASSUME NEW e \in Dir PROVE Written(e)' /\ Blamed(e)'
  <2>1. Written(e) /\ Blamed(e)
    BY DEF FInv
  <2>2. CASE e = d
    BY <1>1, <1>3, <1>4, <2>1, <2>2 DEF Written, Blamed, CompileOutcome, Exited
  <2>3. CASE e # d
    BY <1>1, <1>3, <1>4, <1>5, <2>1, <2>3 DEF Written, Blamed
  <2> QED BY <2>2, <2>3
<1>10. Held(compile') = Held(compile)
  BY <1>1, <1>2, <1>3 DEF Held, Holding
<1>11. SInv'
  <2>1. /\ compileSlotQueue \in Seq(Dir)
        /\ \A i \in 1 .. Len(compileSlotQueue) : compile[compileSlotQueue[i]] = "queued"
    BY DEF SInv, SlotsOK
  <2>2. \A i \in 1 .. Len(compileSlotQueue) : compile'[compileSlotQueue[i]] = "queued"
    BY <1>1, <1>3, <2>1
  <2>3. SlotsOK(compile', compileSlotQueue', activeNormalCompiles', activeExclusiveCompile')
    BY <1>1, <1>3, <1>10, <2>1, <2>2, ZenonT(60) DEF SInv, SlotsOK
  <2>4. Blocked(compile', compileSlotQueue')
    BY <1>1, <1>10 DEF SInv, Blocked
  <2> QED BY <2>3, <2>4 DEF SInv
<1> QED BY <1>6, <1>7, <1>8, <1>9, <1>11 DEF FInv

(* The end of a compile is a drain of the slots it leaves.                   *)
LEMMA ReleaseDrains ==
  ASSUME SInv, NEW d \in Dir, compile[d] \in Holding, NEW outcome \in CompileOutcome,
         ReleaseCompileSlot(d, outcome),
         NEW states, states = [compile EXCEPT ![d] = outcome]
  PROVE  \E active, exclusive :
           /\ SlotsOK(states, compileSlotQueue, active, exclusive)
           /\ DrainCompileSlotQueue(states, compileSlotQueue, active, exclusive)
<1>1. PICK active, exclusive :
        /\ active = IF IsSlowFixture(d) THEN activeNormalCompiles ELSE activeNormalCompiles - 1
        /\ exclusive = (activeExclusiveCompile /\ ~IsSlowFixture(d))
  OBVIOUS
<1>2. /\ IsSlowFixture(d) => SlotsOK(states, compileSlotQueue, activeNormalCompiles, FALSE)
      /\ ~IsSlowFixture(d) => SlotsOK(states, compileSlotQueue, activeNormalCompiles - 1, FALSE)
      /\ (activeExclusiveCompile /\ ~IsSlowFixture(d)) = FALSE
  BY ReleasedSlots DEF SInv
<1>3. exclusive = FALSE
  BY <1>1, <1>2
<1>4. SlotsOK(states, compileSlotQueue, active, exclusive)
  BY <1>1, <1>2, <1>3
<1>5. DrainCompileSlotQueue(states, compileSlotQueue, active, exclusive)
  BY <1>1 DEF ReleaseCompileSlot
<1> QED BY <1>4, <1>5

LEMMA CompileKeeps ==
  ASSUME FInv, SInv, NEW d \in Dir, CompileContract(d)
  PROVE  FInv' /\ SInv'
<1>1. PICK outcome \in CompileOutcome :
        /\ disk' = [disk EXCEPT ![d] = Output(CASE outcome = "ok" -> "built"
                                                [] outcome = "rejected" -> "empty"
                                                [] OTHER -> "broken", "test")]
        /\ ReleaseCompileSlot(d, outcome)
  BY DEF CompileContract, Outcomes
<1>2. /\ phase' = phase /\ phase \in {"testing", "cleaning"} /\ compileResults' = compileResults
      /\ visited' = visited /\ pc' = pc /\ verdict' = verdict /\ fixtureStatuses' = fixtureStatuses
      /\ pending' = pending /\ compile[d] = "removed"
  BY DEF CompileContract, Running
<1>3. TypeF /\ compile \in [Dir -> CompileState]
  BY DEF FInv, SInv, SlotsOK
<1>4. /\ SInv'
      /\ \A e \in Dir : \/ compile'[e] = [compile EXCEPT ![d] = outcome][e]
                        \/ /\ [compile EXCEPT ![d] = outcome][e] = "queued"
                           /\ compile'[e] = "granted"
  <2>1. compile[d] \in Holding
    BY <1>2 DEF Holding
  <2>2. PICK states : states = [compile EXCEPT ![d] = outcome]
    OBVIOUS
  <2>3. PICK active, exclusive :
          /\ SlotsOK(states, compileSlotQueue, active, exclusive)
          /\ DrainCompileSlotQueue(states, compileSlotQueue, active, exclusive)
    BY <1>1, <2>1, <2>2, ReleaseDrains
  <2>4. SInv' /\ \A e \in Dir : compile'[e] = states[e] \/ (states[e] = "queued" /\ compile'[e] = "granted")
    BY <2>3, DrainSlots
  <2> QED BY <2>2, <2>4
<1>5. /\ compile'[d] = outcome
      /\ \A e \in Dir : e # d => \/ compile'[e] = compile[e]
                                 \/ compile[e] = "queued" /\ compile'[e] = "granted"
  BY <1>3, <1>4 DEF CompileOutcome
<1>6. /\ disk' = [e \in Dir |-> disk'[e]]
      /\ \A e \in Dir : e # d => disk'[e] = disk[e]
  BY <1>1, <1>3 DEF TypeF
<1>7. /\ outcome = "ok" => disk'[d] = Output("built", "test")
      /\ outcome \in Exited => disk'[d].holds \in {"built", "broken"}
  BY <1>1, <1>3 DEF TypeF, Output, Exited, CompileOutcome
<1>8. TypeF'
  BY <1>2, <1>3, <1>6 DEF TypeF
<1>9. Begun' /\ Cached' /\ Answered' /\ Unstarted' /\ Ended'
  <2>1. Cached /\ Answered /\ Unstarted
    BY DEF FInv
  <2>2. phase \notin Over => \A e \in Dir \ compileResults : compile'[e] = "none"
    <3>1. SUFFICES ASSUME phase \notin Over, NEW e \in Dir \ compileResults
                   PROVE  compile'[e] = "none"
      OBVIOUS
    <3>2. compile[e] = "none"
      BY <2>1, <3>1 DEF Cached
    <3> QED BY <1>2, <1>5, <3>2
  <2> QED BY <1>2, <2>1, <2>2 DEF Begun, Cached, Answered, Unstarted, Ended, Over
<1>10. ASSUME NEW u \in Tests PROVE Promised(u)' /\ Kept(u)'
  <2>1. Promised(u) /\ Kept(u) /\ u[1] \in Dir
    BY DEF FInv, Tests
  <2>2. CASE u[1] = d
    <3>1. compile[d] \notin CompileOutcome
      BY <1>2 DEF CompileOutcome
    <3>2. pc[u] \notin {"loading", "running"} /\ verdict[u] \notin {"passed", "failed"}
      BY <2>1, <2>2, <3>1 DEF Promised, CompileOutcome
    <3> QED BY <1>2, <3>2 DEF Promised, Kept
  <2>3. CASE u[1] # d
    <3>1. /\ compile[u[1]] \in CompileOutcome => compile'[u[1]] = compile[u[1]]
          /\ compile'[u[1]] \in CompileOutcome => compile'[u[1]] = compile[u[1]]
      BY <1>5, <2>1, <2>3 DEF CompileOutcome
    <3>2. disk'[u[1]] = disk[u[1]]
      BY <1>6, <2>1, <2>3
    <3>3. Promised(u)'
      BY <1>2, <2>1, <3>1 DEF Promised, CompileOutcome
    <3>4. Kept(u)'
      BY <1>2, <2>1, <3>1, <3>2 DEF Kept, Exited
    <3> QED BY <3>3, <3>4
  <2> QED BY <2>2, <2>3
<1>11. ASSUME NEW e \in Dir PROVE Written(e)' /\ Blamed(e)'
  <2>1. Written(e) /\ Blamed(e)
    BY DEF FInv
  <2>2. Blamed(e)'
    BY <1>2, <2>1 DEF Blamed
  <2>3. CASE e = d
    <3>1. phase = "testing" => fixtureStatuses[d] # "none"
      BY <1>2, <2>1, <2>3 DEF Written
    <3> QED BY <1>2, <1>5, <1>7, <2>2, <2>3, <3>1 DEF Written
  <2>4. CASE e # d
    <3>1. compile'[e] \in {"removed"} \cup CompileOutcome => compile'[e] = compile[e]
      BY <1>5, <2>4 DEF CompileOutcome
    <3>2. disk'[e] = disk[e]
      BY <1>6, <2>4
    <3> QED BY <1>2, <2>1, <2>2, <3>1, <3>2 DEF Written, Exited, CompileOutcome
  <2> QED BY <2>3, <2>4
<1> QED BY <1>4, <1>8, <1>9, <1>10, <1>11 DEF FInv

(* Starting a test: the first of a fixture queues its compile.               *)
LEMMA StartKeeps ==
  ASSUME FInv, SInv, StartTest
  PROVE  FInv' /\ SInv'
<1>1. PICK t \in pending :
        /\ pending' = pending \ {t}
        /\ pc' = [pc EXCEPT ![t] = "compiling"]
        /\ compileResults' = compileResults \cup {t[1]}
        /\ IF t[1] \in compileResults THEN UNCHANGED slots ELSE AcquireCompileSlot(t[1])
  BY DEF StartTest
<1>2. /\ phase = "testing" /\ phase' = phase /\ disk' = disk /\ fixtureStatuses' = fixtureStatuses
      /\ visited' = visited /\ verdict' = verdict
  BY DEF StartTest
<1>3. TypeF /\ compile \in [Dir -> CompileState] /\ Cached /\ Unstarted
  BY DEF FInv, SInv, SlotsOK
<1>4. pending \subseteq {u \in Tests : pc[u] = "none"}
  BY <1>2, <1>3 DEF Unstarted
<1>5. t \in Tests /\ pc[t] = "none" /\ t[1] \in Dir
  BY <1>4 DEF Tests
<1>6. /\ pc' \in [Tests -> {"none", "compiling", "loading", "running", "done"}]
      /\ pc'[t] = "compiling" /\ \A u \in Tests : u # t => pc'[u] = pc[u]
  BY <1>1, <1>3, <1>5 DEF TypeF
<1>7. /\ SInv'
      /\ \A e \in Dir : \/ compile'[e] = compile[e]
                        \/ /\ compile[e] \in {"none", "queued"} /\ compile'[e] \in {"queued", "granted"}
                           /\ e \in compileResults \cup {t[1]}
  <2>1. CASE t[1] \in compileResults
    <3>1. UNCHANGED slots
      BY <1>1, <2>1
    <3> QED BY <3>1 DEF slots, SInv, SlotsOK, Blocked, Held
  <2>2. CASE t[1] \notin compileResults
    <3>1. compile[t[1]] = "none"
      BY <1>2, <1>3, <1>5, <2>2 DEF Cached, Over
    <3>2. PICK states, queue :
            states = [compile EXCEPT ![t[1]] = "queued"] /\ queue = Append(compileSlotQueue, t[1])
      OBVIOUS
    <3>3. SlotsOK(states, queue, activeNormalCompiles, activeExclusiveCompile)
      BY <1>5, <3>1, <3>2, QueuedSlots DEF SInv
    <3>4. DrainCompileSlotQueue(states, queue, activeNormalCompiles, activeExclusiveCompile)
      BY <1>1, <2>2, <3>2 DEF AcquireCompileSlot
    <3>5. SInv' /\ \A e \in Dir : compile'[e] = states[e] \/ (states[e] = "queued" /\ compile'[e] = "granted")
      BY <3>3, <3>4, DrainSlots
    <3>6. states[t[1]] = "queued" /\ \A e \in Dir : e # t[1] => states[e] = compile[e]
      BY <1>3, <1>5, <3>2
    <3>7. \A e \in Dir : compile[e] = "queued" => e \in compileResults
      BY <1>2, <1>3 DEF Cached, Over
    <3> QED BY <3>1, <3>5, <3>6, <3>7
  <2> QED BY <2>1, <2>2
<1>8. TypeF'
  BY <1>1, <1>2, <1>3, <1>5, <1>6 DEF TypeF
<1>9. Begun' /\ Cached' /\ Answered' /\ Unstarted' /\ Ended'
  <2>1. \A e \in Dir \ compileResults' : compile'[e] = "none"
    <3> TAKE e \in Dir \ compileResults'
    <3>1. e \notin compileResults /\ e # t[1] /\ e \in Dir
      BY <1>1
    <3>2. compile[e] = "none"
      BY <1>2, <1>3, <3>1 DEF Cached, Over
    <3> QED BY <1>7, <3>1, <3>2
  <2>2. \A u \in pending' : u \in Tests /\ pc'[u] = "none"
    BY <1>1, <1>4, <1>6
  <2> QED BY <1>2, <2>1, <2>2 DEF Begun, Cached, Answered, Unstarted, Ended, Over
<1>10. ASSUME NEW u \in Tests PROVE Promised(u)' /\ Kept(u)'
  <2>1. Promised(u) /\ Kept(u) /\ u[1] \in Dir
    BY DEF FInv, Tests
  <2>2. verdict[u] \in {"passed", "failed"} => u # t
    BY <1>5, <2>1 DEF Promised
  <2>3. /\ compile[u[1]] \in CompileOutcome => compile'[u[1]] = compile[u[1]]
        /\ compile'[u[1]] \in CompileOutcome => compile'[u[1]] = compile[u[1]]
    BY <1>7, <2>1 DEF CompileOutcome
  <2>4. Promised(u)'
    BY <1>2, <1>6, <2>1, <2>2, <2>3 DEF Promised, CompileOutcome
  <2>5. Kept(u)'
    BY <1>2, <2>1, <2>3 DEF Kept, Exited
  <2> QED BY <2>4, <2>5
<1>11. ASSUME NEW e \in Dir PROVE Written(e)' /\ Blamed(e)'
  <2>1. Written(e) /\ Blamed(e)
    BY DEF FInv
  <2>2. compile'[e] \in {"removed"} \cup CompileOutcome => compile'[e] = compile[e]
    BY <1>7 DEF CompileOutcome
  <2> QED BY <1>2, <2>1, <2>2 DEF Written, Blamed, Exited, CompileOutcome
<1> QED BY <1>7, <1>8, <1>9, <1>10, <1>11 DEF FInv

LEMMA SlotsUnchanged ==
  ASSUME SInv, UNCHANGED slots
  PROVE  SInv'
BY DEF slots, SInv, SlotsOK, Blocked, Held

LEMMA NextKeeps == FInv /\ SInv /\ [Next]_vars => FInv' /\ SInv'
<1> SUFFICES ASSUME FInv, SInv, [Next]_vars PROVE FInv' /\ SInv'
  OBVIOUS
<1>1. CASE Runner
  BY <1>1, RunnerKeeps, SlotsUnchanged
<1>2. CASE StartTest
  BY <1>2, StartKeeps
<1>3. ASSUME NEW d \in Dir, RemoveOutput(d) PROVE FInv' /\ SInv'
  BY <1>3, RemoveKeeps
<1>4. ASSUME NEW d \in Dir,
             RunCompileTest(d) \/ RunRuntimeTest(d) \/ LoadGeneratedContract(d) \/ RuntimeEnds(d)
      PROVE  FInv' /\ SInv'
  BY <1>4, TestsKeep, SlotsUnchanged
<1>5. ASSUME NEW d \in Dir, CleanupPassedFixture(d) PROVE FInv' /\ SInv'
  BY <1>5, CleanupKeeps, SlotsUnchanged
<1>6. ASSUME NEW t \in Tests, TimesOut(t) PROVE FInv' /\ SInv'
  BY <1>6, TimeoutKeeps, SlotsUnchanged
<1>7. CASE StartCleanup \/ CleanupEnds
  BY <1>7, PhaseKeeps, SlotsUnchanged
<1>8. ASSUME NEW d \in Dir, CompileContract(d) PROVE FInv' /\ SInv'
  BY <1>8, CompileKeeps
<1>9. CASE UNCHANGED vars
  <2>1. /\ UNCHANGED slots
        /\ phase' = phase /\ disk' = disk /\ compile' = compile /\ compileResults' = compileResults
        /\ fixtureStatuses' = fixtureStatuses /\ visited' = visited /\ pc' = pc /\ verdict' = verdict
        /\ pending' = pending
    BY <1>9 DEF vars, slots
  <2>2. SInv'
    BY <2>1, SlotsUnchanged
  <2>3. TypeF' /\ Begun' /\ Cached' /\ Answered' /\ Unstarted' /\ Ended'
    BY <2>1 DEF FInv, TypeF, Begun, Cached, Answered, Unstarted, Ended, Records
  <2>4. ASSUME NEW u \in Tests PROVE Promised(u)' /\ Kept(u)'
    BY <2>1 DEF FInv, Promised, Kept
  <2>5. ASSUME NEW e \in Dir PROVE Written(e)' /\ Blamed(e)'
    BY <2>1 DEF FInv, Written, Blamed
  <2> QED BY <2>2, <2>3, <2>4, <2>5 DEF FInv
<1> QED BY <1>1, <1>2, <1>3, <1>4, <1>5, <1>6, <1>7, <1>8, <1>9 DEF Next, Orchestrator

LEMMA Invariants == Spec => [](FInv /\ SInv)
<1>1. Init => FInv /\ SInv
  BY InitFInv, InitSlots
<1> QED BY <1>1, NextKeeps, PTL DEF Spec

(* Slow compiles have the compilers to themselves, normal ones stay within   *)
(* their limit, and nobody waits in front of a free slot (withCompileSlot,   *)
(* drainCompileSlotQueue), for any fixtures and any limit.                   *)
THEOREM SlotsStayShared == Spec => []SlotsAreShared
<1>1. SInv => SlotsAreShared
  <2> SUFFICES ASSUME SInv PROVE SlotsAreShared
    OBVIOUS
  <2>1. Holders = Held(compile)
    BY DEF Holders, Held
  <2>2. Exclusive
    BY <2>1 DEF SInv, SlotsOK, Exclusive, IsSlowFixture
  <2>3. WaitersAreBlocked
    BY <2>1 DEF SInv, Blocked, WaitersAreBlocked
  <2> QED BY <2>2, <2>3 DEF SlotsAreShared
<1> QED BY <1>1, Invariants, PTL

(* A runtime test that has not been reported runs the output of the one      *)
(* successful compile of this command (runRuntimeTest).                      *)
THEOREM RuntimesSeeTheirOwnCompile == Spec => []RuntimeSeesItsOwnCompile
<1>1. FInv => RuntimeSeesItsOwnCompile
  <2> SUFFICES ASSUME FInv, NEW d \in Dir,
                      pc[<<d, "runtime">>] = "running", verdict[<<d, "runtime">>] = "none"
               PROVE  compile[d] = "ok" /\ disk[d] = Output("built", "test")
    BY DEF RuntimeSeesItsOwnCompile
  <2>1. <<d, "runtime">> \in Tests
    BY DEF Tests, TestPhase
  <2>2. compile[d] = "ok"
    BY <2>1 DEF FInv, Promised
  <2>3. phase = "testing"
    BY <2>1 DEF FInv, Begun, Answered
  <2> QED BY <2>2, <2>3 DEF FInv, Written
<1> QED BY <1>1, Invariants, PTL

(* When the cleanup is over, the output of a fixture whose tests passed is   *)
(* gone and that of one whose test failed is there (cleanupPassedFixtures),  *)
(* whatever timed out on the way.                                            *)
THEOREM ArtifactsFollow == Spec => []ArtifactsFollowVerdicts
<1>1. FInv => ArtifactsFollowVerdicts
  <2> SUFFICES ASSUME FInv, phase = "finished", NEW d \in Dir,
                      NEW verdicts, verdicts = {verdict[<<d, p>>] : p \in TestPhase} \ {"none"}
               PROVE  /\ verdicts = {"passed"} => disk[d].holds = "absent"
                      /\ "failed" \in verdicts /\ compile[d] \in Exited =>
                           disk[d].holds \in {"built", "broken"}
    BY DEF ArtifactsFollowVerdicts
  <2>1. \A p \in TestPhase : <<d, p>> \in Tests /\ <<d, p>>[1] = d
    BY DEF Tests
  <2>2. \A p \in TestPhase : Kept(<<d, p>>)
    BY <2>1 DEF FInv
  <2>3. "failed" \in verdicts /\ compile[d] \in Exited => disk[d].holds \in {"built", "broken"}
    BY <2>2 DEF Kept
  <2>4. ASSUME verdicts = {"passed"} PROVE disk[d].holds = "absent"
    <3>1. PICK p \in TestPhase : verdict[<<d, p>>] = "passed"
      BY <2>4
    <3>2. \A q \in TestPhase : verdict[<<d, q>>] \in {"none", "passed"}
      BY <2>4
    <3>3. fixtureStatuses[d] # "failed"
      BY <3>2 DEF FInv, Blamed
    <3>4. d \notin visited
      BY <3>3 DEF FInv, Blamed
    <3>5. fixtureStatuses[d] = "none"
      BY <3>4 DEF FInv, Ended, Records
    <3> QED BY <2>2, <3>1, <3>5 DEF Kept
  <2> QED BY <2>3, <2>4
<1> QED BY <1>1, Invariants, PTL

------------------------------------------------------------------------------
(* The order of registration and of the queue                                *)

(* A normal fixture that waits does not wait behind a slow one.              *)
InOrder(states, queue) ==
  \A i \in 1 .. Len(queue) :
    ~IsSlowFixture(queue[i]) =>
      /\ \A d \in Held(states) : ~IsSlowFixture(d)
      /\ \A j \in 1 .. i : ~IsSlowFixture(queue[j])

(* The compile test of a fixture comes before its runtime test, and those of *)
(* the slow fixtures after those of the others.                              *)
Ordered ==
  /\ phase \notin {"testing"} \cup Over => compileResults = {}
  /\ phase = "testing" =>
       /\ \A d \in Dir \ SlowDirs : <<d, "compile">> \in pending => compileResults \cap SlowDirs = {}
       /\ \A d \in Dir : <<d, "runtime">> \in pending =>
                           <<d, "compile">> \in pending \/ d \in compileResults

OInv == InOrder(compile, compileSlotQueue) /\ Ordered

LEMMA DrainInOrder ==
  ASSUME NEW states, NEW queue, NEW active, NEW exclusive,
         SlotsOK(states, queue, active, exclusive), InOrder(states, queue),
         DrainCompileSlotQueue(states, queue, active, exclusive)
  PROVE  InOrder(compile', compileSlotQueue')
<1>1. PICK n \in 0 .. Len(queue) : Granting(states, queue, n, compile', compileSlotQueue')
  BY DrainGrantsSome
<1>2. PICK rest : rest = compileSlotQueue'
  OBVIOUS
<1>3. /\ rest \in Seq(Dir) /\ queue \in Seq(Dir)
      /\ \A i \in 1 .. Len(rest) : n + i \in 1 .. Len(queue) /\ rest[i] = queue[n + i]
      /\ Held(compile') = Held(states) \cup FirstOf(queue, n)
  BY <1>1, <1>2 DEF Granting, SlotsOK
<1>4. n \in Nat /\ Len(queue) \in Nat /\ Len(rest) \in Nat
  BY <1>3
<1>5. ASSUME NEW i \in 1 .. Len(rest), ~IsSlowFixture(rest[i])
      PROVE  /\ \A d \in Held(compile') : ~IsSlowFixture(d)
             /\ \A j \in 1 .. i : ~IsSlowFixture(rest[j])
  <2>1. n + i \in 1 .. Len(queue) /\ ~IsSlowFixture(queue[n + i])
    BY <1>3, <1>5
  <2>2. /\ \A d \in Held(states) : ~IsSlowFixture(d)
        /\ \A j \in 1 .. n + i : ~IsSlowFixture(queue[j])
    BY <2>1 DEF InOrder
  <2>3. \A j \in 1 .. n : j \in 1 .. n + i
    BY <1>4
  <2>4. \A d \in FirstOf(queue, n) : ~IsSlowFixture(d)
    BY <2>2, <2>3 DEF FirstOf
  <2>5. \A j \in 1 .. i : j \in 1 .. Len(rest) /\ n + j \in 1 .. n + i
    BY <1>4
  <2>6. \A j \in 1 .. i : ~IsSlowFixture(rest[j])
    BY <1>3, <2>2, <2>5
  <2> QED BY <1>3, <2>2, <2>4, <2>6
<1> QED BY <1>2, <1>5 DEF InOrder

LEMMA OrderUnchanged ==
  ASSUME OInv, phase' = phase \/ phase' \in Over,
         compile' = compile, compileSlotQueue' = compileSlotQueue,
         phase' \notin Over => compileResults' = compileResults /\ pending' = pending
  PROVE  OInv'
<1>1. InOrder(compile', compileSlotQueue')
  BY DEF OInv
<1>2. Ordered'
  BY DEF OInv, Ordered, Over
<1> QED BY <1>1, <1>2 DEF OInv

(* The tests as they are registered.                                         *)
LEMMA RunnerKeepsOrder ==
  ASSUME FInv, OInv, Runner
  PROVE  OInv'
<1>1. /\ phase \notin {"testing"} \cup Over /\ compile' = compile
      /\ compileSlotQueue' = compileSlotQueue /\ compileResults' = compileResults
  BY DEF Runner, RunnerRefuses, StartPreparing, PrepareNext, PreparingEnds, RunVitest,
         RegisterTests, Over, Orchestration, slots
<1>2. InOrder(compile', compileSlotQueue')
  BY <1>1 DEF OInv
<1>3. compileResults' = {}
  BY <1>1 DEF OInv, Ordered
<1>4. \A d \in Dir : phase' = "testing" /\ <<d, "runtime">> \in pending' => <<d, "compile">> \in pending'
  <2>1. phase' = "testing" => RegisterTests
    BY <1>1 DEF Runner, RunnerRefuses, StartPreparing, PrepareNext, PreparingEnds, RunVitest,
       CompileFixtureForTypecheck, Over
  <2>2. \A d \in Dir : <<d, "runtime">> \in Registered(tree, FiltersOf(command)) =>
                         <<d, "compile">> \in Registered(tree, FiltersOf(command))
    BY DEF Registered, TestPhase
  <2> QED BY <2>1, <2>2 DEF RegisterTests
<1>5. Ordered'
  BY <1>3, <1>4 DEF Ordered
<1> QED BY <1>2, <1>5 DEF OInv

(* A fixture joins the queue behind those registered before it.              *)
LEMMA QueuedInOrder ==
  ASSUME NEW states, NEW queue, NEW active, NEW exclusive,
         SlotsOK(states, queue, active, exclusive), InOrder(states, queue),
         NEW d \in Dir, states[d] = "none",
         ~IsSlowFixture(d) => \A e \in SlowDirs : states[e] = "none",
         NEW after, NEW longer,
         after = [states EXCEPT ![d] = "queued"], longer = Append(queue, d)
  PROVE  InOrder(after, longer)
<1>1. /\ states \in [Dir -> CompileState] /\ queue \in Seq(Dir)
      /\ \A i \in 1 .. Len(queue) : states[queue[i]] = "queued"
  BY DEF SlotsOK
<1>2. Held(after) = Held(states)
  BY <1>1 DEF Held, Holding
<1>3. Len(longer) = Len(queue) + 1 /\ Len(queue) \in Nat
  BY <1>1
<1>4. /\ \A i \in 1 .. Len(queue) : i \in 1 .. Len(longer) /\ longer[i] = queue[i]
      /\ longer[Len(queue) + 1] = d
  BY <1>1, <1>3
<1>5. ASSUME NEW i \in 1 .. Len(longer), ~IsSlowFixture(longer[i])
      PROVE  /\ \A e \in Held(after) : ~IsSlowFixture(e)
             /\ \A j \in 1 .. i : ~IsSlowFixture(longer[j])
  <2>1. CASE i \in 1 .. Len(queue)
    <3>1. /\ \A e \in Held(states) : ~IsSlowFixture(e)
          /\ \A j \in 1 .. i : ~IsSlowFixture(queue[j])
      BY <1>4, <1>5, <2>1 DEF InOrder
    <3>2. \A j \in 1 .. i : j \in 1 .. Len(queue)
      BY <1>3, <2>1
    <3> QED BY <1>2, <1>4, <3>1, <3>2
  <2>2. CASE i = Len(queue) + 1
    <3>1. \A e \in SlowDirs : states[e] = "none"
      BY <1>4, <1>5, <2>2
    <3>2. \A e \in Held(after) : ~IsSlowFixture(e)
      BY <1>2, <3>1 DEF Held, Holding, IsSlowFixture
    <3>3. \A j \in 1 .. Len(queue) : ~IsSlowFixture(longer[j])
      BY <1>1, <1>4, <3>1 DEF IsSlowFixture
    <3>4. \A j \in 1 .. i : j \in 1 .. Len(queue) \/ j = i
      BY <1>3, <2>2
    <3>5. \A j \in 1 .. i : ~IsSlowFixture(longer[j])
      BY <1>5, <3>3, <3>4
    <3> QED BY <3>2, <3>5
  <2>3. i \in 1 .. Len(queue) \/ i = Len(queue) + 1
    BY <1>3
  <2> QED BY <2>1, <2>2, <2>3
<1> QED BY <1>5 DEF InOrder

LEMMA StartKeepsOrder ==
  ASSUME FInv, SInv, OInv, StartTest
  PROVE  OInv'
<1>1. PICK t \in pending :
        /\ \A u \in pending : ~RegisteredBefore(u, t)
        /\ pending' = pending \ {t}
        /\ compileResults' = compileResults \cup {t[1]}
        /\ IF t[1] \in compileResults THEN UNCHANGED slots ELSE AcquireCompileSlot(t[1])
  BY DEF StartTest
<1>2. phase = "testing" /\ phase' = "testing"
  BY DEF StartTest
<1>3. t \in Tests
  BY <1>2 DEF FInv, Unstarted
<1>4. PICK d \in Dir, p \in TestPhase : t = <<d, p>>
  BY <1>3 DEF Tests
<1>5. /\ \A e \in Dir \ SlowDirs : <<e, "compile">> \in pending => compileResults \cap SlowDirs = {}
      /\ \A e \in Dir : <<e, "runtime">> \in pending =>
                           <<e, "compile">> \in pending \/ e \in compileResults
  BY <1>2 DEF OInv, Ordered
<1>6. p = "runtime" => d \in compileResults
  <2>1. p = "runtime" => <<d, "compile">> \notin pending
    BY <1>1, <1>4 DEF RegisteredBefore
  <2> QED BY <1>4, <1>5, <2>1
<1>7. d \notin compileResults => t = <<d, "compile">>
  BY <1>4, <1>6 DEF TestPhase
<1>8. InOrder(compile', compileSlotQueue')
  <2>1. CASE d \in compileResults
    BY <1>1, <1>4, <2>1 DEF slots, OInv
  <2>2. CASE d \notin compileResults
    <3>1. \A e \in Dir \ compileResults : compile[e] = "none"
      BY <1>2 DEF FInv, Cached, Over
    <3>2. ~IsSlowFixture(d) => compileResults \cap SlowDirs = {}
      BY <1>5, <1>7, <2>2 DEF IsSlowFixture
    <3>3. ~IsSlowFixture(d) => \A e \in SlowDirs : compile[e] = "none"
      BY <3>1, <3>2, SlowAreDirs DEF Dir
    <3>4. PICK states, queue :
            states = [compile EXCEPT ![d] = "queued"] /\ queue = Append(compileSlotQueue, d)
      OBVIOUS
    <3>5. SlotsOK(states, queue, activeNormalCompiles, activeExclusiveCompile)
      BY <2>2, <3>1, <3>4, QueuedSlots DEF SInv
    <3>6. InOrder(states, queue)
      BY <2>2, <3>1, <3>3, <3>4, QueuedInOrder DEF SInv, OInv
    <3>7. DrainCompileSlotQueue(states, queue, activeNormalCompiles, activeExclusiveCompile)
      BY <1>1, <1>4, <2>2, <3>4 DEF AcquireCompileSlot
    <3> QED BY <3>5, <3>6, <3>7, DrainInOrder
  <2> QED BY <2>1, <2>2
<1>9. ASSUME NEW e \in Dir \ SlowDirs, <<e, "compile">> \in pending'
      PROVE  compileResults' \cap SlowDirs = {}
  <2>1. compileResults \cap SlowDirs = {} /\ <<e, "compile">> \in pending
    BY <1>1, <1>5, <1>9
  <2>2. d \notin SlowDirs
    <3>1. SUFFICES ASSUME d \in SlowDirs PROVE FALSE
      OBVIOUS
    <3>2. t = <<d, "compile">>
      BY <1>7, <2>1, <3>1
    <3>3. RegisteredBefore(<<e, "compile">>, t)
      BY <1>9, <3>1, <3>2 DEF RegisteredBefore, OrderExecutionFixtures, IsSlowFixture
    <3> QED BY <1>1, <2>1, <3>3
  <2> QED BY <1>1, <1>4, <2>1, <2>2
<1>10. ASSUME NEW e \in Dir, <<e, "runtime">> \in pending'
       PROVE  <<e, "compile">> \in pending' \/ e \in compileResults'
  <2>1. <<e, "compile">> \in pending \/ e \in compileResults
    BY <1>1, <1>5, <1>10
  <2> QED BY <1>1, <2>1
<1>11. Ordered'
  BY <1>2, <1>9, <1>10 DEF Ordered
<1> QED BY <1>8, <1>11 DEF OInv

LEMMA CompileKeepsOrder ==
  ASSUME SInv, OInv, NEW d \in Dir, CompileContract(d)
  PROVE  OInv'
<1>1. PICK outcome \in CompileOutcome : ReleaseCompileSlot(d, outcome)
  BY DEF CompileContract, Outcomes
<1>2. /\ phase' = phase /\ pending' = pending /\ compileResults' = compileResults
      /\ compile[d] \in Holding
  BY DEF CompileContract, Holding
<1>3. PICK states : states = [compile EXCEPT ![d] = outcome]
  OBVIOUS
<1>4. PICK active, exclusive :
        /\ SlotsOK(states, compileSlotQueue, active, exclusive)
        /\ DrainCompileSlotQueue(states, compileSlotQueue, active, exclusive)
  BY <1>1, <1>2, <1>3, ReleaseDrains
<1>5. Held(states) \subseteq Held(compile)
  <2>1. compile \in [Dir -> CompileState]
    BY DEF SInv, SlotsOK
  <2> QED BY <1>3, <2>1 DEF Held, Holding, CompileOutcome
<1>6. InOrder(states, compileSlotQueue)
  BY <1>5 DEF OInv, InOrder
<1>7. InOrder(compile', compileSlotQueue')
  BY <1>4, <1>6, DrainInOrder
<1>8. Ordered'
  BY <1>2 DEF OInv, Ordered
<1> QED BY <1>7, <1>8 DEF OInv

LEMMA RemoveKeepsOrder ==
  ASSUME SInv, OInv, NEW d \in Dir, RemoveOutput(d)
  PROVE  OInv'
<1>1. /\ compile' = [compile EXCEPT ![d] = "removed"] /\ compile[d] = "granted"
      /\ compileSlotQueue' = compileSlotQueue
      /\ phase' = phase /\ pending' = pending /\ compileResults' = compileResults
  BY DEF RemoveOutput
<1>2. Held(compile') = Held(compile)
  <2>1. compile \in [Dir -> CompileState]
    BY DEF SInv, SlotsOK
  <2> QED BY <1>1, <2>1 DEF Held, Holding
<1>3. InOrder(compile', compileSlotQueue')
  BY <1>1, <1>2 DEF OInv, InOrder
<1>4. Ordered'
  BY <1>1 DEF OInv, Ordered
<1> QED BY <1>3, <1>4 DEF OInv

LEMMA NextKeepsOrder ==
  ASSUME FInv, SInv, OInv, [Next]_vars
  PROVE  OInv'
<1>1. CASE Runner
  BY <1>1, RunnerKeepsOrder
<1>2. CASE StartTest
  BY <1>2, StartKeepsOrder
<1>3. ASSUME NEW d \in Dir, RemoveOutput(d) PROVE OInv'
  BY <1>3, RemoveKeepsOrder
<1>4. ASSUME NEW d \in Dir, RunCompileTest(d) \/ RunRuntimeTest(d) \/ LoadGeneratedContract(d)
                            \/ RuntimeEnds(d) \/ \E t \in Tests : TimesOut(t)
      PROVE  OInv'
  <2>1. TestStep
    BY <1>4 DEF RunCompileTest, RunRuntimeTest, LoadGeneratedContract, RuntimeEnds, TimesOut
  <2> QED BY <2>1, OrderUnchanged DEF TestStep, slots
<1>5. ASSUME NEW d \in Dir, CleanupPassedFixture(d) PROVE OInv'
  BY <1>5, OrderUnchanged DEF CleanupPassedFixture, slots, Over
<1>6. CASE \E t \in Tests : TimesOut(t)
  <2>1. TestStep
    BY <1>6 DEF TimesOut
  <2> QED BY <2>1, OrderUnchanged DEF TestStep, slots
<1>7. CASE StartCleanup \/ CleanupEnds
  BY <1>7, OrderUnchanged DEF StartCleanup, CleanupEnds, Orchestration, slots, Over
<1>8. ASSUME NEW d \in Dir, CompileContract(d) PROVE OInv'
  BY <1>8, CompileKeepsOrder
<1>9. CASE UNCHANGED vars
  BY <1>9, OrderUnchanged DEF vars, slots
<1> QED BY <1>1, <1>2, <1>3, <1>4, <1>5, <1>6, <1>7, <1>8, <1>9 DEF Next, Orchestrator

LEMMA OrderInvariant == Spec => []OInv
<1>1. Init => OInv
  <2> SUFFICES ASSUME Init PROVE OInv
    OBVIOUS
  <2>1. compileSlotQueue = <<>> /\ compileResults = {} /\ phase = "start"
    BY DEF Init
  <2> QED BY <2>1 DEF OInv, InOrder, Ordered
<1>2. FInv /\ SInv /\ OInv /\ [Next]_vars => OInv'
  BY NextKeepsOrder
<1> QED BY <1>1, <1>2, Invariants, PTL DEF Spec

(* A normal fixture that waits for the compilers waits for normal ones only  *)
(* (orderExecutionFixtures and the queue of withCompileSlot), whichever      *)
(* fixtures are selected and in whatever order their compiles end.           *)
THEOREM SlowsNeverDelay == Spec => []SlowNeverDelaysNormal
<1>1. OInv => SlowNeverDelaysNormal
  <2>1. Holders = Held(compile)
    BY DEF Holders, Held
  <2> QED BY <2>1 DEF OInv, InOrder, SlowNeverDelaysNormal
<1> QED BY <1>1, OrderInvariant, PTL

------------------------------------------------------------------------------
(* What a command names                                                      *)

(* The runner cleans what the orchestrator selects.                          *)
LEMMA CleanedAreSelected ==
  \A filters : CleanedFixtures(tree, filters) = SelectedFixtures(tree, filters)
BY DEF CleanedFixtures, SelectedFixtures, IncludeAll, PhaseSelected

Selected == SelectedFixtures(tree, FiltersOf(command))
Named == IF PrepareArtifacts(command) THEN RuntimeFixtures ELSE Selected

(* Only what the command names is written, compiled or recorded.             *)
Touched(d) == disk[d].by # "earlier" \/ compile[d] # "none" \/ fixtureStatuses[d] # "none"

NInv ==
  /\ phase = "start" => \A d \in Dir : disk[d].by = "earlier"
  /\ phase \notin {"testing"} \cup Over => \A d \in Dir : fixtureStatuses[d] = "none"
  /\ phase = "preparing" => PrepareArtifacts(command) /\ pending \subseteq RuntimeFixtures
  /\ phase \in {"cleaned", "testing"} \cup Over => ~PrepareArtifacts(command)
  /\ phase \in {"cleaned", "testing"} => \A d \in Selected : disk[d].by = "test"
  /\ phase = "testing" => \A t \in pending : t[1] \in Selected
  /\ \A d \in Dir : Touched(d) => d \in Named

LEMMA InitNamed == Init => NInv
<1> SUFFICES ASSUME Init PROVE NInv
  OBVIOUS
<1>1. /\ phase = "start" /\ compile = [d \in Dir |-> "none"] /\ fixtureStatuses = [d \in Dir |-> "none"]
      /\ \E left \in EarlierOutput : disk = [d \in Dir |-> left]
  BY DEF Init
<1>2. \A d \in Dir : disk[d].by = "earlier"
  BY <1>1, EarlierOutputIsMarked
<1> QED BY <1>1, <1>2 DEF NInv, Touched, Over

(* The runner's steps.                                                       *)
LEMMA RunnerKeepsNamed ==
  ASSUME FInv, NInv, Runner
  PROVE  NInv'
<1>1. /\ phase \notin {"testing"} \cup Over /\ tree' = tree
      /\ compile' = compile /\ fixtureStatuses' = fixtureStatuses
  BY DEF Runner, RunnerRefuses, StartPreparing, PrepareNext, PreparingEnds, RunVitest,
         RegisterTests, Over, Orchestration, slots
<1>2. /\ \A d \in Dir : compile'[d] = "none" /\ fixtureStatuses'[d] = "none"
      /\ RuntimeFixtures' = RuntimeFixtures
  BY <1>1 DEF FInv, Begun, NInv, RuntimeFixtures
<1>3. CASE RunnerRefuses
  <2>1. phase' = "refused" /\ \A d \in Dir : disk'[d].by = "earlier"
    BY <1>3 DEF RunnerRefuses, NInv
  <2> QED BY <1>2, <2>1 DEF NInv, Touched, Over
<1>4. CASE StartPreparing
  <2>1. /\ phase' = "preparing" /\ \A d \in Dir : disk'[d].by = "earlier"
        /\ PrepareArtifacts(command') /\ pending' = RuntimeFixtures
    BY <1>4 DEF StartPreparing, NInv
  <2> QED BY <1>2, <2>1 DEF NInv, Touched, Over
<1>5. CASE PrepareNext
  <2>1. /\ PrepareArtifacts(command) /\ command' = command /\ pending \subseteq RuntimeFixtures
        /\ phase' \in {"preparing", "refused"} /\ pending' \subseteq pending
    BY <1>5 DEF PrepareNext, NInv, CompileFixtureForTypecheck
  <2>2. \A d \in Dir : disk'[d] = disk[d] \/ d \in pending
    BY <1>5 DEF PrepareNext, CompileFixtureForTypecheck, FInv, TypeF
  <2>3. \A d \in Dir : disk[d].by # "earlier" => d \in RuntimeFixtures
    BY <2>1 DEF NInv, Touched, Named
  <2>4. \A d \in Dir : disk'[d].by # "earlier" => d \in RuntimeFixtures
    BY <2>1, <2>2, <2>3
  <2> QED BY <1>2, <2>1, <2>4 DEF NInv, Touched, Named, Over
<1>6. CASE PreparingEnds
  <2>1. /\ PrepareArtifacts(command) /\ command' = command /\ disk' = disk /\ phase' = "prepared"
    BY <1>6 DEF PreparingEnds, NInv
  <2>2. \A d \in Dir : disk'[d].by # "earlier" => d \in RuntimeFixtures
    BY <2>1 DEF NInv, Touched, Named
  <2> QED BY <1>2, <2>1, <2>2 DEF NInv, Touched, Named, Over
<1>7. CASE RunVitest
  <2>1. /\ phase' = "cleaned" /\ ~PrepareArtifacts(command')
        /\ disk' = [d \in Dir |-> IF d \in CleanedFixtures(tree, FiltersOf(command'))
                                  THEN Output("absent", "test") ELSE disk[d]]
        /\ \A d \in Dir : disk[d].by = "earlier"
    BY <1>7 DEF RunVitest, NInv
  <2>2. PICK selected : selected = SelectedFixtures(tree, FiltersOf(command'))
    OBVIOUS
  <2>3. Selected' = selected /\ Named' = selected /\ selected \subseteq Dir
    BY <1>1, <2>1, <2>2 DEF Selected, Named, SelectedFixtures, DiscoveredFixtures, Dir
  <2>4. \A d \in Dir : disk'[d] = IF d \in selected THEN Output("absent", "test") ELSE disk[d]
    BY <2>1, <2>2, CleanedAreSelected
  <2>5. \A d \in selected : disk'[d].by = "test"
    BY <2>3, <2>4 DEF Output
  <2>6. \A d \in Dir : disk'[d].by # "earlier" => d \in selected
    BY <2>1, <2>4
  <2> QED BY <1>2, <2>1, <2>3, <2>5, <2>6 DEF NInv, Touched, Over
<1>8. CASE RegisterTests
  <2>1. /\ phase = "cleaned" /\ command' = command /\ disk' = disk
        /\ phase' \in {"testing", "refused"} /\ ~PrepareArtifacts(command)
        /\ \A d \in Selected : disk[d].by = "test"
    BY <1>8 DEF RegisterTests, NInv
  <2>2. Selected' = Selected /\ Named' = Named
    BY <1>1, <2>1 DEF Selected, Named, RuntimeFixtures
  <2>3. phase' = "testing" => \A t \in pending' : t[1] \in Selected
    BY <1>8 DEF RegisterTests, Registered, Selected
  <2>4. \A d \in Dir : disk'[d].by # "earlier" => d \in Named'
    BY <2>1, <2>2 DEF NInv, Touched
  <2> QED BY <1>2, <2>1, <2>2, <2>3, <2>4 DEF NInv, Touched, Over
<1> QED BY <1>3, <1>4, <1>5, <1>6, <1>7, <1>8 DEF Runner

(* A step of the tests or of the cleanup: what it touches has been named.    *)
LEMMA TestingKeepsNamed ==
  ASSUME NInv, phase \in {"testing"} \cup Over, phase' \in {phase} \cup Over,
         UNCHANGED <<tree, command>>,
         phase' = "testing" => \A t \in pending' : t \in pending,
         \A d \in Dir : \/ disk'[d] = disk[d]
                        \/ disk'[d].by = "test" /\ Touched(d),
         \A d \in Dir : Touched(d)' => Touched(d) \/ d \in Selected
  PROVE  NInv'
<1>1. /\ phase' \in {"testing"} \cup Over
      /\ phase' = "testing" => phase = "testing"
      /\ phase' \notin {"start", "preparing", "cleaned"}
  BY DEF Over
<1>2. Selected' = Selected /\ Named' = Named /\ ~PrepareArtifacts(command) /\ Named = Selected
  BY DEF Selected, Named, RuntimeFixtures, NInv
<1>3. Selected \subseteq Dir
  BY DEF Selected, SelectedFixtures, DiscoveredFixtures, Dir
<1>4. phase' = "testing" => \A d \in Selected : disk'[d].by = "test"
  BY <1>1, <1>3 DEF NInv
<1>5. phase' = "testing" => \A t \in pending' : t[1] \in Selected
  BY <1>1 DEF NInv
<1>6. \A d \in Dir : Touched(d)' => d \in Named
  BY <1>2 DEF NInv
<1> QED BY <1>1, <1>2, <1>4, <1>5, <1>6 DEF NInv

LEMMA TestStepKeepsNamed ==
  ASSUME FInv, NInv, Running, TestStep, NEW t \in Tests, compile[t[1]] # "none",
         \A d \in Dir : fixtureStatuses'[d] = fixtureStatuses[d] \/ d = t[1]
  PROVE  NInv'
<1>1. /\ phase' = phase /\ phase \in {"testing"} \cup Over /\ tree' = tree /\ command' = command
      /\ pending' = pending /\ disk' = disk /\ compile' = compile
  BY DEF TestStep, slots, Running, Over
<1>2. \A d \in Dir : Touched(d)' => Touched(d)
  BY <1>1 DEF Touched
<1> QED BY <1>1, <1>2, TestingKeepsNamed

LEMMA TestsKeepNamed ==
  ASSUME FInv, NInv, NEW d \in Dir,
         RunCompileTest(d) \/ RunRuntimeTest(d) \/ LoadGeneratedContract(d) \/ RuntimeEnds(d)
  PROVE  NInv'
<1>1. PICK t \in {<<d, "compile">>, <<d, "runtime">>} :
        /\ Running /\ TestStep
        /\ pc[t] \in {"loading", "running"} \/ compile[d] \in CompileOutcome
        /\ fixtureStatuses' = fixtureStatuses \/ \E ok, marks : Ends(t, ok, marks)
  BY DEF RunCompileTest, RunRuntimeTest, LoadGeneratedContract, RuntimeEnds, Compiled
<1>2. t \in Tests /\ t[1] = d
  BY DEF Tests, TestPhase
<1>3. compile[d] # "none"
  BY <1>1, <1>2 DEF FInv, Promised, CompileOutcome
<1>4. \A e \in Dir : fixtureStatuses'[e] = fixtureStatuses[e] \/ e = d
  BY <1>1, <1>2 DEF Ends, MarkedFailed, FInv, TypeF
<1> QED BY <1>1, <1>2, <1>3, <1>4, TestStepKeepsNamed

LEMMA StartKeepsNamed ==
  ASSUME FInv, SInv, NInv, StartTest
  PROVE  NInv'
<1>1. PICK t \in pending :
        /\ pending' = pending \ {t}
        /\ IF t[1] \in compileResults THEN UNCHANGED slots ELSE AcquireCompileSlot(t[1])
  BY DEF StartTest
<1>2. /\ phase = "testing" /\ phase' = phase /\ tree' = tree /\ command' = command
      /\ disk' = disk /\ fixtureStatuses' = fixtureStatuses
  BY DEF StartTest
<1>3. PICK d \in Dir : d = t[1] /\ d \in Selected
  BY <1>2 DEF FInv, Unstarted, Tests, NInv
<1>4. \A e \in Dir : compile'[e] # "none" => compile[e] # "none" \/ e = d
  <2>1. CASE d \in compileResults
    BY <1>1, <1>3, <2>1 DEF slots
  <2>2. CASE d \notin compileResults
    <3>1. compile[d] = "none" /\ compile \in [Dir -> CompileState]
      BY <1>2, <2>2 DEF FInv, Cached, Over, SInv, SlotsOK
    <3>2. PICK states, queue :
            states = [compile EXCEPT ![d] = "queued"] /\ queue = Append(compileSlotQueue, d)
      OBVIOUS
    <3>3. SlotsOK(states, queue, activeNormalCompiles, activeExclusiveCompile)
      BY <3>1, <3>2, QueuedSlots DEF SInv
    <3>4. DrainCompileSlotQueue(states, queue, activeNormalCompiles, activeExclusiveCompile)
      BY <1>1, <1>3, <2>2, <3>2 DEF AcquireCompileSlot
    <3>5. \A e \in Dir : compile'[e] = states[e] \/ (states[e] = "queued" /\ compile'[e] = "granted")
      BY <3>3, <3>4, DrainSlots
    <3> QED BY <3>1, <3>2, <3>5
  <2> QED BY <2>1, <2>2
<1>5. \A e \in Dir : Touched(e)' => Touched(e) \/ e \in Selected
  BY <1>2, <1>3, <1>4 DEF Touched
<1> QED BY <1>1, <1>2, <1>5, TestingKeepsNamed

LEMMA RemoveKeepsNamed ==
  ASSUME FInv, SInv, NInv, NEW d \in Dir, RemoveOutput(d) \/ CleanupPassedFixture(d)
  PROVE  NInv'
<1>1. /\ phase' = phase /\ phase \in {"testing"} \cup Over /\ tree' = tree /\ command' = command
      /\ pending' = pending
  BY DEF RemoveOutput, CleanupPassedFixture, Running, Over
<1>2. Touched(d)
  BY DEF RemoveOutput, CleanupPassedFixture, Records, Touched
<1>3. \A e \in Dir : \/ disk'[e] = disk[e]
                     \/ disk'[e].by = "test" /\ e = d
  BY DEF RemoveOutput, CleanupPassedFixture, Output, FInv, TypeF
<1>4. \A e \in Dir : e # d => compile'[e] = compile[e] /\ fixtureStatuses'[e] = fixtureStatuses[e]
  BY DEF RemoveOutput, CleanupPassedFixture, FInv, TypeF, SInv, SlotsOK, slots
<1>5. \A e \in Dir : Touched(e)' => Touched(e)
  BY <1>2, <1>3, <1>4 DEF Touched
<1> QED BY <1>1, <1>2, <1>3, <1>5, TestingKeepsNamed

LEMMA CompileKeepsNamed ==
  ASSUME FInv, SInv, NInv, NEW d \in Dir, CompileContract(d)
  PROVE  NInv'
<1>1. PICK outcome \in CompileOutcome :
        /\ \E holds : disk' = [disk EXCEPT ![d] = Output(holds, "test")]
        /\ ReleaseCompileSlot(d, outcome)
  BY DEF CompileContract, Outcomes
<1>2. /\ phase' = phase /\ phase \in {"testing"} \cup Over /\ tree' = tree /\ command' = command
      /\ pending' = pending /\ fixtureStatuses' = fixtureStatuses /\ compile[d] \in Holding
      /\ compile[d] # "none"
  BY DEF CompileContract, Running, Over, Holding
<1>3. Touched(d)
  BY <1>2 DEF Touched
<1>4. \A e \in Dir : \/ disk'[e] = disk[e]
                     \/ disk'[e].by = "test" /\ e = d
  BY <1>1 DEF Output, FInv, TypeF
<1>5. PICK states : states = [compile EXCEPT ![d] = outcome]
  OBVIOUS
<1>6. \A e \in Dir : compile'[e] = states[e] \/ (states[e] = "queued" /\ compile'[e] = "granted")
  <2>1. PICK active, exclusive :
          /\ SlotsOK(states, compileSlotQueue, active, exclusive)
          /\ DrainCompileSlotQueue(states, compileSlotQueue, active, exclusive)
    BY <1>1, <1>2, <1>5, ReleaseDrains
  <2> QED BY <2>1, DrainSlots
<1>7. \A e \in Dir : compile'[e] # "none" => compile[e] # "none"
  BY <1>2, <1>5, <1>6 DEF SInv, SlotsOK
<1>8. \A e \in Dir : Touched(e)' => Touched(e)
  BY <1>2, <1>3, <1>4, <1>7 DEF Touched
<1> QED BY <1>2, <1>3, <1>4, <1>8, TestingKeepsNamed

LEMMA NextKeepsNamed ==
  ASSUME FInv, SInv, NInv, [Next]_vars
  PROVE  NInv'
<1>1. CASE Runner
  BY <1>1, RunnerKeepsNamed
<1>2. CASE StartTest
  BY <1>2, StartKeepsNamed
<1>3. ASSUME NEW d \in Dir, RemoveOutput(d) \/ CleanupPassedFixture(d) PROVE NInv'
  BY <1>3, RemoveKeepsNamed
<1>4. ASSUME NEW d \in Dir,
             RunCompileTest(d) \/ RunRuntimeTest(d) \/ LoadGeneratedContract(d) \/ RuntimeEnds(d)
      PROVE  NInv'
  BY <1>4, TestsKeepNamed
<1>5. CASE (\E t \in Tests : TimesOut(t)) \/ StartCleanup \/ CleanupEnds
  <2>1. /\ phase \in {"testing"} \cup Over /\ phase' \in {phase} \cup Over
        /\ tree' = tree /\ command' = command /\ pending' = pending /\ disk' = disk
        /\ compile' = compile /\ fixtureStatuses' = fixtureStatuses
    BY <1>5 DEF TimesOut, TestStep, StartCleanup, CleanupEnds, Orchestration, slots, Over
  <2>2. \A d \in Dir : Touched(d)' => Touched(d)
    BY <2>1 DEF Touched
  <2> QED BY <2>1, <2>2, TestingKeepsNamed
<1>6. ASSUME NEW d \in Dir, CompileContract(d) PROVE NInv'
  BY <1>6, CompileKeepsNamed
<1>7. CASE UNCHANGED vars
  <2>1. /\ phase' = phase /\ tree' = tree /\ command' = command /\ pending' = pending
        /\ disk' = disk /\ compile' = compile /\ fixtureStatuses' = fixtureStatuses
    BY <1>7 DEF vars, slots
  <2>2. Selected' = Selected /\ Named' = Named /\ RuntimeFixtures' = RuntimeFixtures
    BY <2>1 DEF Selected, Named, RuntimeFixtures
  <2>3. \A d \in Dir : Touched(d)' => Touched(d)
    BY <2>1 DEF Touched
  <2> QED BY <2>1, <2>2, <2>3 DEF NInv
<1> QED BY <1>1, <1>2, <1>3, <1>4, <1>5, <1>6, <1>7 DEF Next, Orchestrator

LEMMA NamedInvariant == Spec => []NInv
<1>1. FInv /\ SInv /\ NInv /\ [Next]_vars => NInv'
  BY NextKeepsNamed
<1> QED BY <1>1, InitNamed, Invariants, PTL DEF Spec

(* The runner deletes the output of exactly the fixtures the orchestrator    *)
(* then selects, and no command touches the output of a fixture it does not  *)
(* name (cleanSelectedFixtureArtifacts, selectFixtures and the               *)
(* prepareRuntimeArtifacts of the lint), for every tree and every filter.    *)
THEOREM TheSelectionsAgree == Spec => []SelectionsAgree
<1>1. NInv => SelectionsAgree
  <2> SUFFICES ASSUME NInv PROVE SelectionsAgree
    OBVIOUS
  <2>1. ASSUME NEW d \in Dir, disk[d].by # "earlier" PROVE phase # "start" /\ d \in Named
    BY <2>1 DEF NInv, Touched
  <2>2. ASSUME NEW d \in Dir, phase = "testing", d \in Named PROVE disk[d].by = "test"
    BY <2>2 DEF NInv, Named
  <2> QED BY <2>1, <2>2 DEF SelectionsAgree, Named, Selected
<1> QED BY <1>1, NamedInvariant, PTL

------------------------------------------------------------------------------
(* The outline                                                               *)

LEMMA CommonPrefix ==
  ASSUME NEW V, NEW left \in Seq(V), NEW right \in Seq(V)
  PROVE  /\ CommonPrefixLength(left, right) \in Nat
         /\ CommonPrefixLength(left, right) <= Len(left)
         /\ CommonPrefixLength(left, right) <= Len(right)
         /\ \A i \in 1 .. CommonPrefixLength(left, right) : left[i] = right[i]
<1> DEFINE agree == {n \in 0 .. Len(left) : n <= Len(right) /\ \A i \in 1 .. n : left[i] = right[i]}
<1>1. Len(left) \in Nat /\ Len(right) \in Nat
  OBVIOUS
<1>2. 0 \in agree /\ agree \in SUBSET (0 .. Len(left))
  BY <1>1
<1>3. \E n \in agree : \A m \in agree : m <= n
  BY <1>1, <1>2, GreatestMember
<1>4. CommonPrefixLength(left, right) \in agree
  BY <1>3 DEF CommonPrefixLength
<1> HIDE DEF agree
<1>5. \A n \in agree : n \in Nat /\ n <= Len(left) /\ n <= Len(right) /\ \A i \in 1 .. n : left[i] = right[i]
  BY <1>1 DEF agree
<1> QED BY <1>4, <1>5

LEMMA Extended ==
  ASSUME NEW V, NEW s \in Seq(V), NEW x \in V
  PROVE  /\ s \o <<x>> \in Seq(V)
         /\ Len(s \o <<x>>) = Len(s) + 1
         /\ (s \o <<x>>)[Len(s) + 1] = x
         /\ \A i \in 1 .. Len(s) : (s \o <<x>>)[i] = s[i]
<1>1. PICK t : t = <<x>>
  OBVIOUS
<1>2. t = <<x>> /\ t \in Seq(V) /\ Len(t) = 1 /\ t[1] = x
  BY <1>1
<1>3. Len(s) \in Nat
  BY LenProperties
<1>4. /\ s \o t \in Seq(V) /\ Len(s \o t) = Len(s) + 1
      /\ \A i \in 1 .. Len(s) + 1 : (s \o t)[i] = IF i <= Len(s) THEN s[i] ELSE t[i - Len(s)]
  BY <1>2, ConcatProperties
<1>5. PICK u : u = s \o t
  OBVIOUS
<1>6. u[Len(s) + 1] = x /\ \A i \in 1 .. Len(s) : u[i] = s[i]
  BY <1>2, <1>3, <1>4, <1>5
<1> QED BY <1>2, <1>4, <1>5, <1>6

LEMMA Beginning ==
  ASSUME NEW V, NEW s \in Seq(V), NEW n \in Nat, n <= Len(s)
  PROVE  /\ SubSeq(s, 1, n) \in Seq(V)
         /\ Len(SubSeq(s, 1, n)) = n
         /\ \A i \in 1 .. n : SubSeq(s, 1, n)[i] = s[i]
<1>1. Len(s) \in Nat /\ \A i \in 1 .. n : i \in 1 .. Len(s) /\ s[i] \in V
  BY LenProperties, ElementOfSeq
<1>2. PICK u : u = SubSeq(s, 1, n)
  OBVIOUS
<1>3. /\ u \in Seq(V) /\ Len(u) = IF 1 <= n THEN n - 1 + 1 ELSE 0
      /\ \A i \in 1 .. n - 1 + 1 : u[i] = s[1 + i - 1]
  BY <1>1, <1>2, SubSeqProperties
<1>4. Len(u) = n /\ \A i \in 1 .. n : u[i] = s[i]
  BY <1>3
<1> QED BY <1>2, <1>3, <1>4

Lines(V) == [is : {"header", "leaf"}, indent : Nat, part : V \cup Seq(V)]

(* The lines of a case: a header for each part that is not open yet.         *)
LEMMA LinesOfCase ==
  ASSUME NEW V, NEW gp \in Seq(V), NEW previous \in Seq(V), NEW leaf \in Seq(V), NEW c,
         c = CommonPrefixLength(gp, previous), NEW lines,
         lines = CaseLines([groupParts |-> gp, leafPath |-> leaf], previous)
  PROVE  /\ lines \in Seq(Lines(V))
         /\ Len(lines) = Len(gp) - c + 1
         /\ \A j \in 1 .. Len(gp) - c : lines[j] = Header(c + j - 1, gp[c + j])
         /\ lines[Len(gp) - c + 1] = Leaf(Len(gp), leaf)
<1> DEFINE h == Len(gp) - c
           headers == [i \in 1 .. h |-> Header(c + i - 1, gp[c + i])]
           last == Leaf(Len(gp), leaf)
<1>1. c \in Nat /\ c <= Len(gp) /\ Len(gp) \in Nat
  BY CommonPrefix
<1>2. h \in Nat
  BY <1>1
<1>3. lines = headers \o <<last>>
  BY DEF CaseLines, HeaderLines
<1>4. \A i \in 1 .. h : c + i - 1 \in Nat /\ c + i \in 1 .. Len(gp)
  BY <1>1
<1>5. \A i \in 1 .. h : headers[i] = Header(c + i - 1, gp[c + i]) /\ headers[i] \in Lines(V)
  BY <1>4, ElementOfSeq DEF Header, Lines
<1>6. last \in Lines(V)
  BY <1>1 DEF Leaf, Lines
<1> HIDE DEF h, last
<1>7. headers \in Seq(Lines(V)) /\ Len(headers) = h
  BY <1>2, <1>5
<1>8. PICK S : S = Lines(V)
  OBVIOUS
<1>9. PICK hs : hs = headers
  OBVIOUS
<1>10. PICK x : x = last
  OBVIOUS
<1>11. hs \in Seq(S) /\ x \in S
  BY <1>6, <1>7, <1>8, <1>9, <1>10
<1> HIDE DEF headers
<1>12. PICK t : t = hs \o <<x>>
  OBVIOUS
<1>13. /\ t \in Seq(S)
       /\ Len(t) = Len(hs) + 1 /\ t[Len(hs) + 1] = x
       /\ \A j \in 1 .. Len(hs) : t[j] = hs[j]
  BY <1>11, <1>12, Extended
<1>14. /\ lines \in Seq(Lines(V))
      /\ Len(lines) = h + 1 /\ lines[h + 1] = last
      /\ \A j \in 1 .. h : lines[j] = headers[j]
  <2>1. lines = t
    BY <1>3, <1>9, <1>10, <1>12
  <2>2. Len(hs) = h
    BY <1>7, <1>9
  <2> QED BY <1>8, <1>9, <1>10, <1>13, <2>1, <2>2
<1>15. lines[Len(gp) - c + 1] = Leaf(Len(gp), leaf) /\ Len(lines) = Len(gp) - c + 1
  BY <1>14 DEF h, last
<1> QED BY <1>5, <1>14, <1>15 DEF h

ReadStep(r, line) ==
  [open |-> OpenAfter(r.open, line),
   places |-> IF line.is = "leaf" THEN Append(r.places, PlaceOf(r.open, line)) ELSE r.places]

(* After j headers the open path agrees with that of the case so far.        *)
OpenTo(r, gp, n) ==
  /\ n <= Len(r.open)
  /\ \A i \in 1 .. n : r.open[i] = gp[i]

LEMMA HeaderRead ==
  ASSUME NEW V, NEW gp \in Seq(V), NEW n \in 0 .. Len(gp) - 1, NEW r, r.open \in Seq(V), OpenTo(r, gp, n)
  PROVE  LET q == ReadStep(r, Header(n, gp[n + 1]))
         IN q.open \in Seq(V) /\ OpenTo(q, gp, n + 1) /\ q.places = r.places
<1> DEFINE q == ReadStep(r, Header(n, gp[n + 1]))
           part == gp[n + 1]
<1>1. part \in V /\ n \in Nat /\ n <= Len(r.open) /\ \A i \in 1 .. n : r.open[i] = gp[i]
  BY DEF OpenTo
<1>2. q.open = SubSeq(r.open, 1, n) \o <<part>> /\ q.places = r.places
  BY DEF ReadStep, OpenAfter, Header
<1> HIDE DEF q
<1>3. PICK o \in Seq(V) : o = r.open
  OBVIOUS
<1>4. PICK s : s = SubSeq(o, 1, n)
  OBVIOUS
<1>5. s \in Seq(V) /\ Len(s) = n /\ \A i \in 1 .. n : s[i] = o[i]
  BY <1>1, <1>3, <1>4, Beginning
<1>6. PICK t : t = s \o <<part>>
  OBVIOUS
<1>7. t \in Seq(V) /\ Len(t) = n + 1 /\ t[n + 1] = part /\ \A i \in 1 .. n : t[i] = s[i]
  <2>1. PICK x \in V : x = part
    BY <1>1
  <2>2. /\ s \o <<x>> \in Seq(V) /\ Len(s \o <<x>>) = Len(s) + 1
        /\ (s \o <<x>>)[Len(s) + 1] = x /\ \A i \in 1 .. Len(s) : (s \o <<x>>)[i] = s[i]
    BY <1>5, Extended
  <2>3. t = s \o <<x>>
    BY <1>6, <2>1
  <2> QED BY <1>5, <2>1, <2>2, <2>3
<1>8. /\ q.open \in Seq(V) /\ Len(q.open) = n + 1 /\ q.open[n + 1] = part
      /\ \A i \in 1 .. n : q.open[i] = s[i]
  BY <1>2, <1>3, <1>4, <1>6, <1>7
<1>9. \A i \in 1 .. n + 1 : q.open[i] = gp[i]
  BY <1>1, <1>3, <1>5, <1>8
<1> QED BY <1>1, <1>2, <1>8, <1>9 DEF OpenTo, q

LEMMA LeafRead ==
  ASSUME NEW V, NEW gp \in Seq(V), NEW leaf \in Seq(V), NEW r, r.open \in Seq(V), OpenTo(r, gp, Len(gp))
  PROVE  ReadStep(r, Leaf(Len(gp), leaf)) = [open |-> gp, places |-> Append(r.places, gp \o leaf)]
<1>1. SubSeq(r.open, 1, Len(gp)) = gp
  BY DEF OpenTo
<1>2. gp \o <<>> = gp
  OBVIOUS
<1> QED BY <1>1, <1>2 DEF ReadStep, OpenAfter, PlaceOf, Leaf

(* The lines are read from the k-th step on.                                 *)
ReadsFrom(g, k, lines) == \A j \in 1 .. Len(lines) : g[k + j] = ReadStep(g[k + j - 1], lines[j])

CaseOf(groupParts, leafPath) == [groupParts |-> groupParts, leafPath |-> leafPath]

Placed(r, groupParts, places, leafPath) ==
  r = [open |-> groupParts, places |-> Append(places, groupParts \o leafPath)]

(* A reader whose open path is the one the case was printed after.           *)
LEMMA CaseRead ==
  ASSUME NEW V, NEW gp \in Seq(V), NEW previous \in Seq(V), NEW leaf \in Seq(V), NEW lines,
         lines = CaseLines(CaseOf(gp, leaf), previous),
         NEW k \in Nat, NEW g, g[k].open = previous, ReadsFrom(g, k, lines)
  PROVE  Placed(g[k + Len(lines)], gp, g[k].places, leaf)
<1>1. PICK c : c = CommonPrefixLength(gp, previous)
  OBVIOUS
<1>2. /\ c \in Nat /\ c <= Len(gp) /\ c <= Len(previous) /\ Len(gp) \in Nat
      /\ \A i \in 1 .. c : gp[i] = previous[i]
  BY <1>1, CommonPrefix
<1>3. /\ Len(lines) = Len(gp) - c + 1
      /\ \A j \in 1 .. Len(gp) - c : lines[j] = Header(c + j - 1, gp[c + j])
      /\ lines[Len(gp) - c + 1] = Leaf(Len(gp), leaf)
  BY <1>1, LinesOfCase DEF CaseOf
<1> DEFINE h == Len(gp) - c
           Ok(j) == g[k + j].open \in Seq(V) /\ OpenTo(g[k + j], gp, c + j) /\ g[k + j].places = g[k].places
           bad == {j \in 0 .. h : ~Ok(j)}
<1>4. h \in Nat
  BY <1>2
<1>5. \A m : m = Len(gp) - c + 1 => c + h = Len(gp) /\ k + m - 1 = k + h /\ m \in 1 .. m
  BY <1>2
<1>6. bad = {}
  <2> SUFFICES ASSUME bad # {} PROVE FALSE
    OBVIOUS
  <2>1. bad \in SUBSET Nat
    BY <1>4
  <2>2. PICK j \in bad : \A i \in bad : j <= i
    BY <2>1, LeastMember
  <2>3. j \in 0 .. h /\ ~Ok(j) /\ j \in Nat
    BY <1>4, <2>2
  <2>4. CASE j = 0
    <3>1. k + 0 = k /\ c + 0 = c
      BY <1>2
    <3>2. OpenTo(g[k], gp, c)
      BY <1>2 DEF OpenTo
    <3> QED BY <2>3, <2>4, <3>1, <3>2
  <2>5. CASE j # 0
    <3>1. PICK i \in Nat : i + 1 = j
      BY <2>3, <2>5
    <3>2. i \in 0 .. h /\ i \notin bad
      BY <1>4, <2>2, <2>3, <3>1
    <3>3. Ok(i)
      BY <3>2
    <3>4. PICK r : r = g[k + i]
      OBVIOUS
    <3>5. PICK n : n = c + i
      OBVIOUS
    <3>6. /\ n \in 0 .. Len(gp) - 1 /\ c + j = n + 1 /\ c + j - 1 = n /\ k + j - 1 = k + i
          /\ j \in 1 .. Len(gp) - c /\ j \in 1 .. Len(lines)
      <4>1. PICK N \in Nat : N = Len(gp)
        BY <1>2
      <4>2. PICK m : m = Len(lines)
        OBVIOUS
      <4>3. m = N - c + 1 /\ c \in Nat /\ c <= N /\ n = c + i /\ j = i + 1 /\ j <= N - c /\ i \in Nat /\ k \in Nat
        BY <1>2, <1>3, <2>3, <3>1, <3>5, <4>1, <4>2
      <4>4. n \in 0 .. N - 1 /\ c + j = n + 1 /\ c + j - 1 = n /\ k + j - 1 = k + i /\ j \in 1 .. N - c /\ j \in 1 .. m
        BY <4>3
      <4> QED BY <4>1, <4>2, <4>4
    <3>7. r.open \in Seq(V) /\ OpenTo(r, gp, n) /\ r.places = g[k].places
      BY <3>3, <3>4, <3>5
    <3> HIDE DEF h, Ok, bad
    <3>8. g[k + j] = ReadStep(r, Header(n, gp[n + 1]))
      BY <1>3, <3>4, <3>6 DEF ReadsFrom
    <3>9. PICK q : q = ReadStep(r, Header(n, gp[n + 1]))
      OBVIOUS
    <3>10. q.open \in Seq(V) /\ OpenTo(q, gp, n + 1) /\ q.places = r.places
      BY <3>6, <3>7, <3>9, HeaderRead
    <3>11. Ok(j)
      BY <3>6, <3>7, <3>8, <3>9, <3>10 DEF Ok
    <3> QED BY <2>3, <3>11
  <2> QED BY <2>4, <2>5
<1>7. Ok(h)
  BY <1>4, <1>6
<1>8. PICK r : r = g[k + h]
  OBVIOUS
<1>9. c + h = Len(gp) /\ k + Len(lines) - 1 = k + h /\ Len(lines) \in 1 .. Len(lines)
  BY <1>3, <1>5
<1>10. r.open \in Seq(V) /\ OpenTo(r, gp, Len(gp)) /\ r.places = g[k].places
  BY <1>7, <1>8, <1>9
<1>11. g[k + Len(lines)] = ReadStep(r, Leaf(Len(gp), leaf))
  BY <1>3, <1>8, <1>9 DEF ReadsFrom
<1>12. ReadStep(r, Leaf(Len(gp), leaf)) = [open |-> gp, places |-> Append(r.places, gp \o leaf)]
  BY <1>10, LeafRead
<1> QED BY <1>10, <1>11, <1>12 DEF Placed

(* What a reader has after each line.                                        *)
Reads(g, open, lines) ==
  /\ g[0] = [open |-> open, places |-> <<>>]
  /\ \A i \in 1 .. Len(lines) : g[i] = ReadStep(g[i - 1], lines[i])

LEMMA ReadingReads ==
  ASSUME NEW open, NEW lines, Len(lines) \in Nat
  PROVE  \E g : Reads(g, open, lines) /\ Reading(open, lines) = g[Len(lines)]
<1> DEFINE n == Len(lines)
           init == [open |-> open, places |-> <<>>]
           Upto(g, k) == g = [i \in 0 .. k |-> IF i = 0 THEN init ELSE ReadStep(g[i - 1], lines[i])]
           bad == {k \in 0 .. n : ~\E g : Upto(g, k)}
<1>1. bad = {}
  <2> SUFFICES ASSUME bad # {} PROVE FALSE
    OBVIOUS
  <2>1. bad \in SUBSET Nat
    OBVIOUS
  <2>2. PICK k \in bad : \A i \in bad : k <= i
    BY <2>1, LeastMember
  <2>3. k \in Nat /\ k <= n /\ ~\E g : Upto(g, k)
    BY <2>2
  <2>4. CASE k = 0
    <3>1. Upto([i \in 0 .. 0 |-> init], 0)
      OBVIOUS
    <3> QED BY <2>3, <2>4, <3>1
  <2>5. CASE k # 0
    <3>1. PICK m \in Nat : m + 1 = k
      BY <2>3, <2>5
    <3>2. m \in 0 .. n /\ m \notin bad
      <4> HIDE DEF bad, Upto
      <4>1. m \in 0 .. n /\ ~(k <= m)
        BY <2>3, <3>1
      <4> QED BY <2>2, <4>1
    <3>3. PICK g : Upto(g, m)
      BY <3>2
    <3> DEFINE step == ReadStep(g[m], lines[k])
               f == [i \in 0 .. k |-> IF i = k THEN step ELSE g[i]]
    <3>4. \A i \in 0 .. m : g[i] = IF i = 0 THEN init ELSE ReadStep(g[i - 1], lines[i])
      BY <3>3
    <3> HIDE DEF init, step
    <3>5. \A i \in 0 .. k : f[i] = IF i = k THEN step ELSE g[i]
      OBVIOUS
    <3>6. ASSUME NEW i \in 0 .. k
          PROVE  f[i] = IF i = 0 THEN init ELSE ReadStep(f[i - 1], lines[i])
      <4>1. CASE i = k
        <5>1. f[i] = step /\ i - 1 = m /\ f[i - 1] = g[m] /\ i # 0
          BY <2>3, <2>5, <3>1, <3>5, <4>1
        <5> QED BY <4>1, <5>1 DEF step
      <4>2. CASE i # k
        <5>1. i \in 0 .. m /\ f[i] = g[i] /\ (i # 0 => i - 1 \in 0 .. k /\ i - 1 # k)
          BY <2>3, <3>1, <3>5, <4>2
        <5>2. i # 0 => f[i - 1] = g[i - 1]
          BY <3>5, <5>1
        <5> QED BY <3>4, <5>1, <5>2
      <4> QED BY <4>1, <4>2
    <3>7. f = [i \in 0 .. k |-> f[i]]
      OBVIOUS
    <3> HIDE DEF f
    <3>8. Upto(f, k)
      BY <3>6, <3>7
    <3> QED BY <2>3, <3>8
  <2> QED BY <2>4, <2>5
<1>2. \E g : Upto(g, n)
  BY <1>1
<1> DEFINE upTo == CHOOSE g : Upto(g, n)
<1>3. Upto(upTo, n)
  BY <1>2
<1>4. Reading(open, lines) = upTo[n]
  BY DEF Reading, ReadStep
<1> HIDE DEF upTo
<1>5. upTo[0] = init
  BY <1>3
<1>6. \A i \in 1 .. n : upTo[i] = ReadStep(upTo[i - 1], lines[i])
  BY <1>3
<1> QED BY <1>4, <1>5, <1>6 DEF Reads

(* The summary after each of its cases.                                      *)
SummaryStep(r, path) ==
  [lines |-> r.lines \o CaseLines(SlowSummaryDisplay(path), r.last),
   last  |-> SlowSummaryDisplay(path).groupParts]

Grows(g, paths) ==
  /\ g[0] = [lines |-> <<>>, last |-> <<>>]
  /\ \A i \in 1 .. Len(paths) : g[i] = SummaryStep(g[i - 1], paths[i])

LEMMA SummaryGrows ==
  ASSUME NEW paths, Len(paths) \in Nat
  PROVE  \E g : Grows(g, paths) /\ SlowSummaryLines(paths) = g[Len(paths)].lines
<1> DEFINE n == Len(paths)
           init == [lines |-> <<>>, last |-> <<>>]
           Upto(g, k) == g = [i \in 0 .. k |-> IF i = 0 THEN init ELSE SummaryStep(g[i - 1], paths[i])]
           bad == {k \in 0 .. n : ~\E g : Upto(g, k)}
<1>1. bad = {}
  <2> SUFFICES ASSUME bad # {} PROVE FALSE
    OBVIOUS
  <2>1. bad \in SUBSET Nat
    OBVIOUS
  <2>2. PICK k \in bad : \A i \in bad : k <= i
    BY <2>1, LeastMember
  <2>3. k \in Nat /\ k <= n /\ ~\E g : Upto(g, k)
    BY <2>2
  <2>4. CASE k = 0
    <3>1. Upto([i \in 0 .. 0 |-> init], 0)
      OBVIOUS
    <3> QED BY <2>3, <2>4, <3>1
  <2>5. CASE k # 0
    <3>1. PICK m \in Nat : m + 1 = k
      BY <2>3, <2>5
    <3>2. m \in 0 .. n /\ m \notin bad
      <4> HIDE DEF bad, Upto
      <4>1. m \in 0 .. n /\ ~(k <= m)
        BY <2>3, <3>1
      <4> QED BY <2>2, <4>1
    <3>3. PICK g : Upto(g, m)
      BY <3>2
    <3> DEFINE step == SummaryStep(g[m], paths[k])
               f == [i \in 0 .. k |-> IF i = k THEN step ELSE g[i]]
    <3>4. \A i \in 0 .. m : g[i] = IF i = 0 THEN init ELSE SummaryStep(g[i - 1], paths[i])
      BY <3>3
    <3> HIDE DEF init, step
    <3>5. \A i \in 0 .. k : f[i] = IF i = k THEN step ELSE g[i]
      OBVIOUS
    <3>6. ASSUME NEW i \in 0 .. k
          PROVE  f[i] = IF i = 0 THEN init ELSE SummaryStep(f[i - 1], paths[i])
      <4>1. CASE i = k
        <5>1. f[i] = step /\ i - 1 = m /\ f[i - 1] = g[m] /\ i # 0
          BY <2>3, <2>5, <3>1, <3>5, <4>1
        <5> QED BY <4>1, <5>1 DEF step
      <4>2. CASE i # k
        <5>1. i \in 0 .. m /\ f[i] = g[i] /\ (i # 0 => i - 1 \in 0 .. k /\ i - 1 # k)
          BY <2>3, <3>1, <3>5, <4>2
        <5>2. i # 0 => f[i - 1] = g[i - 1]
          BY <3>5, <5>1
        <5> QED BY <3>4, <5>1, <5>2
      <4> QED BY <4>1, <4>2
    <3>7. f = [i \in 0 .. k |-> f[i]]
      OBVIOUS
    <3> HIDE DEF f
    <3>8. Upto(f, k)
      BY <3>6, <3>7
    <3> QED BY <2>3, <3>8
  <2> QED BY <2>4, <2>5
<1>2. \E g : Upto(g, n)
  BY <1>1
<1> DEFINE upTo == CHOOSE g : Upto(g, n)
<1>3. Upto(upTo, n)
  BY <1>2
<1>4. SlowSummaryLines(paths) = upTo[n].lines
  BY DEF SlowSummaryLines, SummaryStep
<1> HIDE DEF upTo
<1>5. upTo[0] = init
  BY <1>3
<1>6. \A i \in 1 .. n : upTo[i] = SummaryStep(upTo[i - 1], paths[i])
  BY <1>3
<1> QED BY <1>4, <1>5, <1>6 DEF Grows

LEMMA PathSplit ==
  ASSUME NEW V, NEW path \in Seq(V), path # <<>>, NEW x \in V
  PROVE  /\ Front(path) \in Seq(V)
         /\ <<Last(path), x>> \in Seq(V)
         /\ Front(path) \o <<Last(path), x>> = Append(path, x)
<1>1. Len(path) \in Nat \ {0} /\ \A i \in 1 .. Len(path) : path[i] \in V
  BY EmptySeq, ElementOfSeq
<1>2. PICK n \in Nat : n + 1 = Len(path)
  BY <1>1
<1>3. PICK f : f = SubSeq(path, 1, n)
  OBVIOUS
<1>4. f \in Seq(V) /\ Len(f) = n /\ \A i \in 1 .. n : f[i] = path[i]
  BY <1>2, <1>3, Beginning
<1>5. Front(path) = f
  BY <1>2, <1>3 DEF Front
<1>6. PICK y : y = Last(path)
  OBVIOUS
<1>7. y = path[n + 1] /\ y \in V
  BY <1>1, <1>2, <1>6 DEF Last
<1>8. PICK l : l = <<y, x>>
  OBVIOUS
<1>9. l \in Seq(V) /\ Len(l) = 2 /\ l[1] = y /\ l[2] = x
  BY <1>7, <1>8
<1>10. PICK left : left = f \o l
  OBVIOUS
<1>11. /\ left \in Seq(V) /\ Len(left) = n + 2
       /\ \A i \in 1 .. n + 2 : left[i] = IF i <= n THEN f[i] ELSE l[i - n]
  <2>1. /\ left \in Seq(V) /\ Len(left) = Len(f) + Len(l)
        /\ \A i \in 1 .. Len(f) + Len(l) : left[i] = IF i <= Len(f) THEN f[i] ELSE l[i - Len(f)]
    BY <1>4, <1>9, <1>10, ConcatProperties
  <2>2. Len(f) = n /\ Len(l) = 2
    BY <1>4, <1>9
  <2> QED BY <2>1, <2>2
<1>12. PICK right : right = Append(path, x)
  OBVIOUS
<1>13. /\ right \in Seq(V) /\ Len(right) = n + 2 /\ right[n + 2] = x
       /\ \A i \in 1 .. n + 1 : right[i] = path[i]
  BY <1>2, <1>12
<1>14. ASSUME NEW i \in 1 .. n + 2
       PROVE  left[i] = right[i]
  <2>1. CASE i <= n
    BY <1>4, <1>11, <1>13, <2>1
  <2>2. CASE i = n + 1
    BY <1>7, <1>9, <1>11, <1>13, <2>2
  <2>3. CASE i = n + 2
    BY <1>9, <1>11, <1>13, <2>3
  <2> QED BY <2>1, <2>2, <2>3
<1>15. left = right
  BY <1>11, <1>13, <1>14, SeqEqual
<1> QED BY <1>4, <1>5, <1>6, <1>8, <1>9, <1>10, <1>12, <1>15

(* Read from nothing, the lines printed so far give these places.            *)
ReadsTo(r, places) ==
  \A f : Reads(f, <<>>, r.lines) => f[Len(r.lines)] = [open |-> r.last, places |-> places]

LEMMA SummaryStepRead ==
  ASSUME NEW V, "compile" \in V, NEW path \in Seq(V), path # <<>>,
         NEW r, r.last \in Seq(V), r.lines \in Seq(Lines(V)), NEW places, ReadsTo(r, places),
         NEW q, q = SummaryStep(r, path)
  PROVE  /\ q.last \in Seq(V)
         /\ q.lines \in Seq(Lines(V))
         /\ ReadsTo(q, Append(places, Append(path, "compile")))
<1>1. PICK S : S = Lines(V)
  OBVIOUS
<1>2. PICK gp : gp = Front(path)
  OBVIOUS
<1>3. PICK leaf : leaf = <<Last(path), "compile">>
  OBVIOUS
<1>4. gp \in Seq(V) /\ leaf \in Seq(V) /\ gp \o leaf = Append(path, "compile")
  BY <1>2, <1>3, PathSplit
<1>5. PICK C : C = CaseLines([groupParts |-> gp, leafPath |-> leaf], r.last)
  OBVIOUS
<1>6. C \in Seq(S) /\ Len(C) \in Nat
  <2>1. PICK c : c = CommonPrefixLength(gp, r.last)
    OBVIOUS
  <2>2. C \in Seq(S)
    BY <1>1, <1>4, <1>5, <2>1, LinesOfCase
  <2> QED BY <2>2, LenProperties
<1>7. PICK L : L = r.lines
  OBVIOUS
<1>8. L \in Seq(S) /\ Len(L) \in Nat
  BY <1>1, <1>7, LenProperties
<1>9. q.last = gp /\ q.lines = L \o C
  BY <1>2, <1>3, <1>5, <1>7 DEF SummaryStep, SlowSummaryDisplay
<1>10. PICK M : M = L \o C
  OBVIOUS
<1>11. /\ M \in Seq(S) /\ Len(M) = Len(L) + Len(C)
       /\ \A i \in 1 .. Len(L) + Len(C) : M[i] = IF i <= Len(L) THEN L[i] ELSE C[i - Len(L)]
  BY <1>6, <1>8, <1>10, ConcatProperties
<1>12. ASSUME NEW f, Reads(f, <<>>, M)
       PROVE  f[Len(M)] = [open |-> gp, places |-> Append(places, Append(path, "compile"))]
  <2>1. PICK k \in Nat : k = Len(L)
    BY <1>8
  <2>2. PICK m \in Nat : m = Len(C)
    BY <1>6
  <2>3. /\ f[0] = [open |-> <<>>, places |-> <<>>]
        /\ \A i \in 1 .. k + m : f[i] = ReadStep(f[i - 1], M[i])
    BY <1>11, <1>12, <2>1, <2>2 DEF Reads
  <2>4. /\ \A i \in 1 .. k : i \in 1 .. k + m /\ M[i] = L[i]
        /\ \A j \in 1 .. m : k + j \in 1 .. k + m /\ M[k + j] = C[j]
    <3>1. \A i \in 1 .. k + m : M[i] = IF i <= k THEN L[i] ELSE C[i - k]
      BY <1>11, <2>1, <2>2
    <3>2. \A i \in 1 .. k : i \in 1 .. k + m /\ i <= k
      OBVIOUS
    <3>3. \A j \in 1 .. m : k + j \in 1 .. k + m /\ ~(k + j <= k) /\ k + j - k = j
      OBVIOUS
    <3> QED BY <3>1, <3>2, <3>3
  <2>5. Reads(f, <<>>, L)
    BY <2>1, <2>3, <2>4 DEF Reads
  <2>6. f[k] = [open |-> r.last, places |-> places]
    BY <1>7, <2>1, <2>5 DEF ReadsTo
  <2>7. \A j \in 1 .. Len(C) : f[k + j] = ReadStep(f[k + j - 1], C[j])
    BY <2>2, <2>3, <2>4
  <2>8. PICK previous : previous = r.last
    OBVIOUS
  <2>9. f[k].open = previous /\ previous \in Seq(V) /\ f[k].places = places
    BY <2>6, <2>8
  <2>10. f[k + Len(C)] = [open |-> gp, places |-> Append(f[k].places, gp \o leaf)]
    <3>1. C = CaseLines(CaseOf(gp, leaf), previous)
      BY <1>5, <2>8 DEF CaseOf
    <3>2. ReadsFrom(f, k, C)
      BY <2>7 DEF ReadsFrom
    <3>3. Placed(f[k + Len(C)], gp, f[k].places, leaf)
      BY <1>4, <2>9, <3>1, <3>2, CaseRead
    <3> QED BY <3>3 DEF Placed
  <2>11. Len(M) = k + Len(C)
    BY <1>11, <2>1
  <2> QED BY <1>4, <2>9, <2>10, <2>11
<1>13. ReadsTo(q, Append(places, Append(path, "compile")))
  BY <1>9, <1>10, <1>12 DEF ReadsTo
<1> QED BY <1>1, <1>4, <1>9, <1>10, <1>11, <1>13

(* The summary of any paths reads back as these paths, in their order.       *)
LEMMA SummaryRead ==
  ASSUME NEW V, "compile" \in V, NEW paths, Len(paths) \in Nat,
         \A i \in 1 .. Len(paths) : paths[i] \in Seq(V) /\ paths[i] # <<>>
  PROVE  Reading(<<>>, SlowSummaryLines(paths)).places
           = [i \in 1 .. Len(paths) |-> Append(paths[i], "compile")]
<1>1. PICK g : Grows(g, paths) /\ SlowSummaryLines(paths) = g[Len(paths)].lines
  BY SummaryGrows
<1>2. PICK n \in Nat : n = Len(paths)
  OBVIOUS
<1> DEFINE Places(k) == [i \in 1 .. k |-> Append(paths[i], "compile")]
           Ok(k) == /\ g[k].last \in Seq(V) /\ g[k].lines \in Seq(Lines(V))
                    /\ ReadsTo(g[k], Places(k))
           bad == {k \in 0 .. n : ~Ok(k)}
<1>3. Ok(0)
  <2>1. g[0] = [lines |-> <<>>, last |-> <<>>]
    BY <1>1 DEF Grows
  <2>2. g[0].last = <<>> /\ g[0].lines = <<>> /\ Len(<<>>) = 0
    BY <2>1
  <2>3. <<>> \in Seq(V) /\ <<>> \in Seq(Lines(V))
    BY EmptySeq
  <2>4. Places(0) = <<>>
    OBVIOUS
  <2>5. ReadsTo(g[0], <<>>)
    BY <2>2 DEF ReadsTo, Reads
  <2> QED BY <2>2, <2>3, <2>4, <2>5
<1>4. ASSUME NEW k \in Nat, k + 1 <= n, Ok(k)
      PROVE  Ok(k + 1)
  <2>1. PICK path : path = paths[k + 1]
    OBVIOUS
  <2>2. k + 1 \in 1 .. Len(paths) /\ k + 1 - 1 = k
    BY <1>2, <1>4
  <2>3. path \in Seq(V) /\ path # <<>>
    BY <2>1, <2>2
  <2>4. PICK r : r = g[k]
    OBVIOUS
  <2>5. PICK q : q = g[k + 1]
    OBVIOUS
  <2>6. q = SummaryStep(r, path)
    BY <1>1, <2>1, <2>2, <2>4, <2>5 DEF Grows
  <2>7. PICK places : places = Places(k)
    OBVIOUS
  <2>8. r.last \in Seq(V) /\ r.lines \in Seq(Lines(V)) /\ ReadsTo(r, places)
    BY <1>4, <2>4, <2>7
  <2>9. /\ q.last \in Seq(V) /\ q.lines \in Seq(Lines(V))
        /\ ReadsTo(q, Append(places, Append(path, "compile")))
    BY <2>3, <2>6, <2>8, SummaryStepRead
  <2>10. Append(places, Append(path, "compile")) = Places(k + 1)
    <3>1. places = [i \in 1 .. k |-> Append(paths[i], "compile")]
      BY <2>7
    <3>2. PICK e : e = Append(path, "compile")
      OBVIOUS
    <3>3. Append(places, e) = [i \in 1 .. k + 1 |-> IF i <= k THEN Append(paths[i], "compile") ELSE e]
      BY <3>1
    <3>4. ASSUME NEW i \in 1 .. k + 1
          PROVE  (IF i <= k THEN Append(paths[i], "compile") ELSE e) = Append(paths[i], "compile")
      <4>1. CASE i <= k
        BY <4>1
      <4>2. CASE ~(i <= k)
        <5>1. i = k + 1
          BY <4>2
        <5> QED BY <2>1, <3>2, <4>2, <5>1
      <4> QED BY <4>1, <4>2
    <3>5. Append(places, e) = [i \in 1 .. k + 1 |-> Append(paths[i], "compile")]
      BY <3>3, <3>4, Zenon
    <3> QED BY <3>2, <3>5
  <2> QED BY <2>5, <2>9, <2>10
<1> HIDE DEF Ok
<1>5. bad = {}
  <2> SUFFICES ASSUME bad # {} PROVE FALSE
    OBVIOUS
  <2>1. bad \in SUBSET Nat
    OBVIOUS
  <2>2. PICK k \in bad : \A i \in bad : k <= i
    BY <2>1, LeastMember
  <2>3. k \in Nat /\ k <= n /\ ~Ok(k)
    BY <2>2
  <2>4. k # 0
    BY <1>3, <2>3
  <2>5. PICK m \in Nat : m + 1 = k
    BY <2>3, <2>4
  <2>6. m \in 0 .. n /\ ~(k <= m) /\ m + 1 <= n
    BY <2>3, <2>5
  <2>7. m \notin bad
    <3> HIDE DEF bad
    <3> QED BY <2>2, <2>6
  <2>8. Ok(m)
    BY <2>6, <2>7
  <2> QED BY <1>4, <2>3, <2>5, <2>6, <2>8
<1>6. Ok(n)
  BY <1>5
<1>7. PICK lines : lines = g[n].lines
  OBVIOUS
<1>8. PICK places : places = Places(n)
  OBVIOUS
<1>9. lines \in Seq(Lines(V)) /\ ReadsTo(g[n], places) /\ SlowSummaryLines(paths) = lines
  BY <1>1, <1>2, <1>6, <1>7, <1>8 DEF Ok
<1>10. Len(lines) \in Nat
  BY <1>9, LenProperties
<1>11. PICK f : Reads(f, <<>>, lines) /\ Reading(<<>>, lines) = f[Len(lines)]
  BY <1>10, ReadingReads
<1>12. f[Len(lines)].places = places
  BY <1>7, <1>9, <1>11 DEF ReadsTo
<1> QED BY <1>2, <1>8, <1>9, <1>11, <1>12

Associate(s, t, u) == (s \o t) \o u = s \o (t \o u)

LEMMA Association ==
  ASSUME NEW V, NEW s \in Seq(V), NEW t \in Seq(V), NEW u \in Seq(V)
  PROVE  Associate(s, t, u)
BY ConcatAssociative DEF Associate

(* A case below the headers that are open.                                   *)
LEMMA DisplayRead ==
  ASSUME NEW V, NEW p \in V, NEW path \in Seq(V), path # <<>>, NEW previous \in Seq(V)
  PROVE  /\ FixtureDisplay(p, path).groupParts \in Seq(V)
         /\ Reading(previous, CaseLines(FixtureDisplay(p, path), previous))
              = [open |-> FixtureDisplay(p, path).groupParts, places |-> <<<<p>> \o path \o <<p>>>>]
<1>1. PICK S : S = Lines(V)
  OBVIOUS
<1>2. PICK front : front = Front(path)
  OBVIOUS
<1>3. PICK leaf : leaf = <<Last(path), p>>
  OBVIOUS
<1>4. front \in Seq(V) /\ leaf \in Seq(V) /\ front \o leaf = Append(path, p)
  BY <1>2, <1>3, PathSplit
<1>5. PICK one : one = <<p>>
  OBVIOUS
<1>6. one \in Seq(V) /\ Append(path, p) = path \o one
  BY <1>5
<1>7. PICK gp : gp = one \o front
  OBVIOUS
<1>8. gp \in Seq(V)
  BY <1>4, <1>6, <1>7, ConcatProperties
<1>9. gp \o leaf = one \o path \o one
  <2>1. Associate(one, front, leaf) /\ Associate(one, path, one)
    BY <1>4, <1>6, Association
  <2>2. PICK whole : whole = front \o leaf
    OBVIOUS
  <2>3. gp \o leaf = one \o whole
    BY <1>7, <2>1, <2>2 DEF Associate
  <2>4. one \o path \o one = one \o (path \o one)
    BY <2>1 DEF Associate
  <2>5. path \o one = whole
    BY <1>4, <1>6, <2>2
  <2> QED BY <2>3, <2>4, <2>5
<1>10. PICK lines : lines = CaseLines([groupParts |-> gp, leafPath |-> leaf], previous)
  OBVIOUS
<1>11. Len(lines) \in Nat
  <2>1. PICK c : c = CommonPrefixLength(gp, previous)
    OBVIOUS
  <2>2. lines \in Seq(S)
    BY <1>1, <1>4, <1>8, <1>10, <2>1, LinesOfCase
  <2> QED BY <2>2, LenProperties
<1>12. PICK f : Reads(f, previous, lines) /\ Reading(previous, lines) = f[Len(lines)]
  BY <1>11, ReadingReads
<1>13. /\ f[0] = [open |-> previous, places |-> <<>>]
       /\ \A j \in 1 .. Len(lines) : f[j] = ReadStep(f[j - 1], lines[j])
  BY <1>12 DEF Reads
<1>14. PICK k \in Nat : k = 0
  OBVIOUS
<1>15. /\ f[k].open = previous /\ f[k].places = <<>> /\ k + Len(lines) = Len(lines)
       /\ \A j \in 1 .. Len(lines) : f[k + j] = ReadStep(f[k + j - 1], lines[j])
  <2>1. PICK m \in Nat : m = Len(lines)
    BY <1>11
  <2>2. k + m = m /\ f[k] = [open |-> previous, places |-> <<>>]
    BY <1>13, <1>14
  <2>3. \A j \in 1 .. m : f[k + j] = ReadStep(f[k + j - 1], lines[j])
    <3>1. \A j \in 1 .. m : k + j = j /\ k + j - 1 = j - 1
      BY <1>14
    <3> QED BY <1>13, <2>1, <3>1
  <2> QED BY <2>1, <2>2, <2>3
<1>16. f[k + Len(lines)] = [open |-> gp, places |-> Append(f[k].places, gp \o leaf)]
  <2>1. lines = CaseLines(CaseOf(gp, leaf), previous)
    BY <1>10 DEF CaseOf
  <2>2. ReadsFrom(f, k, lines) /\ f[k].open = previous
    BY <1>15 DEF ReadsFrom
  <2>3. Placed(f[k + Len(lines)], gp, f[k].places, leaf)
    BY <1>4, <1>8, <2>1, <2>2, CaseRead
  <2> QED BY <2>3 DEF Placed
<1>17. FixtureDisplay(p, path) = [groupParts |-> gp, leafPath |-> leaf]
  BY <1>2, <1>3, <1>5, <1>7 DEF FixtureDisplay
<1>18. PICK place : place = gp \o leaf
  OBVIOUS
<1>19. Append(<<>>, place) = <<place>>
  OBVIOUS
<1>20. Reading(previous, lines) = [open |-> gp, places |-> <<place>>]
  BY <1>12, <1>15, <1>16, <1>18, <1>19
<1> QED BY <1>5, <1>8, <1>9, <1>10, <1>17, <1>18, <1>20

Names == TestPhase \cup UNION {ToSet(PathOf[d]) : d \in Dir}

LEMMA PathsNamed ==
  ASSUME NEW d \in Dir
  PROVE  PathOf[d] \in Seq(Names) /\ PathOf[d] # <<>>
<1>1. PathOf[d] \in Seq(ToSet(PathOf[d])) /\ PathOf[d] # <<>>
  BY PathsAreNamed DEF Dir
<1>2. ToSet(PathOf[d]) \subseteq Names
  BY DEF Names
<1>3. PICK own : own = ToSet(PathOf[d])
  OBVIOUS
<1>4. PICK all : all = Names
  OBVIOUS
<1>5. PICK path : path = PathOf[d]
  OBVIOUS
<1>6. path \in Seq(all)
  BY <1>1, <1>2, <1>3, <1>4, <1>5, SeqMonotonic
<1> QED BY <1>1, <1>4, <1>5, <1>6

(* The headers kept are those of the test that was printed last.             *)
RInv ==
  \/ reported = <<>> /\ lastHeaderParts = <<>>
  \/ reported \in Tests /\ lastHeaderParts = DisplayOf(reported).groupParts

LEMMA ReporterSteps ==
  [Next]_vars => UNCHANGED reporter \/ \E t \in Tests : LogFixtureCase(t)
<1> SUFFICES ASSUME [Next]_vars
             PROVE  UNCHANGED reporter \/ \E t \in Tests : LogFixtureCase(t)
  OBVIOUS
<1>1. \A d \in Dir : <<d, "compile">> \in Tests /\ <<d, "runtime">> \in Tests
  BY DEF Tests, TestPhase
<1>2. ASSUME NEW t \in Tests, NEW result, Report(t, result)
      PROVE  UNCHANGED reporter \/ \E u \in Tests : LogFixtureCase(u)
  BY <1>2 DEF Report
<1>3. ASSUME NEW t \in Tests, NEW ok, NEW marks, Ends(t, ok, marks)
      PROVE  UNCHANGED reporter \/ \E u \in Tests : LogFixtureCase(u)
  BY <1>2, <1>3 DEF Ends
<1>4. CASE UNCHANGED vars
  BY <1>4 DEF vars
<1>5. CASE Runner
  BY <1>5 DEF Runner, RunnerRefuses, StartPreparing, PrepareNext, PreparingEnds, RunVitest,
             RegisterTests, Orchestration
<1>6. CASE StartTest \/ StartCleanup \/ CleanupEnds
  BY <1>6 DEF StartTest, StartCleanup, CleanupEnds, Orchestration
<1>7. ASSUME NEW d \in Dir, RemoveOutput(d) \/ CompileContract(d) \/ CleanupPassedFixture(d)
      PROVE  UNCHANGED reporter
  BY <1>7 DEF RemoveOutput, CompileContract, CleanupPassedFixture
<1>8. ASSUME NEW d \in Dir, RunCompileTest(d)
      PROVE  UNCHANGED reporter \/ \E t \in Tests : LogFixtureCase(t)
  BY <1>1, <1>3, <1>8 DEF RunCompileTest
<1>9. ASSUME NEW d \in Dir, RunRuntimeTest(d)
      PROVE  UNCHANGED reporter \/ \E t \in Tests : LogFixtureCase(t)
  BY <1>1, <1>3, <1>9 DEF RunRuntimeTest
<1>10. ASSUME NEW d \in Dir, LoadGeneratedContract(d)
       PROVE  UNCHANGED reporter \/ \E t \in Tests : LogFixtureCase(t)
  BY <1>1, <1>3, <1>10 DEF LoadGeneratedContract
<1>11. ASSUME NEW d \in Dir, RuntimeEnds(d)
       PROVE  UNCHANGED reporter \/ \E t \in Tests : LogFixtureCase(t)
  BY <1>1, <1>3, <1>11 DEF RuntimeEnds
<1>12. ASSUME NEW t \in Tests, TimesOut(t)
       PROVE  UNCHANGED reporter \/ \E u \in Tests : LogFixtureCase(u)
  BY <1>2, <1>12 DEF TimesOut
<1> QED BY <1>4, <1>5, <1>6, <1>7, <1>8, <1>9, <1>10, <1>11, <1>12 DEF Next, Orchestrator

LEMMA ReporterInvariant == Spec => []RInv
<1>1. Init => RInv
  BY DEF Init, RInv
<1>2. RInv /\ [Next]_vars => RInv'
  <2> SUFFICES ASSUME RInv, [Next]_vars PROVE RInv'
    OBVIOUS
  <2>1. CASE UNCHANGED reporter
    BY <2>1 DEF RInv, reporter, DisplayOf
  <2>2. CASE \E t \in Tests : LogFixtureCase(t)
    BY <2>2 DEF RInv, LogFixtureCase, DisplayOf
  <2> QED BY <2>1, <2>2, ReporterSteps
<1> QED BY <1>1, <1>2, PTL DEF Spec

LEMMA OutlineStep == RInv /\ [Next]_vars => OutlineReadsBack
<1> SUFFICES ASSUME RInv, [Next]_vars, reported' # reported
             PROVE  OutlineReadsBack
  BY DEF OutlineReadsBack
<1>1. PICK t \in Tests : LogFixtureCase(t)
  BY ReporterSteps DEF reporter
<1>2. PICK d \in Dir, p \in TestPhase : t = <<d, p>>
  BY DEF Tests
<1>3. t[1] = d /\ t[2] = p /\ reported' = t /\ lastHeaderParts' = DisplayOf(t).groupParts
  BY <1>1, <1>2 DEF LogFixtureCase
<1>4. PICK V : V = Names
  OBVIOUS
<1>5. p \in V /\ "compile" \in V
  BY <1>4 DEF Names, TestPhase
<1>6. PICK open : open = IF reported = <<>> THEN <<>> ELSE DisplayOf(reported).groupParts
  OBVIOUS
<1>7. open = lastHeaderParts /\ open \in Seq(V)
  <2>1. CASE reported = <<>> /\ lastHeaderParts = <<>>
    BY <1>6, <2>1, EmptySeq
  <2>2. CASE reported \in Tests /\ lastHeaderParts = DisplayOf(reported).groupParts
    <3>1. PICK e \in Dir, r \in TestPhase : reported = <<e, r>>
      BY <2>2 DEF Tests
    <3>2. reported # <<>> /\ reported[1] = e /\ reported[2] = r
      BY <3>1
    <3>3. r \in V
      BY <1>4 DEF Names
    <3>4. PICK path : path = PathOf[e]
      OBVIOUS
    <3>5. path \in Seq(V) /\ path # <<>>
      BY <1>4, <3>4, PathsNamed
    <3>6. PICK none : none = <<>>
      OBVIOUS
    <3>7. none \in Seq(V)
      BY <3>6, EmptySeq
    <3>8. FixtureDisplay(r, path).groupParts \in Seq(V)
      BY <3>3, <3>5, <3>7, DisplayRead
    <3> QED BY <1>6, <2>2, <3>2, <3>4, <3>8 DEF DisplayOf
  <2> QED BY <2>1, <2>2 DEF RInv
<1>8. PICK path : path = PathOf[d]
  OBVIOUS
<1>9. path \in Seq(V) /\ path # <<>>
  BY <1>4, <1>8, PathsNamed
<1>10. Reading(open, CaseLines(FixtureDisplay(p, path), open))
         = [open |-> FixtureDisplay(p, path).groupParts, places |-> <<<<p>> \o path \o <<p>>>>]
  BY <1>5, <1>7, <1>9, DisplayRead
<1>11. DisplayOf(t) = FixtureDisplay(p, path) /\ LinesOf(t) = CaseLines(FixtureDisplay(p, path), open)
  BY <1>3, <1>7, <1>8 DEF DisplayOf, LinesOf
<1> DEFINE slow == {e \in SlowDirs : verdict'[<<e, "compile">>] # "none"}
<1>12. ASSUME NEW sorted \in SetToSeqs(slow), NEW paths,
              paths = [i \in 1 .. Len(sorted) |-> PathOf[sorted[i]]]
       PROVE  Reading(<<>>, SlowSummaryLines(paths)).places
                = [i \in 1 .. Len(paths) |-> Append(paths[i], "compile")]
  <2>1. slow \subseteq Dir /\ IsFiniteSet(slow)
    <3>1. slow \subseteq Dir
      BY SlowAreDirs DEF Dir
    <3> HIDE DEF slow
    <3> QED BY <3>1, DirsAreFinite, FS_Subset
  <2> HIDE DEF slow
  <2>2. PICK n : n = Cardinality(slow)
    OBVIOUS
  <2>3. n \in Nat
    BY <2>1, <2>2, FS_CardinalityType
  <2>4. sorted \in [1 .. n -> slow]
    BY <2>2 DEF SetToSeqs
  <2>5. Len(sorted) = n /\ \A i \in 1 .. n : sorted[i] \in Dir
    BY <2>1, <2>3, <2>4
  <2>6. Len(paths) = n /\ \A i \in 1 .. n : paths[i] = PathOf[sorted[i]]
    BY <1>12, <2>3, <2>5
  <2>7. \A i \in 1 .. n : paths[i] \in Seq(V) /\ paths[i] # <<>>
    BY <1>4, <2>5, <2>6, PathsNamed
  <2> QED BY <1>5, <2>3, <2>6, <2>7, SummaryRead
<1> QED BY <1>3, <1>6, <1>8, <1>10, <1>11, <1>12 DEF OutlineReadsBack

(* Whatever is reported in whatever order, a reader of the outline finds the *)
(* case that was just printed below its directories, and every slow compile  *)
(* of the summary below its own (FixtureReporter).                           *)
THEOREM OutlinesReadBack == Spec => OutlineAlwaysReadsBack
<1>1. RInv /\ [Next]_vars => [OutlineReadsBack]_vars
  BY OutlineStep
<1> QED BY <1>1, ReporterInvariant, PTL DEF Spec, OutlineAlwaysReadsBack
=============================================================================
