----------------------- MODULE CrossContractCall_proofs -----------------------
(***************************************************************************)
(* Theorems about CrossContractCall, for every set of contracts and runs,  *)
(* every bound and every setting of the application's switches: types, the *)
(* pairing of the memo, the re-entrancy guard, and the agreement of the    *)
(* cells of the contracts on a call stack with the per-address maps.       *)
(***************************************************************************)
EXTENDS CrossContractCall, SequenceTheorems, TLAPS

(* A context whose references exist among the first n objects, whose maps   *)
(* agree on which contracts are known, and which memoized the deployed      *)
(* state of every contract it knows but the entry one.                      *)
MemoOf(ctx) == {Entry} \cup ctx.contractStates

ContextOK(ctx, n) ==
  /\ ctx \in CircuitContext
  /\ ctx.cc.cur \in 1 .. n
  /\ Known(ctx, ctx.cc.addr)
  /\ \A a \in Addr : ctx.queryContexts[a] \in 0 .. n
  /\ \A a \in Addr : Known(ctx, a) => ctx.gasCosts[a] \in Nat /\ a \in MemoOf(ctx)

LEMMA ContextMonotonic ==
  ASSUME NEW n \in Nat, NEW m \in Nat, n <= m, NEW ctx, ContextOK(ctx, n)
  PROVE  ContextOK(ctx, m)
BY DEF ContextOK

LEMMA InitialContextOK == ContextOK(InitialContext, 1)
BY EntryAssumption DEF ContextOK, InitialContext, CircuitContext, CallContext,
   Known, NoRef, Absent, MemoOf

(* Typing of the context, one level of records at a time.                   *)
LEMMA CellsTyped ==
  ASSUME NEW ctx \in CircuitContext
  PROVE  /\ ctx.cc \in CallContext
         /\ ctx.queryContexts \in [Addr -> Nat]
         /\ ctx.gasCosts \in [Addr -> Nat \cup {Absent}]
         /\ ctx.zswapLocalStates \in [Addr -> Nat \cup {Absent}]
         /\ ctx.contractStates \in SUBSET Addr
         /\ ctx.trace \in Seq(CallProofData)
         /\ ctx.events \in Seq(Addr)
BY DEF CircuitContext

LEMMA CallContextTyped ==
  ASSUME NEW cc \in CallContext
  PROVE  cc.addr \in Addr /\ cc.init \in Nat /\ cc.cur \in Nat /\ cc.gas \in Nat
         /\ cc.ps \in {Absent, 0, 1} /\ cc.zs \in Nat
BY DEF CallContext

LEMMA QueriedOK ==
  ASSUME NEW n \in Nat, NEW ctx, ContextOK(ctx, n), NEW cost \in Nat,
         NEW logs \in Seq(Addr)
  PROVE  /\ ContextOK(Queried(ctx, n + 1, cost, logs), n + 1)
         /\ \A b \in Addr : Known(ctx, b) => Known(Queried(ctx, n + 1, cost, logs), b)
<1> DEFINE a == ctx.cc.addr
           q == Queried(ctx, n + 1, cost, logs)
           spent == IF ctx.gasCosts[a] = Absent THEN 0 ELSE ctx.gasCosts[a]
           cells == [ctx.cc EXCEPT !.cur = n + 1, !.gas = ctx.cc.gas + cost]
<1>1. ctx \in CircuitContext
  BY DEF ContextOK
<1>2. a \in Addr /\ ctx.cc.gas \in Nat
  BY <1>1, CellsTyped, CallContextTyped
<1>3. spent + cost \in Nat
  BY <1>1, <1>2, CellsTyped
<1>4. ctx.events \o logs \in Seq(Addr)
  BY <1>1, CellsTyped, ConcatProperties
<1>5. cells \in CallContext /\ cells.cur = n + 1 /\ cells.addr = a
  <2> DEFINE gas == ctx.cc.gas + cost
             ref == n + 1
  <2>1. gas \in Nat /\ ref \in Nat
    BY <1>2
  <2> HIDE DEF gas, ref
  <2>2. [ctx.cc EXCEPT !.cur = ref, !.gas = gas] \in CallContext
    BY <1>1, <2>1, CellsTyped DEF CallContext
  <2>3. /\ [ctx.cc EXCEPT !.cur = ref, !.gas = gas].cur = ref
        /\ [ctx.cc EXCEPT !.cur = ref, !.gas = gas].addr = a
    BY <1>1, CellsTyped DEF CallContext
  <2> QED BY <2>2, <2>3 DEF gas, ref
<1>6. /\ q.cc = cells
      /\ q.queryContexts = [ctx.queryContexts EXCEPT ![a] = n + 1]
      /\ q.gasCosts = [ctx.gasCosts EXCEPT ![a] = spent + cost]
      /\ q.contractStates = ctx.contractStates
  BY <1>1 DEF CircuitContext, Queried
<1>7. q \in CircuitContext
  <2> DEFINE ref == n + 1
             gas == spent + cost
             events == ctx.events \o logs
  <2>1. q = [ctx EXCEPT !.cc = cells, !.queryContexts = [ctx.queryContexts EXCEPT ![a] = ref],
                        !.gasCosts = [ctx.gasCosts EXCEPT ![a] = gas], !.events = events]
    BY <1>1 DEF CircuitContext, Queried
  <2>2. ref \in Nat
    OBVIOUS
  <2>3. [ctx.queryContexts EXCEPT ![a] = ref] \in [Addr -> Nat]
    BY <1>1, <2>2, CellsTyped
  <2>4. [ctx.gasCosts EXCEPT ![a] = gas] \in [Addr -> Nat \cup {Absent}]
    BY <1>1, <1>3, CellsTyped
  <2> HIDE DEF ref, gas, events, cells, q, a
  <2> QED BY <1>1, <1>4, <1>5, <2>1, <2>3, <2>4 DEF CircuitContext, events
<1>8. \A b \in Addr : q.queryContexts[b] = IF b = a THEN n + 1 ELSE ctx.queryContexts[b]
  BY <1>1, <1>2, <1>6, CellsTyped
<1>9. /\ q.gasCosts[a] \in Nat
      /\ \A b \in Addr : b # a => q.gasCosts[b] = ctx.gasCosts[b]
  BY <1>1, <1>2, <1>3, <1>6, CellsTyped
<1>10. MemoOf(q) = MemoOf(ctx)
  BY <1>6 DEF MemoOf
<1>11. q.cc.cur = n + 1 /\ q.cc.addr = a
  BY <1>5, <1>6
<1>12. \A b \in Addr : q.queryContexts[b] \in 0 .. n + 1
  BY <1>8 DEF ContextOK
<1>13. \A b \in Addr : Known(q, b) => q.gasCosts[b] \in Nat /\ b \in MemoOf(q)
  BY <1>8, <1>9, <1>10 DEF ContextOK, Known
<1>14. Known(q, a) /\ \A b \in Addr : Known(ctx, b) => Known(q, b)
  BY <1>2, <1>8 DEF Known, NoRef
<1> HIDE DEF q
<1> QED BY <1>7, <1>11, <1>12, <1>13, <1>14 DEF ContextOK, q

LEMMA WithOutputOK ==
  ASSUME NEW n \in Nat, NEW ctx, ContextOK(ctx, n)
  PROVE  /\ ContextOK(WithOutput(ctx, n + 1), n + 1)
         /\ \A b \in Addr : Known(ctx, b) => Known(WithOutput(ctx, n + 1), b)
<1> DEFINE a == ctx.cc.addr
           q == WithOutput(ctx, n + 1)
           ref == n + 1
           zs == ctx.cc.zs + 1
           cells == [ctx.cc EXCEPT !.cur = ref, !.zs = zs]
<1>1. ctx \in CircuitContext /\ ref \in Nat
  BY DEF ContextOK
<1>2. a \in Addr /\ zs \in Nat
  BY <1>1, CellsTyped, CallContextTyped
<1>3. /\ q.cc = cells
      /\ q.queryContexts = [ctx.queryContexts EXCEPT ![a] = ref]
      /\ q.gasCosts = ctx.gasCosts
      /\ q.contractStates = ctx.contractStates
  BY <1>1 DEF CircuitContext, WithOutput
<1>4. q = [ctx EXCEPT !.cc = cells, !.queryContexts = [ctx.queryContexts EXCEPT ![a] = ref],
                      !.zswapLocalStates = [ctx.zswapLocalStates EXCEPT ![a] = zs]]
  BY <1>1 DEF CircuitContext, WithOutput
<1>5. cells \in CallContext /\ cells.cur = ref /\ cells.addr = a
  <2> HIDE DEF ref, zs
  <2> QED BY <1>1, <1>2, CellsTyped DEF CallContext
<1>6. /\ [ctx.queryContexts EXCEPT ![a] = ref] \in [Addr -> Nat]
      /\ [ctx.zswapLocalStates EXCEPT ![a] = zs] \in [Addr -> Nat \cup {Absent}]
  <2> HIDE DEF ref, zs, a
  <2> QED BY <1>1, <1>2, CellsTyped
<1>7. q \in CircuitContext
  <2> HIDE DEF ref, zs, a, cells, q
  <2> QED BY <1>1, <1>4, <1>5, <1>6 DEF CircuitContext
<1>8. \A b \in Addr : q.queryContexts[b] = IF b = a THEN ref ELSE ctx.queryContexts[b]
  BY <1>1, <1>2, <1>3, CellsTyped
<1>9. MemoOf(q) = MemoOf(ctx)
  BY <1>3 DEF MemoOf
<1>10. q.cc.cur = ref /\ q.cc.addr = a
  BY <1>3, <1>5
<1>11. \A b \in Addr : q.queryContexts[b] \in 0 .. n + 1
  BY <1>8 DEF ContextOK
<1>12. \A b \in Addr : Known(q, b) => q.gasCosts[b] \in Nat /\ b \in MemoOf(q)
  BY <1>3, <1>8, <1>9 DEF ContextOK, Known
<1>13. Known(q, a) /\ \A b \in Addr : Known(ctx, b) => Known(q, b)
  BY <1>2, <1>8 DEF Known, NoRef
<1> HIDE DEF q
<1> QED BY <1>7, <1>10, <1>11, <1>12, <1>13 DEF ContextOK, q

LEMMA WitnessedOK ==
  ASSUME NEW n \in Nat, NEW ctx, ContextOK(ctx, n)
  PROVE  /\ ContextOK([ctx EXCEPT !.cc.ps = 1], n)
         /\ \A b \in Addr : Known(ctx, b) => Known([ctx EXCEPT !.cc.ps = 1], b)
<1> DEFINE q == [ctx EXCEPT !.cc.ps = 1]
           cells == [ctx.cc EXCEPT !.ps = 1]
<1>1. ctx \in CircuitContext
  BY DEF ContextOK
<1>2. /\ q = [ctx EXCEPT !.cc = cells]
      /\ q.cc = cells
      /\ q.queryContexts = ctx.queryContexts
      /\ q.gasCosts = ctx.gasCosts
      /\ q.contractStates = ctx.contractStates
  BY <1>1 DEF CircuitContext
<1>3. cells \in CallContext /\ cells.cur = ctx.cc.cur /\ cells.addr = ctx.cc.addr
  BY <1>1, CellsTyped DEF CallContext
<1>4. q \in CircuitContext
  <2> HIDE DEF cells, q
  <2> QED BY <1>1, <1>2, <1>3 DEF CircuitContext
<1>5. q.cc.cur = ctx.cc.cur /\ q.cc.addr = ctx.cc.addr
  BY <1>2, <1>3
<1> HIDE DEF q
<1> QED BY <1>2, <1>4, <1>5 DEF ContextOK, q, Known, MemoOf

(* enterQueryContext leaves the callee known, with its state memoized.      *)
LEMMA EnterContextOK ==
  ASSUME NEW n \in Nat, n = Len(heap), NEW m \in Nat, NEW ctx, ContextOK(ctx, n),
         NEW callee \in Addr, m = IF Known(ctx, callee) THEN n ELSE n + 1
  PROVE  /\ ContextOK(EnterContext(ctx, callee), m)
         /\ Known(EnterContext(ctx, callee), callee)
         /\ EnteredRef(ctx, callee) \in 1 .. m
         /\ \A b \in Addr : Known(ctx, b) => Known(EnterContext(ctx, callee), b)
<1>1. CASE Known(ctx, callee)
  <2>1. EnterContext(ctx, callee) = ctx /\ m = n
    BY <1>1 DEF EnterContext
  <2>2. EnteredRef(ctx, callee) \in 1 .. n
    BY <1>1 DEF EnteredRef, ContextOK, Known, NoRef
  <2> QED BY <1>1, <2>1, <2>2
<1>2. CASE ~Known(ctx, callee)
  <2> DEFINE q == EnterContext(ctx, callee)
             ref == Fresh
  <2>1. ctx \in CircuitContext /\ ref = n + 1 /\ m = n + 1 /\ ref \in Nat
    BY <1>2 DEF ContextOK, Fresh
  <2>2. /\ q = [ctx EXCEPT !.contractStates = ctx.contractStates \cup {callee},
                          !.queryContexts = [ctx.queryContexts EXCEPT ![callee] = ref],
                          !.gasCosts = [ctx.gasCosts EXCEPT ![callee] = 0]]
        /\ q.cc = ctx.cc
        /\ q.contractStates = ctx.contractStates \cup {callee}
        /\ q.queryContexts = [ctx.queryContexts EXCEPT ![callee] = ref]
        /\ q.gasCosts = [ctx.gasCosts EXCEPT ![callee] = 0]
    BY <1>2, <2>1 DEF CircuitContext, EnterContext
  <2>3. /\ [ctx.queryContexts EXCEPT ![callee] = ref] \in [Addr -> Nat]
        /\ [ctx.gasCosts EXCEPT ![callee] = 0] \in [Addr -> Nat \cup {Absent}]
        /\ ctx.contractStates \cup {callee} \in SUBSET Addr
    <3> HIDE DEF ref
    <3> QED BY <2>1, CellsTyped
  <2>4. q \in CircuitContext
    <3> HIDE DEF ref, q
    <3> QED BY <2>1, <2>2, <2>3 DEF CircuitContext
  <2>5. \A b \in Addr :
          /\ q.queryContexts[b] = IF b = callee THEN ref ELSE ctx.queryContexts[b]
          /\ q.gasCosts[b] = IF b = callee THEN 0 ELSE ctx.gasCosts[b]
    <3> HIDE DEF ref, q
    <3> QED BY <2>1, <2>2, CellsTyped
  <2>6. \A b \in Addr : Known(q, b) => q.gasCosts[b] \in Nat /\ b \in MemoOf(q)
    BY <2>2, <2>5 DEF ContextOK, Known, MemoOf
  <2>7. Known(q, callee) /\ \A b \in Addr : Known(ctx, b) => Known(q, b)
    BY <2>1, <2>5 DEF Known, NoRef
  <2>8. \A b \in Addr : q.queryContexts[b] \in 0 .. m
    BY <2>1, <2>5 DEF ContextOK
  <2>9. q.cc.cur \in 1 .. m /\ Known(q, q.cc.addr)
    <3>1. ctx.cc.addr \in Addr
      BY <2>1, CellsTyped, CallContextTyped
    <3> QED BY <2>1, <2>2, <2>7, <3>1 DEF ContextOK
  <2>10. EnteredRef(ctx, callee) \in 1 .. m
    BY <1>2, <2>1 DEF EnteredRef
  <2> HIDE DEF q
  <2> QED BY <2>4, <2>6, <2>7, <2>8, <2>9, <2>10 DEF ContextOK, q
<1> QED BY <1>1, <1>2

LEMMA SetupOK ==
  ASSUME NEW n \in Nat, NEW ctx, ContextOK(ctx, n), NEW callee \in Addr,
         Known(ctx, callee), NEW ref \in 1 .. n
  PROVE  /\ ContextOK(SetupCallContext(ctx, callee, ref), n)
         /\ \A b \in Addr :
              Known(ctx, b) => Known(SetupCallContext(ctx, callee, ref), b)
<1> DEFINE q == SetupCallContext(ctx, callee, ref)
           zs == IF ctx.zswapLocalStates[callee] = Absent THEN 0
                 ELSE ctx.zswapLocalStates[callee]
           cells == [addr |-> callee, init |-> ref, cur |-> ref,
                     gas |-> ctx.gasCosts[callee], ps |-> Absent, zs |-> zs]
<1>1. ctx \in CircuitContext /\ ctx.gasCosts[callee] \in Nat
  BY DEF ContextOK
<1>2. zs \in Nat
  BY <1>1, CellsTyped
<1>3. cells \in CallContext
  <2> HIDE DEF zs
  <2> QED BY <1>1, <1>2 DEF CallContext
<1>4. [ctx.zswapLocalStates EXCEPT ![callee] = zs] \in [Addr -> Nat \cup {Absent}]
  <2> HIDE DEF zs
  <2> QED BY <1>1, <1>2, CellsTyped
<1>5. /\ q = [ctx EXCEPT !.cc = cells,
                    !.zswapLocalStates = [ctx.zswapLocalStates EXCEPT ![callee] = zs]]
      /\ q.cc = cells
      /\ q.queryContexts = ctx.queryContexts
      /\ q.gasCosts = ctx.gasCosts
      /\ q.contractStates = ctx.contractStates
  BY <1>1 DEF CircuitContext, SetupCallContext
<1>6. q \in CircuitContext
  <2> HIDE DEF zs, q, cells
  <2> QED BY <1>1, <1>3, <1>4, <1>5 DEF CircuitContext
<1>7. q.cc.cur = ref /\ q.cc.addr = callee
  BY <1>5
<1> HIDE DEF q
<1> QED BY <1>5, <1>6, <1>7 DEF ContextOK, q, Known, MemoOf

ProofData == [ops : Nat, claims : SUBSET (Nat \ {0})]

LEMMA FinalizeOK ==
  ASSUME NEW n \in Nat, NEW ctx, ContextOK(ctx, n), NEW ppd \in ProofData
  PROVE  /\ ContextOK(Finalize(ctx, ppd), n)
         /\ Finalize(ctx, ppd).queryContexts = ctx.queryContexts
         /\ Len(Finalize(ctx, ppd).trace) \in Nat \ {0}
<1> DEFINE q == Finalize(ctx, ppd)
           entry == [addr |-> ctx.cc.addr, init |-> ctx.cc.init, final |-> ctx.cc.cur,
                     zs |-> ctx.cc.zs, ops |-> ppd.ops, claims |-> ppd.claims,
                     comm |-> FALSE]
<1>1. ctx \in CircuitContext
  BY DEF ContextOK
<1>2. entry \in CallProofData
  <2>1. ppd.ops \in Nat /\ ppd.claims \in SUBSET (Nat \ {0})
    BY DEF ProofData
  <2> QED BY <1>1, <2>1, CellsTyped, CallContextTyped DEF CallProofData
<1>3. Append(ctx.trace, entry) \in Seq(CallProofData) /\ Len(Append(ctx.trace, entry)) \in Nat \ {0}
  <2> HIDE DEF entry
  <2> QED BY <1>1, <1>2, CellsTyped, AppendProperties
<1>4. /\ q = [ctx EXCEPT !.trace = Append(ctx.trace, entry)]
      /\ q.trace = Append(ctx.trace, entry)
      /\ q.cc = ctx.cc
      /\ q.queryContexts = ctx.queryContexts
      /\ q.gasCosts = ctx.gasCosts
      /\ q.contractStates = ctx.contractStates
  BY <1>1 DEF CircuitContext, Finalize
<1>5. q \in CircuitContext
  <2> HIDE DEF q, entry
  <2> QED BY <1>1, <1>3, <1>4 DEF CircuitContext
<1> HIDE DEF q, entry
<1> QED BY <1>3, <1>4, <1>5 DEF ContextOK, q, Known, MemoOf

LEMMA RestoreOK ==
  ASSUME NEW n \in Nat, NEW ctx, ContextOK(ctx, n), Len(ctx.trace) \in Nat \ {0},
         NEW saved \in CallContext, saved.cur \in 1 .. n, Known(ctx, saved.addr)
  PROVE  /\ ContextOK(RestoreCircuitContext(ctx, saved), n)
         /\ RestoreCircuitContext(ctx, saved).queryContexts = ctx.queryContexts
         /\ Len(RestoreCircuitContext(ctx, saved).trace) \in Nat \ {0}
<1> DEFINE q == RestoreCircuitContext(ctx, saved)
           last == ctx.trace[Len(ctx.trace)]
           marked == [last EXCEPT !.comm = TRUE]
           trace == [ctx.trace EXCEPT ![Len(ctx.trace)] = marked]
<1>1. ctx \in CircuitContext
  BY DEF ContextOK
<1>2. last \in CallProofData
  BY <1>1, CellsTyped, ElementOfSeq
<1>3. marked \in CallProofData
  <2> HIDE DEF last
  <2> QED BY <1>2 DEF CallProofData
<1>4. trace \in Seq(CallProofData) /\ Len(trace) = Len(ctx.trace)
  <2> HIDE DEF marked
  <2> QED BY <1>1, <1>3, CellsTyped, ExceptSeq
<1>5. /\ q = [ctx EXCEPT !.cc = saved, !.trace = trace]
      /\ q.trace = trace
      /\ q.cc = saved
      /\ q.queryContexts = ctx.queryContexts
      /\ q.gasCosts = ctx.gasCosts
      /\ q.contractStates = ctx.contractStates
  BY <1>1 DEF CircuitContext, RestoreCircuitContext
<1>6. q \in CircuitContext
  <2> HIDE DEF q, trace
  <2> QED BY <1>1, <1>4, <1>5 DEF CircuitContext
<1> HIDE DEF q, trace
<1> QED BY <1>4, <1>5, <1>6 DEF ContextOK, q, Known, MemoOf

-----------------------------------------------------------------------------
(* The inductive invariant, run by run.  Every frame below the innermost    *)
(* one awaits its callee, and what its snapshot will restore is known to    *)
(* the innermost context, which is the one it will be restored into.        *)
FrameOK(f, n) ==
  /\ f \in Frame
  /\ ContextOK(f.ctx, n)
  /\ f.saved.cur \in 1 .. n
  /\ f.pc \in Pending => f.callee \in Addr \ {Entry}

StackOK(s, phase, n) ==
  /\ s \in Seq(Frame)
  /\ \A i \in 1 .. Len(s) : FrameOK(s[i], n)
  /\ Len(s) > 0 <=> phase \in {"running", "throwing"}
  /\ \A i \in 1 .. Len(s) - 1 : s[i].pc = "callee"
  /\ Len(s) > 0 => s[Len(s)].pc # "callee"
  /\ phase = "throwing" => s[Len(s)].pc \in {"run", "refused"}
  /\ phase = "running" =>
       \A i \in 1 .. Len(s) - 1 : Known(s[Len(s)].ctx, s[i].saved.addr)

IInv ==
  /\ heap \in Seq(Object) /\ Len(heap) > 0
  /\ active \subseteq Addr /\ Entry \in active
  /\ status \in [Runs -> Phases]
  /\ stack \in [Runs -> Seq(Frame)]
  /\ \A r \in Runs : StackOK(stack[r], status[r], Len(heap))
  /\ result \in [Runs -> CircuitContext]
  /\ \A r \in Runs : ContextOK(result[r], Len(heap))

LEMMA FrameTyped ==
  ASSUME NEW f \in Frame
  PROVE  /\ f.ctx \in CircuitContext
         /\ f.ppd \in ProofData
         /\ f.pc \in {"run", "refused"} \cup Pending
         /\ f.callee \in Addr \cup {NoAddr}
         /\ f.saved \in CallContext
BY DEF Frame, ProofData

LEMMA StackMonotonic ==
  ASSUME NEW s, NEW phase, NEW n \in Nat, NEW m \in Nat, n <= m, StackOK(s, phase, n)
  PROVE  StackOK(s, phase, m)
<1>1. \A i \in 1 .. Len(s) : FrameOK(s[i], m)
  BY ContextMonotonic DEF StackOK, FrameOK
<1> QED BY <1>1 DEF StackOK

(* The innermost frame of a running circuit moves.                          *)
LEMMA SetTopOK ==
  ASSUME NEW n \in Nat, NEW m \in Nat, n <= m,
         NEW s, StackOK(s, "running", n), NEW f, FrameOK(f, m),
         NEW phase \in {"running", "throwing"},
         f.pc # "callee", phase = "throwing" => f.pc \in {"run", "refused"},
         \A b \in Addr : Known(s[Len(s)].ctx, b) => Known(f.ctx, b)
  PROVE  StackOK([s EXCEPT ![Len(s)] = f], phase, m)
<1> DEFINE t == [s EXCEPT ![Len(s)] = f]
<1>1. StackOK(s, "running", m) /\ s \in Seq(Frame) /\ Len(s) \in 1 .. Len(s) /\ f \in Frame
  <2>1. StackOK(s, "running", m)
    BY StackMonotonic
  <2>2. s \in Seq(Frame) /\ Len(s) > 0 /\ f \in Frame
    BY DEF StackOK, FrameOK
  <2> QED BY <2>1, <2>2, LenProperties
<1>2. /\ t \in Seq(Frame) /\ Len(t) = Len(s)
      /\ \A i \in 1 .. Len(s) : t[i] = IF i = Len(s) THEN f ELSE s[i]
  BY <1>1, ExceptSeq
<1> HIDE DEF t
<1>3. Len(s) \in Nat \ {0}
  BY <1>1
<1>4. \A i \in 1 .. Len(t) : FrameOK(t[i], m)
  BY <1>1, <1>2 DEF StackOK
<1>5. \A i \in 1 .. Len(t) - 1 : t[i] = s[i]
  BY <1>2, <1>3
<1>6. t[Len(t)] = f
  BY <1>2, <1>3
<1>7. \A i \in 1 .. Len(s) - 1 : s[i].saved.addr \in Addr
  BY <1>1, <1>3, ElementOfSeq, FrameTyped, CallContextTyped
<1>8. \A i \in 1 .. Len(t) - 1 : Known(t[Len(t)].ctx, t[i].saved.addr)
  BY <1>1, <1>2, <1>5, <1>6, <1>7 DEF StackOK
<1>9. \A i \in 1 .. Len(t) - 1 : t[i].pc = "callee"
  BY <1>1, <1>2, <1>5 DEF StackOK
<1> QED BY <1>2, <1>3, <1>4, <1>6, <1>8, <1>9 DEF StackOK, t

(* The innermost frame calls: it waits and its callee is pushed.            *)
LEMMA PushOK ==
  ASSUME NEW n \in Nat, NEW m \in Nat, n <= m,
         NEW s, StackOK(s, "running", n), NEW f, FrameOK(f, m), f.pc = "callee",
         NEW g, FrameOK(g, m), g.pc = "run",
         Known(g.ctx, f.saved.addr),
         \A b \in Addr : Known(s[Len(s)].ctx, b) => Known(g.ctx, b)
  PROVE  StackOK(Append([s EXCEPT ![Len(s)] = f], g), "running", m)
<1> DEFINE t == [s EXCEPT ![Len(s)] = f]
           u == Append(t, g)
<1>1. /\ StackOK(s, "running", m) /\ s \in Seq(Frame) /\ Len(s) \in 1 .. Len(s)
      /\ f \in Frame /\ g \in Frame
  <2>1. StackOK(s, "running", m)
    BY StackMonotonic
  <2>2. s \in Seq(Frame) /\ Len(s) > 0 /\ f \in Frame /\ g \in Frame
    BY DEF StackOK, FrameOK
  <2> QED BY <2>1, <2>2, LenProperties
<1>2. /\ t \in Seq(Frame) /\ Len(t) = Len(s)
      /\ \A i \in 1 .. Len(s) : t[i] = IF i = Len(s) THEN f ELSE s[i]
  BY <1>1, ExceptSeq
<1> HIDE DEF t
<1>3. Len(s) \in Nat \ {0}
  BY <1>1
<1>4. /\ u \in Seq(Frame) /\ Len(u) = Len(s) + 1
      /\ \A i \in 1 .. Len(s) : u[i] = t[i]
      /\ u[Len(s) + 1] = g
  BY <1>1, <1>2, AppendProperties
<1> HIDE DEF u
<1>5. \A i \in 1 .. Len(u) : FrameOK(u[i], m)
  <2> SUFFICES ASSUME NEW i \in 1 .. Len(u) PROVE FrameOK(u[i], m)
    OBVIOUS
  <2>1. CASE i = Len(s) + 1
    BY <1>4, <2>1
  <2>2. CASE i \in 1 .. Len(s)
    BY <1>1, <1>2, <1>4, <2>2 DEF StackOK
  <2> QED BY <1>3, <1>4, <2>1, <2>2
<1>6. \A i \in 1 .. Len(u) - 1 : u[i] = IF i = Len(s) THEN f ELSE s[i]
  BY <1>2, <1>3, <1>4
<1>7. u[Len(u)] = g /\ Len(u) - 1 = Len(s) /\ Len(u) > 0
  BY <1>3, <1>4
<1>8. \A i \in 1 .. Len(s) : s[i].saved.addr \in Addr
  BY <1>1, <1>3, ElementOfSeq, FrameTyped, CallContextTyped
<1>9. \A i \in 1 .. Len(u) - 1 : u[i].pc = "callee" /\ Known(g.ctx, u[i].saved.addr)
  <2> SUFFICES ASSUME NEW i \in 1 .. Len(u) - 1
               PROVE  u[i].pc = "callee" /\ Known(g.ctx, u[i].saved.addr)
    OBVIOUS
  <2>1. CASE i = Len(s)
    BY <1>6, <2>1
  <2>2. CASE i # Len(s)
    <3>1. i \in 1 .. Len(s) - 1 /\ u[i] = s[i]
      BY <1>3, <1>6, <1>7, <2>2
    <3> QED BY <1>1, <1>8, <3>1 DEF StackOK
  <2> QED BY <2>1, <2>2
<1> QED BY <1>4, <1>5, <1>7, <1>9 DEF StackOK, u, t

(* The innermost frame is popped and the one below is resumed as f, running *)
(* or throwing.                                                             *)
LEMMA PopOK ==
  ASSUME NEW n \in Nat, NEW m \in Nat, n <= m,
         NEW s, NEW old, StackOK(s, old, n), Len(s) > 1, NEW f, FrameOK(f, m), f.pc = "run",
         NEW phase \in {"running", "throwing"},
         phase = "running" =>
           old = "running" /\ \A b \in Addr : Known(s[Len(s)].ctx, b) => Known(f.ctx, b)
  PROVE  StackOK([SubSeq(s, 1, Len(s) - 1) EXCEPT ![Len(s) - 1] = f], phase, m)
<1> DEFINE k == Len(s) - 1
           b == SubSeq(s, 1, k)
           t == [b EXCEPT ![k] = f]
<1>1. StackOK(s, old, m) /\ s \in Seq(Frame) /\ k \in Nat \ {0} /\ Len(s) = k + 1 /\ f \in Frame
  <2>1. StackOK(s, old, m)
    BY StackMonotonic
  <2>2. s \in Seq(Frame) /\ f \in Frame
    BY DEF StackOK, FrameOK
  <2> QED BY <2>1, <2>2, LenProperties, SMTT(20)
<1> HIDE DEF k
<1>2. b \in Seq(Frame) /\ Len(b) = k /\ \A i \in 1 .. k : b[i] = s[i]
  <2>1. \A i \in 1 .. k : s[i] \in Frame
    BY <1>1, ElementOfSeq
  <2>2. \A i \in 1 .. k : 1 + i - 1 = i
    BY <1>1
  <2> QED BY <1>1, <2>1, <2>2, SubSeqProperties
<1> HIDE DEF b
<1>3. /\ t \in Seq(Frame) /\ Len(t) = k
      /\ \A i \in 1 .. k : t[i] = IF i = k THEN f ELSE s[i]
  BY <1>1, <1>2, ExceptSeq
<1> HIDE DEF t
<1>4. \A i \in 1 .. Len(t) : FrameOK(t[i], m)
  BY <1>1, <1>3 DEF StackOK
<1>5. \A i \in 1 .. Len(t) - 1 : t[i] = s[i] /\ s[i].pc = "callee"
  BY <1>1, <1>3 DEF StackOK
<1>6. t[Len(t)] = f /\ Len(t) > 0
  BY <1>1, <1>3
<1>7. ASSUME phase = "running", NEW i \in 1 .. Len(t) - 1
      PROVE  Known(t[Len(t)].ctx, t[i].saved.addr)
  <2>1. i \in 1 .. Len(s) - 1 /\ i \in 1 .. Len(s)
    BY <1>1, <1>3
  <2>2. s[i].saved.addr \in Addr
    BY <1>1, <2>1, ElementOfSeq, FrameTyped, CallContextTyped
  <2>3. Known(s[Len(s)].ctx, s[i].saved.addr)
    BY <1>1, <1>7, <2>1 DEF StackOK
  <2> QED BY <1>5, <1>6, <1>7, <2>2, <2>3
<1> QED BY <1>3, <1>4, <1>5, <1>6, <1>7 DEF StackOK, t, b, k

(* A step touches the stack and the phase of one run.                       *)
LEMMA OneRunSteps ==
  ASSUME IInv, NEW r \in Runs, NEW s, NEW phase \in Phases,
         stack' = [stack EXCEPT ![r] = s],
         status' = [status EXCEPT ![r] = phase],
         StackOK(s, phase, Len(heap')),
         heap' \in Seq(Object), Len(heap') >= Len(heap),
         active' \subseteq Addr, Entry \in active',
         UNCHANGED result
  PROVE  IInv'
<1>1. Len(heap) \in Nat /\ Len(heap') \in Nat /\ Len(heap') > 0
  BY LenProperties DEF IInv
<1>2. stack' \in [Runs -> Seq(Frame)] /\ status' \in [Runs -> Phases]
  BY DEF IInv, StackOK
<1>3. \A q \in Runs : StackOK(stack'[q], status'[q], Len(heap'))
  <2> SUFFICES ASSUME NEW q \in Runs PROVE StackOK(stack'[q], status'[q], Len(heap'))
    OBVIOUS
  <2>1. CASE q = r
    BY <2>1 DEF IInv
  <2>2. CASE q # r
    <3>1. stack'[q] = stack[q] /\ status'[q] = status[q]
      BY <2>2 DEF IInv
    <3>2. StackOK(stack[q], status[q], Len(heap))
      BY DEF IInv
    <3> QED BY <1>1, <3>1, <3>2, StackMonotonic
  <2> QED BY <2>1, <2>2
<1>4. \A q \in Runs : ContextOK(result'[q], Len(heap'))
  BY <1>1, ContextMonotonic DEF IInv
<1>5. result' \in [Runs -> CircuitContext]
  BY DEF IInv
<1> QED BY <1>1, <1>2, <1>3, <1>4, <1>5 DEF IInv

(* What is known of a run that executes or awaits: its innermost frame.     *)
LEMMA TopFacts ==
  ASSUME IInv, NEW r \in Runs, status[r] \in {"running", "throwing"}
  PROVE  /\ StackOK(stack[r], status[r], Len(heap))
         /\ stack[r] \in Seq(Frame)
         /\ Depth(r) \in Nat \ {0}
         /\ Top(r) \in Frame
         /\ FrameOK(Top(r), Len(heap))
         /\ Len(heap) \in Nat \ {0}
<1>1. StackOK(stack[r], status[r], Len(heap)) /\ stack[r] \in Seq(Frame)
  BY DEF IInv, StackOK
<1>2. Depth(r) \in Nat \ {0}
  BY <1>1, LenProperties DEF StackOK, Depth
<1>3. FrameOK(Top(r), Len(heap))
  BY <1>1, <1>2 DEF StackOK, Top, Depth
<1> QED BY <1>1, <1>2, <1>3, LenProperties DEF FrameOK, IInv

LEMMA AllocateTyped ==
  ASSUME heap \in Seq(Object), NEW object \in Object, Allocate(object)
  PROVE  heap' \in Seq(Object) /\ Len(heap') = Len(heap) + 1 /\ Len(heap) \in Nat
BY AppendProperties, LenProperties DEF Allocate

LEMMA ObjectTyped ==
  ASSUME heap \in Seq(Object), NEW ref \in 1 .. Len(heap)
  PROVE  /\ heap[ref] \in Object
         /\ [heap[ref] EXCEPT !.data = @ + 1, !.effects = @ + 1] \in Object
         /\ [heap[ref] EXCEPT !.com = @ + 1] \in Object
         /\ [heap[ref] EXCEPT !.effects = @ + 1] \in Object
<1>1. heap[ref] \in Object
  BY ElementOfSeq
<1>2. heap[ref].data + 1 \in Nat /\ heap[ref].effects + 1 \in Nat /\ heap[ref].com + 1 \in Nat
  BY <1>1, SMTT(20) DEF Object
<1> DEFINE d == heap[ref].data + 1
           e == heap[ref].effects + 1
           c == heap[ref].com + 1
<1> HIDE DEF d, e, c
<1>3. /\ [heap[ref] EXCEPT !.data = d, !.effects = e] \in Object
      /\ [heap[ref] EXCEPT !.com = c] \in Object
      /\ [heap[ref] EXCEPT !.effects = e] \in Object
  BY <1>1, <1>2 DEF Object, d, e, c
<1> QED BY <1>1, <1>3 DEF d, e, c

(* A step that replaces the innermost frame of a running circuit.           *)
LEMMA SetTopStep ==
  ASSUME IInv, NEW r \in Runs, status[r] = "running",
         NEW f, FrameOK(f, Len(heap')), f.pc # "callee",
         \A b \in Addr : Known(Top(r).ctx, b) => Known(f.ctx, b),
         SetTop(r, f),
         NEW phase \in {"running", "throwing"}, phase = "throwing" => f.pc \in {"run", "refused"},
         status' = [status EXCEPT ![r] = phase],
         heap' \in Seq(Object), Len(heap') >= Len(heap),
         active' \subseteq Addr, Entry \in active',
         UNCHANGED result
  PROVE  IInv'
<1>1. /\ StackOK(stack[r], "running", Len(heap))
      /\ Len(heap) \in Nat
  BY TopFacts
<1>2. Len(heap') \in Nat
  BY LenProperties
<1>3. StackOK([stack[r] EXCEPT ![Len(stack[r])] = f], phase, Len(heap'))
  BY <1>1, <1>2, SetTopOK DEF Top, Depth
<1>4. stack' = [stack EXCEPT ![r] = [stack[r] EXCEPT ![Len(stack[r])] = f]]
  BY DEF SetTop, Depth
<1>5. phase \in Phases
  BY DEF Phases
<1> QED BY <1>3, <1>4, <1>5, OneRunSteps

LEMMA LedgerOpStep ==
  ASSUME IInv, NEW r \in Runs, NEW cost \in Costs, LedgerOp(r, cost)
  PROVE  IInv'
<1> DEFINE n == Len(heap)
           ctx == Queried(Top(r).ctx, Fresh, cost, <<Top(r).ctx.cc.addr>>)
           f == [Top(r) EXCEPT !.ctx = ctx, !.ppd.ops = @ + 1]
<1>1. /\ StackOK(stack[r], "running", n)
      /\ stack[r] \in Seq(Frame)
      /\ Top(r) \in Frame
      /\ FrameOK(Top(r), n)
      /\ n \in Nat
      /\ Top(r).pc = "run"
      /\ status[r] = "running"
  BY TopFacts DEF LedgerOp, Executing
<1>2. /\ heap' \in Seq(Object) /\ Len(heap') = n + 1
  BY <1>1, AllocateTyped, ObjectTyped DEF LedgerOp, FrameOK, ContextOK, IInv
<1>3. /\ ContextOK(ctx, n + 1)
      /\ \A b \in Addr : Known(Top(r).ctx, b) => Known(ctx, b)
  <2>1. <<Top(r).ctx.cc.addr>> \in Seq(Addr)
    BY <1>1, CellsTyped, CallContextTyped, FrameTyped
  <2>2. cost \in Nat
    BY CostAssumption
  <2>3. ContextOK(Top(r).ctx, n) /\ Fresh = n + 1
    BY <1>1 DEF FrameOK, Fresh
  <2> QED BY <1>1, <2>1, <2>2, <2>3, QueriedOK
<1>4. FrameOK(f, n + 1) /\ f.pc = "run" /\ f.ctx = ctx
  <2>1. ctx \in CircuitContext
    BY <1>3 DEF ContextOK
  <2>2. Top(r).ppd.ops + 1 \in Nat /\ Top(r).ppd \in ProofData
    BY <1>1, FrameTyped DEF ProofData
  <2>3. [Top(r).ppd EXCEPT !.ops = @ + 1] \in ProofData
    <3> DEFINE ops == Top(r).ppd.ops + 1
    <3> HIDE DEF ops
    <3>1. [Top(r).ppd EXCEPT !.ops = ops] \in ProofData
      BY <2>2 DEF ProofData, ops
    <3> QED BY <3>1 DEF ops
  <2> HIDE DEF ctx
  <2>4. /\ f \in Frame /\ f.pc = "run" /\ f.ctx = ctx /\ f.saved = Top(r).saved
    BY <1>1, <2>1, <2>3 DEF Frame, ProofData
  <2> HIDE DEF f
  <2> QED BY <1>1, <1>3, <2>4 DEF FrameOK, Pending
<1> HIDE DEF ctx, f
<1>5. SetTop(r, f)
  BY DEF LedgerOp, f, ctx
<1>6. status' = [status EXCEPT ![r] = "running"] /\ UNCHANGED <<active, result>>
  BY <1>1 DEF LedgerOp, IInv
<1>7. active' \subseteq Addr /\ Entry \in active'
  BY <1>6 DEF IInv
<1>8. FrameOK(f, Len(heap')) /\ Len(heap') >= Len(heap)
  BY <1>1, <1>2, <1>4
<1> QED BY <1>1, <1>2, <1>3, <1>4, <1>5, <1>6, <1>7, <1>8, SetTopStep

LEMMA CreateZswapOutputStep ==
  ASSUME IInv, NEW r \in Runs, CreateZswapOutput(r)
  PROVE  IInv'
<1> DEFINE n == Len(heap)
           ctx == WithOutput(Top(r).ctx, Fresh)
           f == [Top(r) EXCEPT !.ctx = ctx]
<1>1. /\ Top(r) \in Frame
      /\ FrameOK(Top(r), n)
      /\ n \in Nat
      /\ Top(r).pc = "run"
      /\ status[r] = "running"
  BY TopFacts DEF CreateZswapOutput, Executing
<1>2. /\ heap' \in Seq(Object) /\ Len(heap') = n + 1
  BY <1>1, AllocateTyped, ObjectTyped DEF CreateZswapOutput, FrameOK, ContextOK, IInv
<1>3. /\ ContextOK(ctx, n + 1)
      /\ \A b \in Addr : Known(Top(r).ctx, b) => Known(ctx, b)
  <2>1. ContextOK(Top(r).ctx, n) /\ Fresh = n + 1
    BY <1>1 DEF FrameOK, Fresh
  <2> QED BY <1>1, <2>1, WithOutputOK
<1>4. FrameOK(f, n + 1) /\ f.pc = "run" /\ f.ctx = ctx
  <2>1. ctx \in CircuitContext
    BY <1>3 DEF ContextOK
  <2> HIDE DEF ctx
  <2>2. /\ f \in Frame /\ f.pc = "run" /\ f.ctx = ctx /\ f.saved = Top(r).saved
    BY <1>1, <2>1 DEF Frame
  <2> HIDE DEF f
  <2> QED BY <1>1, <1>3, <2>2 DEF FrameOK, Pending
<1> HIDE DEF ctx, f
<1>5. SetTop(r, f)
  BY DEF CreateZswapOutput, f, ctx
<1>6. status' = [status EXCEPT ![r] = "running"] /\ UNCHANGED <<active, result>>
  BY <1>1 DEF CreateZswapOutput, IInv
<1>7. active' \subseteq Addr /\ Entry \in active'
  BY <1>6 DEF IInv
<1>8. FrameOK(f, Len(heap')) /\ Len(heap') >= Len(heap)
  BY <1>1, <1>2, <1>4
<1> QED BY <1>1, <1>2, <1>3, <1>4, <1>5, <1>6, <1>7, <1>8, SetTopStep

LEMMA CallWitnessStep ==
  ASSUME IInv, NEW r \in Runs, CallWitness(r)
  PROVE  IInv'
<1> DEFINE n == Len(heap)
           ctx == [Top(r).ctx EXCEPT !.cc.ps = 1]
           f == [Top(r) EXCEPT !.ctx.cc.ps = 1]
<1>1. /\ Top(r) \in Frame
      /\ FrameOK(Top(r), n)
      /\ n \in Nat
      /\ Top(r).pc = "run"
      /\ status[r] = "running"
  BY TopFacts DEF CallWitness, Executing
<1>2. /\ ContextOK(ctx, n)
      /\ \A b \in Addr : Known(Top(r).ctx, b) => Known(ctx, b)
  BY <1>1, WitnessedOK DEF FrameOK
<1>3. FrameOK(f, n) /\ f.pc = "run" /\ f.ctx = ctx
  <2>1. ctx \in CircuitContext /\ f = [Top(r) EXCEPT !.ctx = ctx]
    BY <1>1, <1>2 DEF ContextOK, Frame
  <2> HIDE DEF ctx, f
  <2>2. /\ f \in Frame /\ f.pc = "run" /\ f.ctx = ctx /\ f.saved = Top(r).saved
    BY <1>1, <2>1 DEF Frame
  <2> QED BY <1>1, <1>2, <2>2 DEF FrameOK, Pending
<1> HIDE DEF ctx, f
<1>4. SetTop(r, f) /\ UNCHANGED <<heap, active, result>>
  BY DEF CallWitness, f
<1>5. status' = [status EXCEPT ![r] = "running"]
  BY <1>1 DEF CallWitness, IInv
<1>6. /\ active' \subseteq Addr /\ Entry \in active'
      /\ heap' \in Seq(Object) /\ Len(heap') >= Len(heap) /\ FrameOK(f, Len(heap'))
  BY <1>1, <1>3, <1>4 DEF IInv
<1> QED BY <1>1, <1>2, <1>3, <1>4, <1>5, <1>6, SetTopStep

LEMMA CircuitThrowsStep ==
  ASSUME IInv, NEW r \in Runs, CircuitThrows(r)
  PROVE  IInv'
<1>1. /\ StackOK(stack[r], "running", Len(heap))
      /\ Top(r).pc = "run" /\ Depth(r) \in Nat \ {0}
      /\ status' = [status EXCEPT ![r] = "throwing"]
      /\ UNCHANGED <<heap, active, stack, result>>
  BY TopFacts DEF CircuitThrows, Executing, Throws
<1>2. StackOK(stack[r], "throwing", Len(heap))
  BY <1>1 DEF StackOK, Top, Depth
<1>3. stack' = [stack EXCEPT ![r] = stack[r]]
  BY <1>1 DEF IInv
<1>4. /\ heap' \in Seq(Object) /\ Len(heap') >= Len(heap)
      /\ active' \subseteq Addr /\ Entry \in active'
      /\ StackOK(stack[r], "throwing", Len(heap')) /\ "throwing" \in Phases
  <2>1. Len(heap) \in Nat
    BY LenProperties DEF IInv
  <2> QED BY <1>1, <1>2, <2>1 DEF IInv, Phases
<1> QED BY <1>1, <1>3, <1>4, OneRunSteps

(* A frame whose program counter and callee alone change.                   *)
LEMMA FrameRelabelled ==
  ASSUME NEW n, NEW f, FrameOK(f, n), NEW g \in Frame,
         g.ctx = f.ctx, g.saved = f.saved, g.pc \in Pending => g.callee \in Addr \ {Entry}
  PROVE  FrameOK(g, n)
BY DEF FrameOK

LEMMA BeginCallStep ==
  ASSUME IInv, NEW r \in Runs, NEW callee \in Addr, BeginCall(r, callee)
  PROVE  IInv'
<1> DEFINE n == Len(heap)
<1>1. /\ FrameOK(Top(r), n)
      /\ status[r] = "running"
      /\ heap' = heap /\ UNCHANGED result
      /\ heap \in Seq(Object) /\ n \in Nat
      /\ active \subseteq Addr /\ Entry \in active
  BY TopFacts DEF BeginCall, Executing, IInv
<1>2. CASE /\ SetTop(r, [Top(r) EXCEPT !.pc = "refused", !.callee = callee])
           /\ Throws(r) /\ UNCHANGED active
  <2> DEFINE f == [Top(r) EXCEPT !.pc = "refused", !.callee = callee]
  <2>1. FrameOK(f, n) /\ f.ctx = Top(r).ctx /\ f.pc = "refused"
    <3>1. /\ f \in Frame /\ f.ctx = Top(r).ctx /\ f.saved = Top(r).saved
          /\ f.pc = "refused" /\ f.callee = callee
      BY <1>1 DEF FrameOK, Frame, Pending
    <3> HIDE DEF f
    <3> QED BY <1>1, <3>1, FrameRelabelled DEF Pending
  <2> HIDE DEF f
  <2>2. SetTop(r, f)
    BY <1>2 DEF f
  <2>3. /\ status' = [status EXCEPT ![r] = "throwing"]
        /\ FrameOK(f, Len(heap')) /\ Len(heap') >= Len(heap) /\ heap' \in Seq(Object)
        /\ active' \subseteq Addr /\ Entry \in active'
    BY <1>1, <1>2, <2>1 DEF Throws
  <2> QED BY <1>1, <2>1, <2>2, <2>3, SetTopStep
<1>3. CASE /\ callee \notin active
           /\ active' = active \cup {callee}
           /\ SetTop(r, [Top(r) EXCEPT !.pc = "state", !.callee = callee])
           /\ UNCHANGED status
  <2> DEFINE f == [Top(r) EXCEPT !.pc = "state", !.callee = callee]
  <2>1. FrameOK(f, n) /\ f.ctx = Top(r).ctx /\ f.pc = "state"
    <3>1. /\ f \in Frame /\ f.ctx = Top(r).ctx /\ f.saved = Top(r).saved
          /\ f.pc = "state" /\ f.callee = callee
      BY <1>1 DEF FrameOK, Frame, Pending
    <3> HIDE DEF f
    <3> QED BY <1>1, <1>3, <3>1, FrameRelabelled DEF Pending
  <2> HIDE DEF f
  <2>2. SetTop(r, f)
    BY <1>3 DEF f
  <2>3. /\ status' = [status EXCEPT ![r] = "running"]
        /\ FrameOK(f, Len(heap')) /\ Len(heap') >= Len(heap) /\ heap' \in Seq(Object)
        /\ active' \subseteq Addr /\ Entry \in active'
    BY <1>1, <1>3, <2>1 DEF IInv
  <2> QED BY <1>1, <2>1, <2>2, <2>3, SetTopStep
<1> QED BY <1>2, <1>3 DEF BeginCall

LEMMA RejectStep ==
  ASSUME IInv, NEW r \in Runs, status[r] = "running", Top(r).pc \in Pending,
         NEW catchable, Reject(r, catchable), UNCHANGED result
  PROVE  IInv'
<1> DEFINE n == Len(heap)
           f == [Top(r) EXCEPT !.pc = "run", !.callee = NoAddr]
<1>1. /\ FrameOK(Top(r), n)
      /\ heap' = heap
      /\ heap \in Seq(Object) /\ n \in Nat
      /\ active' \subseteq Addr /\ Entry \in active'
  BY TopFacts DEF Reject, IInv, Unmark, FrameOK
<1>2. FrameOK(f, n) /\ f.ctx = Top(r).ctx /\ f.pc = "run"
  <2>1. /\ f \in Frame /\ f.ctx = Top(r).ctx /\ f.saved = Top(r).saved
        /\ f.pc = "run"
    BY <1>1 DEF FrameOK, Frame
  <2> HIDE DEF f
  <2> QED BY <1>1, <2>1, FrameRelabelled DEF Pending
<1> HIDE DEF f
<1>3. SetTop(r, f)
  BY DEF Reject, f
<1>4. PICK phase \in {"running", "throwing"} : status' = [status EXCEPT ![r] = phase]
  BY DEF Reject, Throws, IInv
<1>5. FrameOK(f, Len(heap')) /\ Len(heap') >= Len(heap) /\ heap' \in Seq(Object)
  BY <1>1, <1>2
<1> QED BY <1>1, <1>2, <1>3, <1>4, <1>5, SetTopStep

LEMMA StateArrivesStep ==
  ASSUME IInv, NEW r \in Runs, StateArrives(r)
  PROVE  IInv'
<1> DEFINE n == Len(heap)
<1>1. /\ FrameOK(Top(r), n)
      /\ status[r] = "running" /\ Top(r).pc = "state" /\ Top(r).pc \in Pending
      /\ UNCHANGED result
  BY TopFacts DEF StateArrives, Pending
<1>2. CASE /\ SetTop(r, [Top(r) EXCEPT !.pc = "module"])
           /\ UNCHANGED <<heap, active, status>>
  <2> DEFINE f == [Top(r) EXCEPT !.pc = "module"]
  <2>1. Top(r).callee \in Addr \ {Entry} /\ Top(r) \in Frame
    BY <1>1 DEF FrameOK
  <2>2. /\ f \in Frame /\ f.ctx = Top(r).ctx /\ f.saved = Top(r).saved
        /\ f.pc = "module" /\ f.callee = Top(r).callee
    BY <2>1 DEF Frame, Pending
  <2>3. FrameOK(f, n) /\ f.ctx = Top(r).ctx /\ f.pc = "module"
    <3> HIDE DEF f
    <3> QED BY <1>1, <2>1, <2>2, FrameRelabelled
  <2> HIDE DEF f
  <2>4. SetTop(r, f)
    BY <1>2 DEF f
  <2>5. /\ status' = [status EXCEPT ![r] = "running"]
        /\ FrameOK(f, Len(heap')) /\ Len(heap') >= Len(heap) /\ heap' \in Seq(Object)
        /\ active' \subseteq Addr /\ Entry \in active'
    <3>1. Len(heap) \in Nat
      BY LenProperties DEF IInv
    <3> QED BY <1>1, <1>2, <2>3, <3>1 DEF IInv
  <2> QED BY <1>1, <2>3, <2>4, <2>5, SetTopStep
<1>3. CASE Reject(r, FALSE)
  BY <1>1, <1>3, RejectStep
<1>4. CASE Reject(r, TRUE)
  BY <1>1, <1>4, RejectStep
<1> QED BY <1>2, <1>3, <1>4 DEF StateArrives

LEMMA ModuleRefusedStep ==
  ASSUME IInv, NEW r \in Runs, ModuleRefused(r)
  PROVE  IInv'
BY RejectStep DEF ModuleRefused, Pending

LEMMA EnterHeapTyped ==
  ASSUME heap \in Seq(Object), NEW ctx, ContextOK(ctx, Len(heap)), NEW callee \in Addr,
         EnterHeap(ctx, callee)
  PROVE  /\ heap' \in Seq(Object)
         /\ Len(heap) \in Nat
         /\ Len(heap') = IF Known(ctx, callee) THEN Len(heap) ELSE Len(heap) + 1
<1>1. Len(heap) \in Nat
  BY LenProperties
<1>2. ctx.cc.addr \in Addr
  BY CellsTyped, CallContextTyped DEF ContextOK
<1>3. CASE Known(ctx, callee)
  <2> DEFINE ref == ctx.queryContexts[callee]
             object == [heap[ref] EXCEPT !.caller = ctx.cc.addr, !.effects = 0]
  <2>1. ref \in 1 .. Len(heap)
    BY <1>1, <1>3 DEF ContextOK, Known, NoRef
  <2>2. heap[ref] \in Object
    BY <2>1, ElementOfSeq
  <2>3. object \in Object
    BY <1>2, <2>2 DEF Object
  <2>4. heap' = [heap EXCEPT ![ref] = object]
    BY <1>3 DEF EnterHeap
  <2> HIDE DEF ref, object
  <2> QED BY <1>1, <1>3, <2>1, <2>3, <2>4, ExceptSeq
<1>4. CASE ~Known(ctx, callee)
  <2> DEFINE object == [data |-> 0, com |-> 0, caller |-> ctx.cc.addr, effects |-> 0]
  <2>1. object \in Object
    BY <1>2 DEF Object
  <2>2. Allocate(object)
    BY <1>4 DEF EnterHeap
  <2> HIDE DEF object
  <2> QED BY <1>4, <2>1, <2>2, AllocateTyped
<1> QED BY <1>3, <1>4

LEMMA NoProvableCircuitStep ==
  ASSUME IInv, NEW r \in Runs, NoProvableCircuit(r)
  PROVE  IInv'
<1> DEFINE n == Len(heap)
           m == Len(heap')
           callee == Top(r).callee
           ctx == EnterContext(Top(r).ctx, callee)
           f == [Top(r) EXCEPT !.ctx = ctx, !.pc = "run", !.callee = NoAddr]
<1>1. /\ Top(r) \in Frame
      /\ FrameOK(Top(r), n)
      /\ ContextOK(Top(r).ctx, n)
      /\ callee \in Addr \ {Entry}
      /\ status[r] = "running"
  BY TopFacts DEF NoProvableCircuit, Pending, FrameOK
<1>2. /\ heap' \in Seq(Object) /\ n \in Nat
      /\ m = IF Known(Top(r).ctx, callee) THEN n ELSE n + 1
  BY <1>1, EnterHeapTyped DEF NoProvableCircuit, IInv
<1>3. /\ ContextOK(ctx, m)
      /\ \A b \in Addr : Known(Top(r).ctx, b) => Known(ctx, b)
  <2>1. m \in Nat
    BY <1>2
  <2> HIDE DEF m, callee
  <2> QED BY <1>1, <1>2, <2>1, EnterContextOK
<1>4. FrameOK(f, m) /\ f.pc = "run" /\ f.ctx = ctx
  <2>1. ctx \in CircuitContext
    BY <1>3 DEF ContextOK
  <2> HIDE DEF ctx
  <2>2. /\ f \in Frame /\ f.pc = "run" /\ f.ctx = ctx /\ f.saved = Top(r).saved
    BY <1>1, <2>1 DEF Frame
  <2> HIDE DEF f
  <2> QED BY <1>1, <1>2, <1>3, <2>2 DEF FrameOK, Pending
<1> HIDE DEF ctx, f
<1>5. SetTop(r, f)
  BY DEF NoProvableCircuit, f, ctx
<1>6. /\ status' = [status EXCEPT ![r] = "throwing"] /\ UNCHANGED result
      /\ active' \subseteq Addr /\ Entry \in active'
  BY <1>1 DEF NoProvableCircuit, Throws, Unmark, IInv
<1>7. Len(heap') >= Len(heap)
  BY <1>2
<1> QED BY <1>1, <1>2, <1>3, <1>4, <1>5, <1>6, <1>7, SetTopStep

LEMMA EnterCalleeStep ==
  ASSUME IInv, NEW r \in Runs, EnterCallee(r)
  PROVE  IInv'
<1> DEFINE n == Len(heap)
           m == Len(heap')
           callee == Top(r).callee
           old == Top(r).ctx
           entered == EnterContext(old, callee)
           ref == EnteredRef(old, callee)
           ctx == SetupCallContext(entered, callee, ref)
           f == [Top(r) EXCEPT !.ctx = ctx, !.pc = "callee", !.saved = old.cc]
           g == EnterCircuit(ctx)
<1>1. /\ StackOK(stack[r], "running", n)
      /\ Top(r) \in Frame
      /\ FrameOK(Top(r), n)
      /\ ContextOK(old, n)
      /\ callee \in Addr \ {Entry}
      /\ status[r] = "running"
  BY TopFacts DEF EnterCallee, Pending, FrameOK
<1>2. /\ heap' \in Seq(Object) /\ n \in Nat /\ m \in Nat
      /\ m = IF Known(old, callee) THEN n ELSE n + 1
  BY <1>1, EnterHeapTyped DEF EnterCallee, IInv
<1>3. /\ ContextOK(entered, m)
      /\ Known(entered, callee)
      /\ ref \in 1 .. m
      /\ \A b \in Addr : Known(old, b) => Known(entered, b)
  <2> HIDE DEF m, callee, old
  <2> QED BY <1>1, <1>2, EnterContextOK
<1>4. /\ ContextOK(ctx, m)
      /\ \A b \in Addr : Known(old, b) => Known(ctx, b)
  <2> HIDE DEF m, callee, old, entered, ref
  <2> QED BY <1>1, <1>2, <1>3, SetupOK
<1> HIDE DEF ctx
<1>5. ctx \in CircuitContext /\ ctx.cc \in CallContext /\ ctx.cc.cur \in 1 .. m
  BY <1>4, CellsTyped DEF ContextOK
<1>6. /\ old.cc \in CallContext /\ old.cc.cur \in 1 .. m
      /\ old.cc.addr \in Addr /\ Known(ctx, old.cc.addr)
  <2>1. old \in CircuitContext /\ old.cc.cur \in 1 .. n /\ Known(old, old.cc.addr)
    BY <1>1 DEF ContextOK
  <2>2. old.cc \in CallContext /\ old.cc.addr \in Addr
    BY <2>1, CellsTyped, CallContextTyped
  <2> QED BY <1>2, <1>4, <2>1, <2>2
<1>7. FrameOK(f, m) /\ f.pc = "callee" /\ f.saved = old.cc
  <2> HIDE DEF old
  <2>1. /\ f \in Frame /\ f.ctx = ctx /\ f.pc = "callee" /\ f.saved = old.cc
        /\ f.callee = callee
    BY <1>1, <1>5, <1>6 DEF Frame, Pending
  <2> HIDE DEF f
  <2> QED BY <1>1, <1>4, <1>6, <2>1 DEF FrameOK
<1>8. FrameOK(g, m) /\ g.pc = "run" /\ g.ctx = ctx
  <2>1. EmptyProofData \in ProofData
    BY DEF EmptyProofData, ProofData
  <2>2. /\ g \in Frame /\ g.ctx = ctx /\ g.pc = "run" /\ g.saved = ctx.cc
    BY <1>5, <2>1 DEF Frame, EnterCircuit, ProofData
  <2> HIDE DEF g
  <2> QED BY <1>4, <1>5, <2>2 DEF FrameOK, Pending
<1> HIDE DEF f, g
<1>9. StackOK(Append([stack[r] EXCEPT ![Len(stack[r])] = f], g), "running", m)
  <2>1. Known(g.ctx, f.saved.addr) /\ n <= m
    BY <1>2, <1>6, <1>7, <1>8
  <2>2. \A b \in Addr : Known(stack[r][Len(stack[r])].ctx, b) => Known(g.ctx, b)
    BY <1>4, <1>8 DEF Top, Depth
  <2> HIDE DEF m, n
  <2> QED BY <1>1, <1>2, <1>7, <1>8, <2>1, <2>2, PushOK
<1>10. stack' = [stack EXCEPT ![r] = Append([stack[r] EXCEPT ![Len(stack[r])] = f], g)]
  BY DEF EnterCallee, Depth, f, g, ctx
<1>11. /\ status' = [status EXCEPT ![r] = "running"] /\ UNCHANGED result
       /\ active' \subseteq Addr /\ Entry \in active'
       /\ Len(heap') >= Len(heap) /\ "running" \in Phases
  BY <1>1, <1>2 DEF EnterCallee, IInv, Phases
<1> QED BY <1>2, <1>9, <1>10, <1>11, OneRunSteps

LEMMA EmptyStackOK ==
  ASSUME NEW n, NEW phase \in {"idle", "done", "failed"}
  PROVE  StackOK(<<>>, phase, n)
BY EmptySeq DEF StackOK

LEMMA FinishRunStep ==
  ASSUME IInv, NEW r \in Runs, FinishRun(r)
  PROVE  IInv'
<1> DEFINE n == Len(heap)
           ctx == Finalize(Top(r).ctx, Top(r).ppd)
<1>1. /\ ContextOK(Top(r).ctx, n) /\ Top(r).ppd \in ProofData /\ n \in Nat
  BY TopFacts, FrameTyped DEF FinishRun, Executing, FrameOK
<1>2. ContextOK(ctx, n)
  BY <1>1, FinalizeOK
<1> HIDE DEF ctx
<1>3. /\ result' = [result EXCEPT ![r] = ctx]
      /\ stack' = [stack EXCEPT ![r] = <<>>]
      /\ status' = [status EXCEPT ![r] = "done"]
      /\ UNCHANGED <<heap, active>>
  BY DEF FinishRun, ctx
<1>4. StackOK(<<>>, "done", n)
  BY EmptyStackOK
<1>5. \A q \in Runs : StackOK(stack'[q], status'[q], Len(heap'))
  BY <1>3, <1>4 DEF IInv
<1>6. /\ result' \in [Runs -> CircuitContext]
      /\ \A q \in Runs : ContextOK(result'[q], Len(heap'))
  <2>1. ctx \in CircuitContext
    BY <1>2 DEF ContextOK
  <2> QED BY <1>2, <1>3, <2>1 DEF IInv
<1>7. stack' \in [Runs -> Seq(Frame)] /\ status' \in [Runs -> Phases]
  BY <1>3, EmptySeq DEF IInv, Phases
<1> QED BY <1>3, <1>5, <1>6, <1>7 DEF IInv

LEMMA StartRunStep ==
  ASSUME IInv, NEW r \in Runs, StartRun(r)
  PROVE  IInv'
<1> DEFINE n == Len(heap)
<1>1. n \in Nat \ {0}
  BY LenProperties DEF IInv
<1>2. PICK ctx \in HeldContexts : stack' = [stack EXCEPT ![r] = <<EnterCircuit(ctx)>>]
  BY DEF StartRun
<1>3. ContextOK(ctx, n)
  <2>1. ContextOK(InitialContext, n)
    BY <1>1, InitialContextOK, ContextMonotonic
  <2> QED BY <2>1 DEF HeldContexts, IInv
<1>4. FrameOK(EnterCircuit(ctx), n) /\ EnterCircuit(ctx).pc = "run"
  <2> DEFINE g == EnterCircuit(ctx)
  <2>1. ctx \in CircuitContext /\ ctx.cc \in CallContext /\ ctx.cc.cur \in 1 .. n
    BY <1>3, CellsTyped DEF ContextOK
  <2>2. EmptyProofData \in ProofData
    BY DEF EmptyProofData, ProofData
  <2>3. /\ g \in Frame /\ g.ctx = ctx /\ g.pc = "run" /\ g.saved = ctx.cc
    BY <2>1, <2>2 DEF Frame, EnterCircuit, ProofData
  <2> HIDE DEF g
  <2>4. FrameOK(g, n) /\ g.pc = "run"
    BY <1>3, <2>1, <2>3 DEF FrameOK, Pending
  <2> QED BY <2>4 DEF g
<1>5. StackOK(<<EnterCircuit(ctx)>>, "running", n)
  <2> DEFINE g == EnterCircuit(ctx)
  <2>1. g \in Frame
    BY <1>4 DEF FrameOK
  <2> HIDE DEF g
  <2>2. <<g>> \in Seq(Frame) /\ Len(<<g>>) = 1 /\ <<g>>[1] = g
    BY <2>1
  <2>3. FrameOK(g, n) /\ g.pc = "run"
    BY <1>4 DEF g
  <2>4. StackOK(<<g>>, "running", n)
    BY <2>2, <2>3 DEF StackOK
  <2> QED BY <2>4 DEF g
<1>6. /\ status' = [status EXCEPT ![r] = "running"] /\ UNCHANGED <<heap, active, result>>
  BY DEF StartRun
<1>7. /\ StackOK(<<EnterCircuit(ctx)>>, "running", Len(heap')) /\ heap' \in Seq(Object)
      /\ Len(heap') >= Len(heap) /\ active' \subseteq Addr /\ Entry \in active'
      /\ "running" \in Phases
  BY <1>1, <1>5, <1>6 DEF IInv, Phases
<1> QED BY <1>2, <1>6, <1>7, OneRunSteps

LEMMA AboveOne ==
  ASSUME NEW d \in Nat, d # 0, d # 1
  PROVE  d > 1 /\ d - 1 \in Nat \ {0} /\ d - 1 \in 1 .. d - 1 /\ d - 1 \in 1 .. d
OBVIOUS

(* The frame below the innermost one awaits it.                             *)
LEMMA CallerFacts ==
  ASSUME IInv, NEW r \in Runs, status[r] \in {"running", "throwing"}, Depth(r) # 1
  PROVE  LET f == stack[r][Depth(r) - 1]
         IN /\ FrameOK(f, Len(heap)) /\ f \in Frame
            /\ f.pc = "callee" /\ f.callee \in Addr \ {Entry}
            /\ f.saved \in CallContext /\ f.saved.addr \in Addr
            /\ f.saved.cur \in 1 .. Len(heap)
            /\ status[r] = "running" => Known(Top(r).ctx, f.saved.addr)
            /\ Depth(r) - 1 \in Nat \ {0}
<1> DEFINE i == Depth(r) - 1
           f == stack[r][i]
<1>1. StackOK(stack[r], status[r], Len(heap)) /\ Depth(r) \in Nat \ {0}
  BY TopFacts
<1>2. i \in Nat \ {0} /\ i \in 1 .. Len(stack[r]) /\ i \in 1 .. Len(stack[r]) - 1
  BY <1>1, AboveOne DEF Depth
<1>3. FrameOK(f, Len(heap)) /\ f.pc = "callee"
  BY <1>1, <1>2 DEF StackOK
<1>4. status[r] = "running" => Known(Top(r).ctx, f.saved.addr)
  BY <1>1, <1>2 DEF StackOK, Top, Depth
<1>5. f \in Frame /\ f.saved.cur \in 1 .. Len(heap)
  BY <1>3 DEF FrameOK
<1>6. f.callee \in Addr \ {Entry}
  BY <1>3 DEF FrameOK, Pending
<1>7. f.saved \in CallContext /\ f.saved.addr \in Addr
  BY <1>5, FrameTyped, CallContextTyped
<1> QED BY <1>2, <1>3, <1>4, <1>5, <1>6, <1>7

LEMMA ReturnToCallerStep ==
  ASSUME IInv, NEW r \in Runs, NEW cost \in Costs, ReturnToCaller(r, cost)
  PROVE  IInv'
<1> DEFINE n == Len(heap)
           f == stack[r][Depth(r) - 1]
           final == Finalize(Top(r).ctx, Top(r).ppd)
           ctx == RestoreCircuitContext(final, f.saved)
           back(c, ppd) == [f EXCEPT !.ctx = c, !.ppd = ppd, !.pc = "run", !.callee = NoAddr]
           moved(g) == stack' = [stack EXCEPT ![r] = [Below(r) EXCEPT ![Depth(r) - 1] = g]]
<1>1. /\ status[r] = "running" /\ Depth(r) > 1 /\ Depth(r) # 1
      /\ active' = active \ {f.callee}
      /\ UNCHANGED result
  <2>1. status[r] = "running" /\ Depth(r) > 1
    BY DEF ReturnToCaller, Executing
  <2>2. Depth(r) \in Nat
    BY <2>1, TopFacts
  <2>3. active' = active \ {f.callee} /\ UNCHANGED result
    BY DEF ReturnToCaller, Unmark
  <2> QED BY <2>1, <2>2, <2>3
<1>2. /\ StackOK(stack[r], "running", n) /\ n \in Nat
      /\ ContextOK(Top(r).ctx, n) /\ Top(r).ppd \in ProofData
  BY <1>1, TopFacts, FrameTyped DEF FrameOK
<1>3. /\ FrameOK(f, n) /\ f \in Frame /\ f.callee # Entry
      /\ f.saved \in CallContext /\ f.saved.cur \in 1 .. n
      /\ f.saved.addr \in Addr /\ Known(Top(r).ctx, f.saved.addr)
  BY <1>1, CallerFacts
<1>4. /\ ContextOK(final, n) /\ final.queryContexts = Top(r).ctx.queryContexts
      /\ Len(final.trace) \in Nat \ {0}
  BY <1>2, FinalizeOK
<1>5. /\ ContextOK(ctx, n) /\ ctx.queryContexts = Top(r).ctx.queryContexts
      /\ Len(ctx.trace) \in Nat \ {0}
  <2> Known(final, f.saved.addr)
    BY <1>3, <1>4 DEF Known
  <2> HIDE DEF final, f
  <2> QED BY <1>2, <1>3, <1>4, RestoreOK
<1>6. active' \subseteq Addr /\ Entry \in active'
  BY <1>1, <1>3 DEF IInv
(* What resuming the caller with c and ppd in phase amounts to.             *)
<1>7. ASSUME NEW c, NEW ppd \in ProofData, NEW phase \in {"running", "throwing"},
             ContextOK(c, Len(heap')),
             \A b \in Addr : Known(Top(r).ctx, b) => Known(c, b),
             moved(back(c, ppd)), status' = [status EXCEPT ![r] = phase],
             heap' \in Seq(Object), Len(heap') >= n
      PROVE  IInv'
  <2> DEFINE m == Len(heap')
             g == back(c, ppd)
  <2>1. m \in Nat /\ n <= m
    BY <1>2, <1>7, LenProperties
  <2>2. c \in CircuitContext
    BY <1>7 DEF ContextOK
  <2>3. g \in Frame /\ g.ctx = c /\ g.pc = "run" /\ g.saved = f.saved
    <3> HIDE DEF f
    <3> QED BY <1>3, <1>7, <2>2 DEF Frame, ProofData
  <2> HIDE DEF g, f
  <2>4. FrameOK(g, m)
    <3>1. f.saved.cur \in 1 .. m
      BY <1>2, <1>3, <2>1
    <3> QED BY <1>7, <2>3, <3>1 DEF FrameOK, Pending
  <2>5. StackOK([SubSeq(stack[r], 1, Len(stack[r]) - 1)
                   EXCEPT ![Len(stack[r]) - 1] = g], phase, m)
    <3>1. Len(stack[r]) > 1
      BY <1>1 DEF Depth
    <3>2. \A b \in Addr : Known(stack[r][Len(stack[r])].ctx, b) => Known(g.ctx, b)
      BY <1>7, <2>3 DEF Top, Depth
    <3> HIDE DEF m
    <3> QED BY <1>2, <2>1, <2>3, <2>4, <3>1, <3>2, PopOK
  <2>6. stack' = [stack EXCEPT ![r] = [SubSeq(stack[r], 1, Len(stack[r]) - 1)
                                         EXCEPT ![Len(stack[r]) - 1] = g]]
    BY <1>7 DEF g, Below, Depth
  <2>7. phase \in Phases
    BY DEF Phases
  <2> QED BY <1>1, <1>6, <1>7, <2>5, <2>6, <2>7, OneRunSteps
<1>8. CASE /\ Allocate([heap[f.saved.cur] EXCEPT !.effects = @ + 1])
           /\ moved(back(Queried(ctx, Fresh, cost, <<>>),
                         [f.ppd EXCEPT !.claims = @ \cup {Len(ctx.trace)}]))
           /\ UNCHANGED status
  <2> DEFINE c == Queried(ctx, Fresh, cost, <<>>)
             ppd == [f.ppd EXCEPT !.claims = @ \cup {Len(ctx.trace)}]
  <2>1. heap' \in Seq(Object) /\ Len(heap') = n + 1
    <3>1. heap \in Seq(Object)
      BY DEF IInv
    <3> HIDE DEF f
    <3> QED BY <1>3, <1>8, <3>1, ObjectTyped, AllocateTyped
  <2>2. /\ ContextOK(c, Len(heap'))
        /\ \A b \in Addr : Known(Top(r).ctx, b) => Known(c, b)
    <3>1. cost \in Nat /\ <<>> \in Seq(Addr) /\ Fresh = n + 1
      BY CostAssumption, EmptySeq DEF Fresh
    <3>2. \A b \in Addr : Known(Top(r).ctx, b) => Known(ctx, b)
      BY <1>5 DEF Known
    <3> HIDE DEF ctx
    <3> QED BY <1>2, <1>5, <2>1, <3>1, <3>2, QueriedOK
  <2>3. ppd \in ProofData
    <3>1. f.ppd \in ProofData
      BY <1>3, FrameTyped
    <3> HIDE DEF f, ctx
    <3> QED BY <1>5, <3>1 DEF ProofData
  <2>4. status' = [status EXCEPT ![r] = "running"] /\ Len(heap') >= n
    BY <1>1, <1>2, <1>8, <2>1, SMTT(20) DEF IInv
  <2>5. moved(back(c, ppd))
    BY <1>8
  <2> HIDE DEF c, ppd, back, moved
  <2> QED BY <1>7, <2>1, <2>2, <2>3, <2>4, <2>5
<1>9. CASE /\ moved(back(ctx, f.ppd))
           /\ Throws(r)
           /\ UNCHANGED heap
  <2>1. /\ heap' \in Seq(Object) /\ Len(heap') >= n
        /\ status' = [status EXCEPT ![r] = "throwing"]
    BY <1>2, <1>9 DEF IInv, Throws
  <2>2. \A b \in Addr : Known(Top(r).ctx, b) => Known(ctx, b)
    BY <1>5 DEF Known
  <2>3. f.ppd \in ProofData
    BY <1>3, FrameTyped
  <2>4. ContextOK(ctx, Len(heap')) /\ moved(back(ctx, f.ppd))
    BY <1>5, <1>9
  <2> HIDE DEF ctx, back, moved
  <2> QED BY <1>7, <2>1, <2>2, <2>3, <2>4
<1> QED BY <1>8, <1>9 DEF ReturnToCaller

LEMMA UnwindStep ==
  ASSUME IInv, NEW r \in Runs, Unwind(r)
  PROVE  IInv'
<1> DEFINE n == Len(heap)
<1>1. status[r] = "throwing" /\ UNCHANGED <<heap, result>>
  BY DEF Unwind
<1>2. /\ StackOK(stack[r], "throwing", n) /\ n \in Nat /\ Depth(r) \in Nat \ {0}
      /\ heap' \in Seq(Object) /\ Len(heap') = n /\ Len(heap') >= n
  BY <1>1, TopFacts DEF IInv
<1>3. CASE Depth(r) = 1
  <2>1. /\ stack' = [stack EXCEPT ![r] = <<>>]
        /\ status' = [status EXCEPT ![r] = "failed"]
        /\ active' = active
    BY <1>3 DEF Unwind
  <2>2. /\ StackOK(<<>>, "failed", Len(heap')) /\ "failed" \in Phases
        /\ active' \subseteq Addr /\ Entry \in active'
    BY <2>1, EmptyStackOK DEF IInv, Phases
  <2> QED BY <1>1, <1>2, <2>1, <2>2, OneRunSteps
<1>4. CASE Depth(r) # 1
  <2> DEFINE f == stack[r][Depth(r) - 1]
             g == [f EXCEPT !.pc = "run", !.callee = NoAddr]
  <2>1. /\ FrameOK(f, n) /\ f \in Frame /\ f.callee # Entry
    BY <1>1, <1>4, CallerFacts
  <2>2. FrameOK(g, n) /\ g.pc = "run"
    <3> HIDE DEF f
    <3>1. /\ g \in Frame /\ g.ctx = f.ctx /\ g.saved = f.saved /\ g.pc = "run"
      BY <2>1 DEF Frame
    <3> HIDE DEF g
    <3> QED BY <2>1, <3>1, FrameRelabelled DEF Pending
  <2>3. /\ active' = active \ {f.callee}
        /\ stack' = [stack EXCEPT ![r] = [SubSeq(stack[r], 1, Len(stack[r]) - 1)
                                            EXCEPT ![Len(stack[r]) - 1] = g]]
        /\ status' = [status EXCEPT ![r] = "throwing"]
    <3>1. /\ Unmark(f.callee)
          /\ stack' = [stack EXCEPT ![r] =
               [Below(r) EXCEPT ![Depth(r) - 1] = [@ EXCEPT !.pc = "run", !.callee = NoAddr]]]
          /\ UNCHANGED status
      BY <1>4 DEF Unwind
    <3>2. Below(r)[Depth(r) - 1] = f /\ Depth(r) - 1 \in DOMAIN Below(r)
      <4>1. /\ stack[r] \in Seq(Frame) /\ Depth(r) - 1 \in Nat \ {0}
        BY <1>1, <1>4, TopFacts, CallerFacts
      <4>2. \A i \in 1 .. Depth(r) - 1 : stack[r][i] \in Frame
        BY <4>1, ElementOfSeq DEF Depth
      <4>3. \A i \in 1 .. Depth(r) - 1 : 1 + i - 1 = i
        OBVIOUS
      <4> QED BY <1>2, <4>1, <4>2, <4>3, SubSeqProperties DEF Below
    <3>3. stack' = [stack EXCEPT ![r] = [Below(r) EXCEPT ![Depth(r) - 1] = g]]
      BY <3>1, <3>2
    <3> QED BY <1>1, <3>1, <3>3 DEF Unmark, Below, Depth, IInv
  <2> HIDE DEF f, g
  <2>4. StackOK([SubSeq(stack[r], 1, Len(stack[r]) - 1)
                   EXCEPT ![Len(stack[r]) - 1] = g], "throwing", n)
    <3>1. Len(stack[r]) > 1
      BY <1>2, <1>4, AboveOne DEF Depth
    <3> QED BY <1>2, <2>2, <3>1, PopOK
  <2>5. active' \subseteq Addr /\ Entry \in active' /\ "throwing" \in Phases
    BY <2>1, <2>3 DEF IInv, Phases
  <2> QED BY <1>1, <1>2, <2>3, <2>4, <2>5, OneRunSteps
<1> QED BY <1>3, <1>4

-----------------------------------------------------------------------------
(* The invariant holds initially and every action of every run keeps it.    *)
LEMMA InitIInv == Init => IInv
<1> SUFFICES ASSUME Init PROVE IInv
  OBVIOUS
<1> DEFINE object == [data |-> 0, com |-> 0, caller |-> NoAddr, effects |-> 0]
<1>1. heap \in Seq(Object) /\ Len(heap) = 1
  <2>1. object \in Object
    BY DEF Object
  <2> HIDE DEF object
  <2>2. heap = <<object>>
    BY DEF Init, object
  <2> QED BY <2>1, <2>2
<1>2. \A r \in Runs : StackOK(stack[r], status[r], Len(heap))
  <2>1. StackOK(<<>>, "idle", Len(heap))
    BY EmptyStackOK
  <2> QED BY <2>1 DEF Init
<1>3. result \in [Runs -> CircuitContext] /\ \A r \in Runs : ContextOK(result[r], Len(heap))
  BY <1>1, InitialContextOK DEF Init, ContextOK
<1>4. /\ stack \in [Runs -> Seq(Frame)] /\ status \in [Runs -> Phases]
      /\ active \subseteq Addr /\ Entry \in active
  BY EmptySeq, EntryAssumption DEF Init, Phases
<1> QED BY <1>1, <1>2, <1>3, <1>4 DEF IInv

LEMMA NextIInv == IInv /\ [Next]_vars => IInv'
<1> SUFFICES ASSUME IInv, [Next]_vars PROVE IInv'
  OBVIOUS
<1>1. CASE Next
  <2>1. PICK r \in Runs : Step(r)
    BY <1>1 DEF Next
  <2>2. CASE StartRun(r)
    BY <2>2, StartRunStep
  <2>3. CASE \E cost \in Costs : LedgerOp(r, cost)
    BY <2>3, LedgerOpStep
  <2>4. CASE CreateZswapOutput(r)
    BY <2>4, CreateZswapOutputStep
  <2>5. CASE CallWitness(r)
    BY <2>5, CallWitnessStep
  <2>6. CASE CircuitThrows(r)
    BY <2>6, CircuitThrowsStep
  <2>7. CASE \E callee \in Addr : BeginCall(r, callee)
    BY <2>7, BeginCallStep
  <2>8. CASE StateArrives(r)
    BY <2>8, StateArrivesStep
  <2>9. CASE ModuleRefused(r)
    BY <2>9, ModuleRefusedStep
  <2>10. CASE NoProvableCircuit(r)
    BY <2>10, NoProvableCircuitStep
  <2>11. CASE EnterCallee(r)
    BY <2>11, EnterCalleeStep
  <2>12. CASE FinishRun(r)
    BY <2>12, FinishRunStep
  <2>13. CASE \E cost \in Costs : ReturnToCaller(r, cost)
    BY <2>13, ReturnToCallerStep
  <2>14. CASE Unwind(r)
    BY <2>14, UnwindStep
  <2> QED BY <2>1, <2>2, <2>3, <2>4, <2>5, <2>6, <2>7, <2>8, <2>9, <2>10, <2>11,
             <2>12, <2>13, <2>14 DEF Step
<1>2. CASE UNCHANGED vars
  BY <1>2 DEF vars, IInv
<1> QED BY <1>1, <1>2

(* Every variable always has the shape the interfaces of circuit-context.ts *)
(* declare, for every number of contracts, runs and objects.                *)
THEOREM TypeCorrect == Spec => []TypeOK
<1>1. IInv => TypeOK
  BY DEF IInv, TypeOK
<1> QED BY InitIInv, NextIInv, <1>1, PTL DEF Spec

(* resolveDeployedState never finds a callee in queryContexts without its   *)
(* state in contractStates, whatever copies, restores, failures, catches    *)
(* and overlapping runs built the context: its assertion cannot fire.       *)
THEOREM MemoIsPaired == Spec => []MemoPairing
<1>1. IInv => MemoPairing
  <2> SUFFICES ASSUME IInv, NEW ctx \in LiveContexts, NEW a \in Addr \ active, Known(ctx, a)
               PROVE  a \in ctx.contractStates
    BY DEF MemoPairing
  <2>1. ContextOK(ctx, Len(heap))
    <3>1. CASE ctx = InitialContext
      <4>1. Len(heap) \in Nat \ {0}
        BY LenProperties DEF IInv
      <4> QED BY <3>1, <4>1, InitialContextOK, ContextMonotonic
    <3>2. CASE \E r \in Runs : ctx = result[r]
      BY <3>2 DEF IInv
    <3>3. CASE \E fr \in Frames : ctx = stack[fr[1]][fr[2]].ctx
      <4>1. PICK fr \in Frames : ctx = stack[fr[1]][fr[2]].ctx
        BY <3>3
      <4>2. fr[1] \in Runs /\ fr[2] \in 1 .. Len(stack[fr[1]])
        BY DEF Frames, Depth
      <4> QED BY <4>1, <4>2 DEF IInv, StackOK, FrameOK
    <3> QED BY <3>1, <3>2, <3>3 DEF LiveContexts
  <2> QED BY <2>1 DEF ContextOK, MemoOf, IInv
<1> QED BY InitIInv, NextIInv, <1>1, PTL DEF Spec

-----------------------------------------------------------------------------
(* The re-entrancy guard is exact: activeContracts holds the entry contract *)
(* and the callees of the calls that have not returned, each of them once.  *)

(* A frame that crossContractCall has suspended holds its callee's mark.    *)
Waits(f, a) == f.pc \in Pending /\ f.callee = a
WaitsAt(s, i, a) == i \in 1 .. Len(s) /\ Waits(s[i], a)

(* From stack old to stack s frame k starts, or stops, waiting for c.       *)
StartsWaiting(old, s, k, c) ==
  \A i \in Nat : \A a : WaitsAt(s, i, a) <=> WaitsAt(old, i, a) \/ (i = k /\ a = c)
StopsWaiting(old, s, k, c) ==
  /\ WaitsAt(old, k, c)
  /\ \A i \in Nat : \A a : WaitsAt(s, i, a) <=> WaitsAt(old, i, a) /\ i # k

(* ActiveIsCallStack, frame by frame.                                       *)
Marked ==
  \A a : a \in active <=>
    (a = Entry \/ \E q \in Runs : \E i \in Nat : WaitsAt(stack[q], i, a))

MarkedOnce ==
  \A a : \A q, p \in Runs : \A i, j \in Nat :
    WaitsAt(stack[q], i, a) /\ WaitsAt(stack[p], j, a) => q = p /\ i = j

EntryNeverCalled == \A q \in Runs : \A i \in Nat : ~WaitsAt(stack[q], i, Entry)

AInv == Marked /\ MarkedOnce /\ EntryNeverCalled

-----------------------------------------------------------------------------
(* What a step of one run does to the marks                                 *)

(* The frames of run r that wait are the same as before.                    *)
LEMMA NothingMarked ==
  ASSUME AInv, stack \in [Runs -> Seq(Frame)], NEW r \in Runs, NEW s,
         stack' = [stack EXCEPT ![r] = s], active' = active,
         \A i \in Nat : \A a : WaitsAt(s, i, a) <=> WaitsAt(stack[r], i, a)
  PROVE  AInv'
<1>1. \A q \in Runs : \A i \in Nat : \A a :
        WaitsAt(stack'[q], i, a) <=> WaitsAt(stack[q], i, a)
  OBVIOUS
<1>2. Marked'
  BY <1>1 DEF AInv, Marked
<1>3. MarkedOnce'
  BY <1>1 DEF AInv, MarkedOnce
<1>4. EntryNeverCalled'
  BY <1>1 DEF AInv, EntryNeverCalled
<1> QED BY <1>2, <1>3, <1>4 DEF AInv

(* Frame k of run r starts to wait for an unmarked callee c.                *)
LEMMA OneMarked ==
  ASSUME AInv, stack \in [Runs -> Seq(Frame)], NEW r \in Runs, NEW s,
         stack' = [stack EXCEPT ![r] = s], NEW k \in Nat, NEW c, c \notin active,
         active' = active \cup {c}, StartsWaiting(stack[r], s, k, c)
  PROVE  AInv'
<1>1. \A q \in Runs : \A i \in Nat : \A a :
        WaitsAt(stack'[q], i, a) <=>
          WaitsAt(stack[q], i, a) \/ (q = r /\ i = k /\ a = c)
  BY DEF StartsWaiting
<1>2. c # Entry /\ \A q \in Runs : \A i \in Nat : ~WaitsAt(stack[q], i, c)
  BY DEF AInv, Marked
<1>3. Marked'
  BY <1>1, <1>2 DEF AInv, Marked
<1>4. MarkedOnce'
  <2> SUFFICES ASSUME NEW a, NEW q \in Runs, NEW p \in Runs, NEW i \in Nat, NEW j \in Nat,
                      WaitsAt(stack'[q], i, a), WaitsAt(stack'[p], j, a)
               PROVE  q = p /\ i = j
    BY DEF MarkedOnce
  <2>1. CASE a = c
    BY <1>1, <1>2, <2>1
  <2>2. CASE a # c
    <3>1. WaitsAt(stack[q], i, a) /\ WaitsAt(stack[p], j, a)
      BY <1>1, <2>2
    <3> QED BY <3>1 DEF AInv, MarkedOnce
  <2> QED BY <2>1, <2>2
<1>5. EntryNeverCalled'
  BY <1>1, <1>2 DEF AInv, EntryNeverCalled
<1> QED BY <1>3, <1>4, <1>5 DEF AInv

(* Frame k of run r, which waited for c, does not wait any more.            *)
LEMMA OneUnmarked ==
  ASSUME AInv, stack \in [Runs -> Seq(Frame)], NEW r \in Runs, NEW s,
         stack' = [stack EXCEPT ![r] = s], NEW k \in Nat, NEW c,
         active' = active \ {c}, StopsWaiting(stack[r], s, k, c)
  PROVE  AInv'
<1>1. \A q \in Runs : \A i \in Nat : \A a :
        WaitsAt(stack'[q], i, a) <=>
          WaitsAt(stack[q], i, a) /\ ~(q = r /\ i = k)
  BY DEF StopsWaiting
<1>2. c # Entry
  BY DEF AInv, EntryNeverCalled, StopsWaiting
<1>3. \A q \in Runs : \A i \in Nat : WaitsAt(stack[q], i, c) => q = r /\ i = k
  BY DEF AInv, MarkedOnce, StopsWaiting
<1>4. \A a : WaitsAt(stack[r], k, a) => a = c
  BY DEF StopsWaiting, WaitsAt, Waits
<1>5. Marked'
  BY <1>1, <1>2, <1>3, <1>4 DEF AInv, Marked
<1>6. MarkedOnce'
  BY <1>1, ZenonT(60) DEF AInv, MarkedOnce
<1>7. EntryNeverCalled'
  BY <1>1 DEF AInv, EntryNeverCalled
<1> QED BY <1>5, <1>6, <1>7 DEF AInv

-----------------------------------------------------------------------------
(* What the changes of a stack do to its waiting frames                     *)

(* The top frame is replaced.                                               *)
LEMMA WaitsAfterSetTop ==
  ASSUME NEW s \in Seq(Frame), Len(s) > 0, NEW g, NEW i \in Nat, NEW a
  PROVE  WaitsAt([s EXCEPT ![Len(s)] = g], i, a) <=>
           IF i = Len(s) THEN Waits(g, a) ELSE WaitsAt(s, i, a)
<1> DEFINE t == [s EXCEPT ![Len(s)] = g]
<1>1. Len(s) \in Nat /\ DOMAIN s = 1 .. Len(s) /\ Len(s) \in 1 .. Len(s)
  BY LenProperties
<1>2. Len(t) = Len(s)
  BY <1>1
<1>3. t[Len(s)] = g /\ \A j \in 1 .. Len(s) : j # Len(s) => t[j] = s[j]
  BY <1>1
<1> QED BY <1>1, <1>2, <1>3 DEF WaitsAt

(* The top frame is replaced and a circuit that runs is pushed.             *)
LEMMA WaitsAfterPush ==
  ASSUME NEW s \in Seq(Frame), Len(s) > 0, NEW f, NEW g,
         g.pc \notin Pending, \A a : Waits(f, a) <=> Waits(s[Len(s)], a),
         NEW i \in Nat, NEW a
  PROVE  WaitsAt(Append([s EXCEPT ![Len(s)] = f], g), i, a) <=> WaitsAt(s, i, a)
<1> DEFINE Some == Frame \cup {f, g}
           t == [s EXCEPT ![Len(s)] = f]
           u == Append(t, g)
<1>1. Len(s) \in Nat /\ DOMAIN s = 1 .. Len(s) /\ Len(s) \in 1 .. Len(s)
  BY LenProperties
<1>2. t \in Seq(Some) /\ Len(t) = Len(s)
  <2>1. s \in Seq(Some)
    OBVIOUS
  <2> HIDE DEF Some
  <2> QED BY <1>1, <2>1, ElementOfSeq DEF Some
<1>3. t[Len(s)] = f /\ \A j \in 1 .. Len(s) : j # Len(s) => t[j] = s[j]
  BY <1>1
<1> HIDE DEF t, Some
<1>4. Len(u) = Len(s) + 1 /\ u[Len(s) + 1] = g /\ \A j \in 1 .. Len(s) : u[j] = t[j]
  BY <1>2, AppendProperties
<1> HIDE DEF u
<1>5. WaitsAt(u, i, a) <=> WaitsAt(s, i, a)
  <2>1. CASE i \notin 1 .. Len(s) + 1
    <3>1. i \notin 1 .. Len(u) /\ i \notin 1 .. Len(s)
      BY <1>1, <1>4, <2>1
    <3> QED BY <3>1 DEF WaitsAt
  <2>2. CASE i = Len(s) + 1
    <3>1. i \notin 1 .. Len(s) /\ u[i] = g
      BY <1>1, <1>4, <2>2
    <3> QED BY <3>1 DEF WaitsAt, Waits
  <2>3. CASE i \in 1 .. Len(s)
    <3>1. i \in 1 .. Len(u)
      BY <1>1, <1>4, <2>3
    <3>2. u[i] = t[i]
      BY <1>4, <2>3
    <3>3. Waits(t[i], a) <=> Waits(s[i], a)
      BY <1>3, <2>3
    <3> QED BY <2>3, <3>1, <3>2, <3>3 DEF WaitsAt
  <2> QED BY <1>1, <2>1, <2>2, <2>3
<1> QED BY <1>5 DEF t, u

(* The top frame, which does not wait, goes, and the one below runs on.     *)
LEMMA WaitsAfterPop ==
  ASSUME NEW s \in Seq(Frame), Len(s) > 1, NEW f, f.pc \notin Pending,
         s[Len(s)].pc \notin Pending, NEW i \in Nat, NEW a
  PROVE  WaitsAt([SubSeq(s, 1, Len(s) - 1) EXCEPT ![Len(s) - 1] = f], i, a) <=>
           WaitsAt(s, i, a) /\ i # Len(s) - 1
<1> DEFINE k == Len(s) - 1
           b == SubSeq(s, 1, k)
           t == [b EXCEPT ![k] = f]
<1>1. Len(s) \in Nat /\ k \in Nat /\ k > 0 /\ Len(s) = k + 1
  BY LenProperties
<1>2. b \in Seq(Frame) /\ Len(b) = k /\ \A j \in 1 .. k : b[j] = s[j]
  BY <1>1, SubSeqProperties
<1> HIDE DEF b, k
<1>3. WaitsAt(t, i, a) <=> IF i = k THEN Waits(f, a) ELSE WaitsAt(b, i, a)
  BY <1>1, <1>2, WaitsAfterSetTop
<1> HIDE DEF t
<1>4. ~Waits(f, a) /\ ~Waits(s[Len(s)], a)
  BY DEF Waits
<1>5. WaitsAt(t, i, a) <=> WaitsAt(s, i, a) /\ i # k
  <2>1. CASE i = k
    BY <1>3, <1>4, <2>1
  <2>2. CASE i \in 1 .. k /\ i # k
    <3>1. i \in 1 .. Len(s)
      BY <1>1, <2>2
    <3>2. b[i] = s[i]
      BY <1>2, <2>2
    <3> QED BY <1>2, <1>3, <2>2, <3>1, <3>2 DEF WaitsAt
  <2>3. CASE i \notin 1 .. k
    <3>1. ~WaitsAt(b, i, a)
      BY <1>2, <2>3 DEF WaitsAt
    <3>2. i \in 1 .. Len(s) => i = Len(s)
      BY <1>1, <2>3
    <3>3. ~WaitsAt(s, i, a)
      BY <1>4, <3>2 DEF WaitsAt
    <3>4. i # k
      BY <1>1, <2>3
    <3> QED BY <1>3, <3>1, <3>3, <3>4
  <2> QED BY <2>1, <2>2, <2>3
<1> QED BY <1>5 DEF t, b, k

(* A stack of one circuit that does not wait, and an empty one.             *)
LEMMA NobodyWaits ==
  ASSUME NEW s, Len(s) = 0 \/ (Len(s) = 1 /\ s[1].pc \notin Pending), NEW i \in Nat, NEW a
  PROVE  ~WaitsAt(s, i, a)
BY DEF WaitsAt, Waits

-----------------------------------------------------------------------------
(* The steps                                                                *)

(* The top frame of a running circuit, before and after SetTop.             *)
LEMMA TopReplaced ==
  ASSUME IInv, NEW r \in Runs, status[r] \in {"running", "throwing"}, NEW g, SetTop(r, g)
  PROVE  /\ stack' = [stack EXCEPT ![r] = [stack[r] EXCEPT ![Depth(r)] = g]]
         /\ stack \in [Runs -> Seq(Frame)]
         /\ Depth(r) \in Nat
         /\ \A i \in Nat : \A a :
              WaitsAt([stack[r] EXCEPT ![Depth(r)] = g], i, a) <=>
                IF i = Depth(r) THEN Waits(g, a) ELSE WaitsAt(stack[r], i, a)
         /\ \A a : WaitsAt(stack[r], Depth(r), a) <=> Waits(Top(r), a)
<1>1. stack[r] \in Seq(Frame) /\ Depth(r) \in Nat \ {0} /\ stack \in [Runs -> Seq(Frame)]
  BY TopFacts DEF IInv
<1>2. stack' = [stack EXCEPT ![r] = [stack[r] EXCEPT ![Depth(r)] = g]]
  BY <1>1 DEF SetTop
<1>3. Depth(r) > 0 /\ Depth(r) \in 1 .. Depth(r)
  BY <1>1
<1>4. \A i \in Nat : \A a :
        WaitsAt([stack[r] EXCEPT ![Depth(r)] = g], i, a) <=>
          IF i = Depth(r) THEN Waits(g, a) ELSE WaitsAt(stack[r], i, a)
  BY <1>1, <1>3, WaitsAfterSetTop DEF Depth
<1>5. \A a : WaitsAt(stack[r], Depth(r), a) <=> Waits(Top(r), a)
  BY <1>3 DEF WaitsAt, Top, Depth
<1> QED BY <1>1, <1>2, <1>4, <1>5

(* A step of the top circuit that waits for the same callee, or for none,   *)
(* before and after.                                                        *)
LEMMA TopKeepsWaiting ==
  ASSUME IInv, AInv, NEW r \in Runs, status[r] \in {"running", "throwing"}, NEW g, SetTop(r, g),
         active' = active, \A a : Waits(g, a) <=> Waits(Top(r), a)
  PROVE  AInv'
<1> DEFINE s == [stack[r] EXCEPT ![Depth(r)] = g]
<1>1. /\ stack' = [stack EXCEPT ![r] = s]
      /\ stack \in [Runs -> Seq(Frame)]
      /\ \A i \in Nat : \A a : WaitsAt(s, i, a) <=> WaitsAt(stack[r], i, a)
  BY TopReplaced
<1> HIDE DEF s
<1> QED BY <1>1, NothingMarked

LEMMA TopMarks ==
  ASSUME IInv, AInv, NEW r \in Runs, status[r] \in {"running", "throwing"}, NEW g, SetTop(r, g),
         NEW c, c \notin active, active' = active \cup {c},
         \A a : ~Waits(Top(r), a), \A a : Waits(g, a) <=> a = c
  PROVE  AInv'
<1> DEFINE s == [stack[r] EXCEPT ![Depth(r)] = g]
           k == Depth(r)
<1>1. /\ stack' = [stack EXCEPT ![r] = s]
      /\ stack \in [Runs -> Seq(Frame)]
      /\ k \in Nat
  BY TopReplaced
<1>2. StartsWaiting(stack[r], s, k, c)
  BY TopReplaced, ZenonT(60) DEF StartsWaiting
<1> HIDE DEF s, k
<1> QED BY <1>1, <1>2, OneMarked

LEMMA TopUnmarks ==
  ASSUME IInv, AInv, NEW r \in Runs, status[r] \in {"running", "throwing"}, NEW g, SetTop(r, g),
         Top(r).pc \in Pending, Unmark(Top(r).callee), g.pc \notin Pending
  PROVE  AInv'
<1> DEFINE s == [stack[r] EXCEPT ![Depth(r)] = g]
           k == Depth(r)
           c == Top(r).callee
<1>1. Waits(Top(r), c) /\ \A a : ~Waits(g, a)
  BY DEF Waits
<1>2. /\ stack' = [stack EXCEPT ![r] = s]
      /\ stack \in [Runs -> Seq(Frame)]
      /\ k \in Nat
      /\ WaitsAt(stack[r], k, c)
  BY <1>1, TopReplaced
<1>3. StopsWaiting(stack[r], s, k, c)
  BY <1>1, <1>2, TopReplaced DEF StopsWaiting
<1>4. active' = active \ {c}
  BY DEF Unmark
<1> HIDE DEF s, k, c
<1> QED BY <1>2, <1>3, <1>4, OneUnmarked

(* The callee's circuit leaves the stack and its caller's mark goes.        *)
LEMMA PopUnmarks ==
  ASSUME IInv, AInv, NEW r \in Runs, status[r] \in {"running", "throwing"}, Depth(r) > 1,
         Top(r).pc \notin Pending, NEW g, g.pc \notin Pending,
         Unmark(stack[r][Depth(r) - 1].callee),
         stack' = [stack EXCEPT ![r] = [Below(r) EXCEPT ![Depth(r) - 1] = g]]
  PROVE  AInv'
<1> DEFINE s == [Below(r) EXCEPT ![Depth(r) - 1] = g]
           k == Depth(r) - 1
           c == stack[r][k].callee
<1>1. /\ StackOK(stack[r], status[r], Len(heap))
      /\ stack[r] \in Seq(Frame)
      /\ stack \in [Runs -> Seq(Frame)]
      /\ Depth(r) \in Nat
  BY TopFacts DEF IInv
<1>2. k \in Nat /\ k \in 1 .. Depth(r) - 1 /\ k \in 1 .. Depth(r)
  BY <1>1
<1>3. stack[r][k].pc = "callee"
  BY <1>1, <1>2 DEF StackOK, Depth
<1>4. WaitsAt(stack[r], k, c)
  BY <1>2, <1>3 DEF WaitsAt, Waits, Pending, Depth
<1>5. \A i \in Nat : \A a : WaitsAt(s, i, a) <=> WaitsAt(stack[r], i, a) /\ i # k
  BY <1>1, WaitsAfterPop DEF Below, Depth, Top
<1>7. StopsWaiting(stack[r], s, k, c)
  BY <1>4, <1>5 DEF StopsWaiting
<1>6. active' = active \ {c} /\ stack' = [stack EXCEPT ![r] = s]
  BY DEF Unmark
<1> HIDE DEF s, k, c
<1> QED BY <1>1, <1>2, <1>6, <1>7, OneUnmarked

(* A run starts or ends: no frame of its waits before or after.             *)
LEMMA NobodyWaitsStep ==
  ASSUME IInv, AInv, NEW r \in Runs, NEW s, stack' = [stack EXCEPT ![r] = s],
         active' = active,
         \A i \in Nat : \A a : ~WaitsAt(stack[r], i, a) /\ ~WaitsAt(s, i, a)
  PROVE  AInv'
<1>1. stack \in [Runs -> Seq(Frame)]
  BY DEF IInv
<1> QED BY <1>1, NothingMarked

(* The body's own operations keep the executing circuit executing.          *)
LEMMA BodyStep ==
  ASSUME IInv, AInv, NEW r \in Runs,
         \/ \E cost \in Costs : LedgerOp(r, cost)
         \/ CreateZswapOutput(r)
         \/ CallWitness(r)
  PROVE  AInv'
<1>1. status[r] = "running" /\ Top(r).pc = "run" /\ active' = active
  BY DEF LedgerOp, CreateZswapOutput, CallWitness, Executing
<1>2. Top(r) \in Frame
  BY <1>1, TopFacts
<1>3. PICK g : SetTop(r, g) /\ g.pc = Top(r).pc
  <2>1. CASE \E cost \in Costs : LedgerOp(r, cost)
    <3>1. PICK cost \in Costs : LedgerOp(r, cost)
      BY <2>1
    <3> DEFINE ctx == Queried(Top(r).ctx, Fresh, cost, <<Top(r).ctx.cc.addr>>)
               g == [Top(r) EXCEPT !.ctx = ctx, !.ppd.ops = @ + 1]
    <3>2. SetTop(r, g)
      BY <3>1 DEF LedgerOp
    <3>3. g.pc = Top(r).pc
      BY <1>2 DEF Frame
    <3> QED BY <3>2, <3>3
  <2>2. CASE CreateZswapOutput(r)
    <3> DEFINE g == [Top(r) EXCEPT !.ctx = WithOutput(Top(r).ctx, Fresh)]
    <3>1. SetTop(r, g)
      BY <2>2 DEF CreateZswapOutput
    <3>2. g.pc = Top(r).pc
      BY <1>2 DEF Frame
    <3> QED BY <3>1, <3>2
  <2>3. CASE CallWitness(r)
    <3> DEFINE g == [Top(r) EXCEPT !.ctx.cc.ps = 1]
    <3>1. SetTop(r, g)
      BY <2>3 DEF CallWitness
    <3>2. g.pc = Top(r).pc
      BY <1>2 DEF Frame
    <3> QED BY <3>1, <3>2
  <2> QED BY <2>1, <2>2, <2>3
<1>4. \A a : Waits(g, a) <=> Waits(Top(r), a)
  BY <1>1, <1>3 DEF Waits, Pending
<1> QED BY <1>1, <1>3, <1>4, TopKeepsWaiting

LEMMA BeginCallMarks ==
  ASSUME IInv, AInv, NEW r \in Runs, NEW callee \in Addr, BeginCall(r, callee)
  PROVE  AInv'
<1>1. status[r] = "running" /\ Top(r).pc = "run"
  BY DEF BeginCall, Executing
<1>2. Top(r) \in Frame
  BY <1>1, TopFacts
<1>3. \A a : ~Waits(Top(r), a)
  BY <1>1 DEF Waits, Pending
<1>4. CASE /\ SetTop(r, [Top(r) EXCEPT !.pc = "refused", !.callee = callee])
           /\ active' = active
  <2> DEFINE g == [Top(r) EXCEPT !.pc = "refused", !.callee = callee]
  <2>1. g.pc = "refused"
    BY <1>2 DEF Frame
  <2> HIDE DEF g
  <2>2. \A a : Waits(g, a) <=> Waits(Top(r), a)
    BY <1>3, <2>1 DEF Waits, Pending
  <2>3. SetTop(r, g) /\ active' = active
    BY <1>4 DEF g
  <2> QED BY <1>1, <2>2, <2>3, TopKeepsWaiting
<1>5. CASE /\ callee \notin active
           /\ active' = active \cup {callee}
           /\ SetTop(r, [Top(r) EXCEPT !.pc = "state", !.callee = callee])
  <2> DEFINE g == [Top(r) EXCEPT !.pc = "state", !.callee = callee]
  <2>1. g.pc = "state" /\ g.callee = callee
    BY <1>2 DEF Frame
  <2> HIDE DEF g
  <2>2. \A a : Waits(g, a) <=> a = callee
    BY <2>1 DEF Waits, Pending
  <2>3. SetTop(r, g)
    BY <1>5 DEF g
  <2> QED BY <1>1, <1>3, <1>5, <2>2, <2>3, TopMarks
<1> QED BY <1>4, <1>5 DEF BeginCall

LEMMA RejectUnmarks ==
  ASSUME IInv, AInv, NEW r \in Runs, status[r] = "running", Top(r).pc \in Pending,
         NEW catchable, Reject(r, catchable)
  PROVE  AInv'
<1> DEFINE g == [Top(r) EXCEPT !.pc = "run", !.callee = NoAddr]
<1>1. Top(r) \in Frame
  BY TopFacts
<1>2. g.pc \notin Pending
  BY <1>1 DEF Frame, Pending
<1>3. SetTop(r, g) /\ Unmark(Top(r).callee)
  BY DEF Reject
<1> HIDE DEF g
<1> QED BY <1>2, <1>3, TopUnmarks

LEMMA StateArrivesMarks ==
  ASSUME IInv, AInv, NEW r \in Runs, StateArrives(r)
  PROVE  AInv'
<1>1. status[r] = "running" /\ Top(r).pc = "state" /\ Top(r).pc \in Pending
  BY DEF StateArrives, Pending
<1>2. Top(r) \in Frame
  BY <1>1, TopFacts
<1>3. CASE SetTop(r, [Top(r) EXCEPT !.pc = "module"]) /\ active' = active
  <2> DEFINE g == [Top(r) EXCEPT !.pc = "module"]
  <2>1. g.pc = "module" /\ g.callee = Top(r).callee
    BY <1>2 DEF Frame
  <2> HIDE DEF g
  <2>2. \A a : Waits(g, a) <=> Waits(Top(r), a)
    BY <1>1, <2>1 DEF Waits, Pending
  <2>3. SetTop(r, g) /\ active' = active
    BY <1>3 DEF g
  <2> QED BY <1>1, <2>2, <2>3, TopKeepsWaiting
<1>4. CASE Reject(r, FALSE) \/ Reject(r, TRUE)
  BY <1>1, <1>4, RejectUnmarks
<1> QED BY <1>3, <1>4 DEF StateArrives

LEMMA NoProvableCircuitUnmarks ==
  ASSUME IInv, AInv, NEW r \in Runs, NoProvableCircuit(r)
  PROVE  AInv'
<1> DEFINE g == [Top(r) EXCEPT !.ctx = EnterContext(Top(r).ctx, Top(r).callee),
                               !.pc = "run", !.callee = NoAddr]
<1>1. status[r] = "running" /\ Top(r).pc \in Pending
  BY DEF NoProvableCircuit, Pending
<1>2. Top(r) \in Frame
  BY <1>1, TopFacts
<1>3. g.pc \notin Pending
  BY <1>2 DEF Frame, Pending
<1>4. SetTop(r, g) /\ Unmark(Top(r).callee)
  BY DEF NoProvableCircuit
<1> HIDE DEF g
<1> QED BY <1>1, <1>3, <1>4, TopUnmarks

(* The caller goes on waiting for the callee it enters.                     *)
LEMMA EnterCalleeKeepsMarks ==
  ASSUME IInv, AInv, NEW r \in Runs, EnterCallee(r)
  PROVE  AInv'
<1> DEFINE ctx == SetupCallContext(EnterContext(Top(r).ctx, Top(r).callee), Top(r).callee,
                                   EnteredRef(Top(r).ctx, Top(r).callee))
           f == [Top(r) EXCEPT !.ctx = ctx, !.pc = "callee", !.saved = Top(r).ctx.cc]
           g == EnterCircuit(ctx)
           s == Append([stack[r] EXCEPT ![Depth(r)] = f], g)
<1>1. status[r] = "running" /\ Top(r).pc = "module" /\ active' = active
  BY DEF EnterCallee
<1>2. Top(r) \in Frame /\ stack[r] \in Seq(Frame) /\ Len(stack[r]) > 0
      /\ stack \in [Runs -> Seq(Frame)]
  BY <1>1, TopFacts DEF Depth, IInv
<1>3. stack' = [stack EXCEPT ![r] = s]
  BY <1>2 DEF EnterCallee
<1>4. f.pc = "callee" /\ f.callee = Top(r).callee
  BY <1>2 DEF Frame
<1>5. g.pc \notin Pending
  BY DEF EnterCircuit, Pending
<1> HIDE DEF f, g
<1>6. \A a : Waits(f, a) <=> Waits(stack[r][Len(stack[r])], a)
  BY <1>1, <1>4 DEF Waits, Pending, Top, Depth
<1>7. \A i \in Nat : \A a : WaitsAt(s, i, a) <=> WaitsAt(stack[r], i, a)
  BY <1>2, <1>5, <1>6, WaitsAfterPush DEF Depth
<1> HIDE DEF s
<1> QED BY <1>1, <1>2, <1>3, <1>7, NothingMarked

LEMMA StartRunMarks ==
  ASSUME IInv, AInv, NEW r \in Runs, StartRun(r)
  PROVE  AInv'
<1>1. PICK ctx \in HeldContexts : stack' = [stack EXCEPT ![r] = <<EnterCircuit(ctx)>>]
  BY DEF StartRun
<1> DEFINE s == <<EnterCircuit(ctx)>>
<1>2. Len(s) = 1 /\ s[1].pc = "run"
  BY DEF EnterCircuit
<1>3. Len(stack[r]) = 0
  <2>1. StackOK(stack[r], "idle", Len(heap)) /\ stack[r] \in Seq(Frame)
    BY DEF StartRun, IInv
  <2>2. ~(Len(stack[r]) > 0)
    BY <2>1 DEF StackOK
  <2> QED BY <2>1, <2>2, LenProperties
<1> HIDE DEF s
<1>4. \A i \in Nat : \A a : ~WaitsAt(stack[r], i, a) /\ ~WaitsAt(s, i, a)
  BY <1>2, <1>3, NobodyWaits DEF Pending
<1>5. active' = active /\ stack' = [stack EXCEPT ![r] = s]
  BY <1>1 DEF StartRun, s
<1> QED BY <1>4, <1>5, NobodyWaitsStep

(* The outermost circuit leaves the stack.                                  *)
LEMMA LastCircuitLeaves ==
  ASSUME IInv, AInv, NEW r \in Runs, Depth(r) = 1, Top(r).pc \notin Pending,
         stack' = [stack EXCEPT ![r] = <<>>], active' = active
  PROVE  AInv'
<1>1. Len(stack[r]) = 1 /\ stack[r][1].pc \notin Pending
  BY DEF Depth, Top
<1>2. \A i \in Nat : \A a : ~WaitsAt(stack[r], i, a) /\ ~WaitsAt(<<>>, i, a)
  BY <1>1, NobodyWaits
<1> QED BY <1>2, NobodyWaitsStep

LEMMA ReturnToCallerUnmarks ==
  ASSUME IInv, AInv, NEW r \in Runs, NEW cost \in Costs, ReturnToCaller(r, cost)
  PROVE  AInv'
<1> DEFINE f == stack[r][Depth(r) - 1]
           ctx == RestoreCircuitContext(Finalize(Top(r).ctx, Top(r).ppd), f.saved)
           back(c, ppd) == [f EXCEPT !.ctx = c, !.ppd = ppd, !.pc = "run", !.callee = NoAddr]
<1>1. /\ status[r] = "running" /\ Top(r).pc = "run" /\ Depth(r) > 1
      /\ Unmark(f.callee)
  BY DEF ReturnToCaller, Executing
<1>2. \E c, ppd : stack' = [stack EXCEPT ![r] = [Below(r) EXCEPT ![Depth(r) - 1] = back(c, ppd)]]
  BY DEF ReturnToCaller
<1>3. PICK c, ppd :
        stack' = [stack EXCEPT ![r] = [Below(r) EXCEPT ![Depth(r) - 1] = back(c, ppd)]]
  BY <1>2
<1>4. f \in Frame
  <2>1. stack[r] \in Seq(Frame) /\ Depth(r) \in Nat
    BY <1>1, TopFacts
  <2>2. Depth(r) - 1 \in 1 .. Len(stack[r])
    BY <1>1, <2>1 DEF Depth
  <2> QED BY <2>1, <2>2, ElementOfSeq
<1> DEFINE g == back(c, ppd)
<1>5. g.pc = "run"
  BY <1>4 DEF Frame
<1>6. g.pc \notin Pending /\ Top(r).pc \notin Pending
  BY <1>1, <1>5 DEF Pending
<1>7. stack' = [stack EXCEPT ![r] = [Below(r) EXCEPT ![Depth(r) - 1] = g]]
  BY <1>3
<1> HIDE DEF g
<1> QED BY <1>1, <1>6, <1>7, PopUnmarks

LEMMA UnwindUnmarks ==
  ASSUME IInv, AInv, NEW r \in Runs, Unwind(r)
  PROVE  AInv'
<1>1. status[r] = "throwing"
  BY DEF Unwind
<1>2. Top(r).pc \notin Pending /\ Depth(r) \in Nat \ {0} /\ stack[r] \in Seq(Frame)
  BY <1>1, TopFacts DEF StackOK, Top, Depth, Pending
<1>3. CASE Depth(r) = 1
  BY <1>2, <1>3, LastCircuitLeaves DEF Unwind
<1>4. CASE Depth(r) # 1
  <2> DEFINE f == stack[r][Depth(r) - 1]
             g == [Below(r)[Depth(r) - 1] EXCEPT !.pc = "run", !.callee = NoAddr]
  <2>1. Depth(r) > 1
    BY <1>2, <1>4, AboveOne
  <2>2. Unmark(f.callee) /\ stack' = [stack EXCEPT ![r] = [Below(r) EXCEPT ![Depth(r) - 1] = g]]
    BY <1>4 DEF Unwind
  <2>3. Below(r)[Depth(r) - 1] \in Frame
    <3>1. Depth(r) - 1 \in Nat /\ Depth(r) - 1 \in 1 .. Depth(r) - 1 /\ Depth(r) - 1 \in 1 .. Len(stack[r])
      BY <1>2, <2>1 DEF Depth
    <3>2. Below(r)[Depth(r) - 1] = f
      BY <1>2, <3>1, SubSeqProperties DEF Below, Depth
    <3> QED BY <1>2, <3>1, <3>2, ElementOfSeq
  <2>4. g.pc = "run"
    BY <2>3 DEF Frame
  <2>5. g.pc \notin Pending
    BY <2>4 DEF Pending
  <2> HIDE DEF g
  <2> QED BY <1>1, <1>2, <2>1, <2>2, <2>5, PopUnmarks
<1> QED BY <1>3, <1>4

-----------------------------------------------------------------------------
(* The theorem                                                              *)

LEMMA InitAInv == Init => AInv
<1> SUFFICES ASSUME Init PROVE AInv
  OBVIOUS
<1>1. \A q \in Runs : \A i \in Nat : \A a : ~WaitsAt(stack[q], i, a)
  BY NobodyWaits DEF Init
<1> QED BY <1>1 DEF AInv, Marked, MarkedOnce, EntryNeverCalled, Init

LEMMA NextAInv == IInv /\ AInv /\ [Next]_vars => AInv'
<1> SUFFICES ASSUME IInv, AInv, [Next]_vars PROVE AInv'
  OBVIOUS
<1>1. CASE Next
  <2>1. PICK r \in Runs : Step(r)
    BY <1>1 DEF Next
  <2>2. CASE StartRun(r)
    BY <2>2, StartRunMarks
  <2>3. CASE \/ \E cost \in Costs : LedgerOp(r, cost)
             \/ CreateZswapOutput(r)
             \/ CallWitness(r)
    BY <2>3, BodyStep
  <2>4. CASE CircuitThrows(r)
    BY <2>4 DEF CircuitThrows, AInv, Marked, MarkedOnce, EntryNeverCalled
  <2>5. CASE \E callee \in Addr : BeginCall(r, callee)
    BY <2>5, BeginCallMarks
  <2>6. CASE StateArrives(r)
    BY <2>6, StateArrivesMarks
  <2>7. CASE ModuleRefused(r)
    BY <2>7, RejectUnmarks DEF ModuleRefused, Pending
  <2>8. CASE NoProvableCircuit(r)
    BY <2>8, NoProvableCircuitUnmarks
  <2>9. CASE EnterCallee(r)
    BY <2>9, EnterCalleeKeepsMarks
  <2>10. CASE FinishRun(r)
    BY <2>10, LastCircuitLeaves DEF FinishRun, Executing, Pending
  <2>11. CASE \E cost \in Costs : ReturnToCaller(r, cost)
    BY <2>11, ReturnToCallerUnmarks
  <2>12. CASE Unwind(r)
    BY <2>12, UnwindUnmarks
  <2> QED BY <2>1, <2>2, <2>3, <2>4, <2>5, <2>6, <2>7, <2>8, <2>9, <2>10, <2>11, <2>12
          DEF Step
<1>2. CASE UNCHANGED vars
  BY <1>2 DEF vars, AInv, Marked, MarkedOnce, EntryNeverCalled
<1> QED BY <1>1, <1>2

(* The frames of ActiveIsCallStack are the waiting ones.                    *)
LEMMA FramesWait ==
  ASSUME IInv
  PROVE  \A q, i, a :
           <<q, i>> \in PendingFrames /\ CalleeOf(<<q, i>>) = a <=>
             q \in Runs /\ i \in Nat /\ WaitsAt(stack[q], i, a)
<1>1. \A q \in Runs : Len(stack[q]) \in Nat
  BY LenProperties DEF IInv
<1>2. \A q, i : <<q, i>> \in Frames <=> q \in Runs /\ i \in 1 .. Len(stack[q])
  BY DEF Frames, Depth
<1> QED BY <1>1, <1>2 DEF PendingFrames, CalleeOf, WaitsAt, Waits

(* activeContracts is exactly the entry contract and the callees of the     *)
(* calls that have not returned: over failures, catches, unwinding and      *)
(* overlapping runs no mark is lost or left behind, so a contract can be    *)
(* called again as soon as, and not before, its call has ended.             *)
THEOREM GuardIsExact == Spec => []ActiveIsCallStack
<1>1. IInv /\ AInv => ActiveIsCallStack
  <2> SUFFICES ASSUME IInv, AInv PROVE ActiveIsCallStack
    OBVIOUS
  <2>1. \A fr \in PendingFrames : \E q, i : fr = <<q, i>>
    BY DEF PendingFrames, Frames
  <2>2. active = {Entry} \cup {CalleeOf(fr) : fr \in PendingFrames}
    <3>1. ASSUME NEW a \in active
          PROVE  a = Entry \/ \E fr \in PendingFrames : CalleeOf(fr) = a
      <4>1. CASE a = Entry
        BY <4>1
      <4>2. CASE a # Entry
        <5>1. PICK q \in Runs : \E i \in Nat : WaitsAt(stack[q], i, a)
          BY <3>1, <4>2 DEF AInv, Marked
        <5>2. PICK i \in Nat : WaitsAt(stack[q], i, a)
          BY <5>1
        <5>3. <<q, i>> \in PendingFrames /\ CalleeOf(<<q, i>>) = a
          BY <5>2, FramesWait
        <5> QED BY <5>3
      <4> QED BY <4>1, <4>2
    <3>2. Entry \in active
      BY DEF AInv, Marked
    <3>3. ASSUME NEW fr \in PendingFrames
          PROVE  CalleeOf(fr) \in active
      <4>1. PICK q, i : fr = <<q, i>>
        BY <2>1
      <4>2. q \in Runs /\ i \in Nat /\ WaitsAt(stack[q], i, CalleeOf(fr))
        BY <4>1, FramesWait
      <4> QED BY <4>2 DEF AInv, Marked
    <3> QED BY <3>1, <3>2, <3>3
  <2>3. \A fr \in PendingFrames : CalleeOf(fr) # Entry
    BY <2>1, FramesWait DEF AInv, EntryNeverCalled
  <2>4. \A fr, gr \in PendingFrames : CalleeOf(fr) = CalleeOf(gr) => fr = gr
    BY <2>1, FramesWait DEF AInv, MarkedOnce
  <2> QED BY <2>2, <2>3, <2>4 DEF ActiveIsCallStack
<1> QED BY InitIInv, NextIInv, InitAInv, NextAInv, <1>1, PTL DEF Spec

-----------------------------------------------------------------------------
(* The cells of the contracts on a call stack and the per-address maps of   *)
(* the innermost context hold the same values, for every set of contracts   *)
(* and runs.  On the way, what a step does to a run, in terms of the fields *)
(* of its contexts: the later proofs about traces use it too.               *)

(* What the transforms of a context do to its fields.  The private state,   *)
(* the memo and the events play no part here.                               *)
SameCells(c, d) ==
  c.addr = d.addr /\ c.init = d.init /\ c.cur = d.cur /\ c.gas = d.gas /\ c.zs = d.zs

SameMaps(c, d) ==
  /\ c.queryContexts = d.queryContexts
  /\ c.gasCosts = d.gasCosts
  /\ c.zswapLocalStates = d.zswapLocalStates

LEMMA QueriedFields ==
  ASSUME NEW ctx \in CircuitContext, NEW ref, NEW cost, NEW logs
  PROVE  LET q == Queried(ctx, ref, cost, logs)
             a == ctx.cc.addr
         IN /\ q.cc.addr = a /\ q.cc.init = ctx.cc.init /\ q.cc.zs = ctx.cc.zs
            /\ q.cc.cur = ref /\ q.cc.gas = ctx.cc.gas + cost
            /\ \A b \in Addr :
                 q.queryContexts[b] = IF b = a THEN ref ELSE ctx.queryContexts[b]
            /\ ctx.gasCosts[a] # Absent => q.gasCosts[a] = ctx.gasCosts[a] + cost
            /\ \A b \in Addr : b # a => q.gasCosts[b] = ctx.gasCosts[b]
            /\ q.zswapLocalStates = ctx.zswapLocalStates
            /\ q.trace = ctx.trace
<1> DEFINE q == Queried(ctx, ref, cost, logs)
           a == ctx.cc.addr
           gas == ctx.cc.gas + cost
           total == (IF ctx.gasCosts[a] = Absent THEN 0 ELSE ctx.gasCosts[a]) + cost
           cells == [ctx.cc EXCEPT !.cur = ref, !.gas = gas]
<1>1. /\ q.cc = cells
      /\ q.queryContexts = [ctx.queryContexts EXCEPT ![a] = ref]
      /\ q.gasCosts = [ctx.gasCosts EXCEPT ![a] = total]
      /\ q.zswapLocalStates = ctx.zswapLocalStates
      /\ q.trace = ctx.trace
  BY DEF CircuitContext, Queried
<1>2. ctx.gasCosts[a] # Absent => total = ctx.gasCosts[a] + cost
  OBVIOUS
<1>3. ctx.cc \in CallContext /\ a \in Addr
  BY CellsTyped, CallContextTyped
<1> HIDE DEF q, gas, total
<1>4. /\ cells.addr = a /\ cells.init = ctx.cc.init /\ cells.zs = ctx.cc.zs
      /\ cells.cur = ref /\ cells.gas = gas
  BY <1>3 DEF CallContext
<1>5. \A b \in Addr : q.queryContexts[b] = IF b = a THEN ref ELSE ctx.queryContexts[b]
  BY <1>1, <1>3, CellsTyped
<1>6. q.gasCosts[a] = total /\ \A b \in Addr : b # a => q.gasCosts[b] = ctx.gasCosts[b]
  BY <1>1, <1>3, CellsTyped
<1> QED BY <1>1, <1>2, <1>4, <1>5, <1>6 DEF q, gas

LEMMA WithOutputFields ==
  ASSUME NEW ctx \in CircuitContext, NEW ref
  PROVE  LET q == WithOutput(ctx, ref)
             a == ctx.cc.addr
         IN /\ q.cc.addr = a /\ q.cc.init = ctx.cc.init /\ q.cc.gas = ctx.cc.gas
            /\ q.cc.cur = ref /\ q.cc.zs = ctx.cc.zs + 1
            /\ \A b \in Addr :
                 q.queryContexts[b] = IF b = a THEN ref ELSE ctx.queryContexts[b]
            /\ \A b \in Addr :
                 q.zswapLocalStates[b] =
                   IF b = a THEN ctx.cc.zs + 1 ELSE ctx.zswapLocalStates[b]
            /\ q.gasCosts = ctx.gasCosts
            /\ q.trace = ctx.trace
<1> DEFINE q == WithOutput(ctx, ref)
           a == ctx.cc.addr
           zs == ctx.cc.zs + 1
           cells == [ctx.cc EXCEPT !.cur = ref, !.zs = zs]
<1>1. /\ q.cc = cells
      /\ q.queryContexts = [ctx.queryContexts EXCEPT ![a] = ref]
      /\ q.zswapLocalStates = [ctx.zswapLocalStates EXCEPT ![a] = zs]
      /\ q.gasCosts = ctx.gasCosts
      /\ q.trace = ctx.trace
  BY DEF CircuitContext, WithOutput
<1>2. ctx.cc \in CallContext /\ a \in Addr
  BY CellsTyped, CallContextTyped
<1> HIDE DEF q, zs
<1>3. /\ cells.addr = a /\ cells.init = ctx.cc.init /\ cells.gas = ctx.cc.gas
      /\ cells.cur = ref /\ cells.zs = zs
  BY <1>2 DEF CallContext
<1>4. \A b \in Addr : q.queryContexts[b] = IF b = a THEN ref ELSE ctx.queryContexts[b]
  BY <1>1, <1>2, CellsTyped
<1>5. \A b \in Addr :
        q.zswapLocalStates[b] = IF b = a THEN zs ELSE ctx.zswapLocalStates[b]
  BY <1>1, <1>2, CellsTyped
<1> QED BY <1>1, <1>3, <1>4, <1>5 DEF q, zs

LEMMA WitnessFields ==
  ASSUME NEW ctx \in CircuitContext
  PROVE  LET q == [ctx EXCEPT !.cc.ps = 1]
         IN SameCells(q.cc, ctx.cc) /\ SameMaps(q, ctx)
            /\ q.trace = ctx.trace /\ q.events = ctx.events
<1>1. ctx.cc \in CallContext
  BY CellsTyped
<1>2. SameCells([ctx.cc EXCEPT !.ps = 1], ctx.cc)
  BY <1>1 DEF CallContext, SameCells
<1>3. [ctx EXCEPT !.cc.ps = 1].cc = [ctx.cc EXCEPT !.ps = 1]
  BY DEF CircuitContext
<1> QED BY <1>2, <1>3 DEF CircuitContext, SameMaps

LEMMA EnterFields ==
  ASSUME NEW ctx \in CircuitContext, NEW callee \in Addr
  PROVE  LET q == EnterContext(ctx, callee)
         IN /\ q.cc = ctx.cc
            /\ q.queryContexts[callee] = EnteredRef(ctx, callee)
            /\ \A b \in Addr : b # callee =>
                 /\ q.queryContexts[b] = ctx.queryContexts[b]
                 /\ q.gasCosts[b] = ctx.gasCosts[b]
            /\ q.zswapLocalStates = ctx.zswapLocalStates
            /\ q.trace = ctx.trace
<1> DEFINE q == EnterContext(ctx, callee)
<1>1. CASE Known(ctx, callee)
  BY <1>1 DEF EnterContext, EnteredRef
<1>2. CASE ~Known(ctx, callee)
  <2>1. /\ q.cc = ctx.cc
        /\ q.queryContexts = [ctx.queryContexts EXCEPT ![callee] = Fresh]
        /\ q.gasCosts = [ctx.gasCosts EXCEPT ![callee] = 0]
        /\ q.zswapLocalStates = ctx.zswapLocalStates
        /\ q.trace = ctx.trace
    BY <1>2 DEF EnterContext, CircuitContext
  <2>2. EnteredRef(ctx, callee) = Fresh
    BY <1>2 DEF EnteredRef
  <2> HIDE DEF q
  <2> QED BY <2>1, <2>2, CellsTyped DEF q
<1> QED BY <1>1, <1>2

LEMMA SetupFields ==
  ASSUME NEW ctx \in CircuitContext, NEW callee \in Addr, NEW ref
  PROVE  LET q == SetupCallContext(ctx, callee, ref)
         IN /\ q.cc.addr = callee /\ q.cc.init = ref /\ q.cc.cur = ref
            /\ q.cc.gas = ctx.gasCosts[callee]
            /\ q.cc.zs = IF ctx.zswapLocalStates[callee] = Absent THEN 0
                         ELSE ctx.zswapLocalStates[callee]
            /\ q.zswapLocalStates[callee] = q.cc.zs
            /\ \A b \in Addr : b # callee =>
                 q.zswapLocalStates[b] = ctx.zswapLocalStates[b]
            /\ q.queryContexts = ctx.queryContexts
            /\ q.gasCosts = ctx.gasCosts
            /\ q.trace = ctx.trace
<1> DEFINE q == SetupCallContext(ctx, callee, ref)
           zs == IF ctx.zswapLocalStates[callee] = Absent THEN 0
                 ELSE ctx.zswapLocalStates[callee]
           cells == [addr |-> callee, init |-> ref, cur |-> ref,
                     gas |-> ctx.gasCosts[callee], ps |-> Absent, zs |-> zs]
<1>1. /\ q.cc = cells
      /\ q.zswapLocalStates = [ctx.zswapLocalStates EXCEPT ![callee] = zs]
      /\ q.queryContexts = ctx.queryContexts
      /\ q.gasCosts = ctx.gasCosts
      /\ q.trace = ctx.trace
  BY DEF SetupCallContext, CircuitContext
<1> HIDE DEF q
<1>2. /\ q.zswapLocalStates[callee] = zs
      /\ \A b \in Addr : b # callee => q.zswapLocalStates[b] = ctx.zswapLocalStates[b]
  BY <1>1, CellsTyped
<1>3. /\ cells.addr = callee /\ cells.init = ref /\ cells.cur = ref
      /\ cells.gas = ctx.gasCosts[callee] /\ cells.zs = zs
  OBVIOUS
<1> QED BY <1>1, <1>2, <1>3 DEF q

(* The entry finalizeCallProofData appends.                                 *)
Entered(ctx, ppd) ==
  [addr |-> ctx.cc.addr, init |-> ctx.cc.init, final |-> ctx.cc.cur,
   zs |-> ctx.cc.zs, ops |-> ppd.ops, claims |-> ppd.claims, comm |-> FALSE]

LEMMA FinalizeFields ==
  ASSUME NEW ctx \in CircuitContext, NEW ppd
  PROVE  LET q == Finalize(ctx, ppd)
         IN /\ q.cc = ctx.cc
            /\ SameMaps(q, ctx)
            /\ Len(q.trace) = Len(ctx.trace) + 1
            /\ q.trace[Len(ctx.trace) + 1] = Entered(ctx, ppd)
            /\ \A k \in 1 .. Len(ctx.trace) : q.trace[k] = ctx.trace[k]
<1> DEFINE q == Finalize(ctx, ppd)
           entry == Entered(ctx, ppd)
           Some == CallProofData \cup {entry}
<1>1. q.cc = ctx.cc /\ SameMaps(q, ctx) /\ q.trace = Append(ctx.trace, entry)
  BY DEF Finalize, CircuitContext, SameMaps, Entered
<1>2. ctx.trace \in Seq(CallProofData)
  BY CellsTyped
<1>3. ctx.trace \in Seq(Some) /\ entry \in Some
  BY <1>2
<1> HIDE DEF q, entry, Some
<1>4. /\ Len(Append(ctx.trace, entry)) = Len(ctx.trace) + 1
      /\ Append(ctx.trace, entry)[Len(ctx.trace) + 1] = entry
      /\ \A k \in 1 .. Len(ctx.trace) : Append(ctx.trace, entry)[k] = ctx.trace[k]
  BY <1>3, AppendProperties
<1> QED BY <1>1, <1>4 DEF q, entry

LEMMA RestoreFields ==
  ASSUME NEW ctx \in CircuitContext, NEW saved, Len(ctx.trace) > 0
  PROVE  LET q == RestoreCircuitContext(ctx, saved)
             n == Len(ctx.trace)
         IN /\ q.cc = saved
            /\ SameMaps(q, ctx)
            /\ Len(q.trace) = n
            /\ q.trace[n] = [ctx.trace[n] EXCEPT !.comm = TRUE]
            /\ \A k \in 1 .. n : k # n => q.trace[k] = ctx.trace[k]
<1> DEFINE q == RestoreCircuitContext(ctx, saved)
           n == Len(ctx.trace)
           marked == [ctx.trace[n] EXCEPT !.comm = TRUE]
<1>1. ctx.trace \in Seq(CallProofData) /\ n \in Nat /\ n \in 1 .. n
  BY CellsTyped, LenProperties
<1>2. q.cc = saved /\ SameMaps(q, ctx) /\ q.trace = [ctx.trace EXCEPT ![n] = marked]
  BY DEF RestoreCircuitContext, CircuitContext, SameMaps
<1> HIDE DEF q, marked
<1>3. Len(q.trace) = n /\ q.trace[n] = marked
      /\ \A k \in 1 .. n : k # n => q.trace[k] = ctx.trace[k]
  BY <1>1, <1>2
<1> QED BY <1>2, <1>3 DEF q, marked

-----------------------------------------------------------------------------
(* What a step does to the run that takes it, one shape for every way a     *)
(* run moves.                                                               *)

Goes(r, from, to) == status[r] = from /\ status'[r] = to /\ result'[r] = result[r]

(* The innermost circuit goes on, with another context and proof data.      *)
GoesOn(r, ctx, ppd) ==
  LET s == stack'[r]
      n == Depth(r)
  IN /\ Goes(r, "running", "running")
     /\ Len(s) = n
     /\ \A i \in 1 .. n - 1 : s[i] = stack[r][i]
     /\ s[n].ctx = ctx /\ s[n].ppd = ppd /\ s[n].pc # "callee"

Idles(r) ==
  /\ heap' = heap
  /\ \E ctx \in CircuitContext :
       /\ SameCells(ctx.cc, Top(r).ctx.cc) /\ SameMaps(ctx, Top(r).ctx)
       /\ ctx.trace = Top(r).ctx.trace /\ ctx.events = Top(r).ctx.events
       /\ GoesOn(r, ctx, Top(r).ppd)

Queries(r) ==
  LET f == Top(r)
  IN /\ Allocate([heap[f.ctx.cc.cur] EXCEPT !.data = @ + 1, !.effects = @ + 1])
     /\ \E cost \in Nat : \E logs \in Seq(Addr) :
          /\ cost \in Costs /\ cost <= GasLimit /\ logs = <<f.ctx.cc.addr>>
          /\ GoesOn(r, Queried(f.ctx, Fresh, cost, logs), [f.ppd EXCEPT !.ops = @ + 1])

Outputs(r) ==
  LET f == Top(r)
  IN /\ Allocate([heap[f.ctx.cc.cur] EXCEPT !.com = @ + 1])
     /\ GoesOn(r, WithOutput(f.ctx, Fresh), f.ppd)

(* The context the callee of f is entered with.                             *)
CalleeContext(f) ==
  SetupCallContext(EnterContext(f.ctx, f.callee), f.callee, EnteredRef(f.ctx, f.callee))

Enters(r) ==
  LET f == Top(r)
      n == Depth(r)
      s == stack'[r]
  IN /\ Goes(r, "running", "running")
     /\ f.pc = "module"
     /\ EnterHeap(f.ctx, f.callee)
     /\ Len(s) = n + 1
     /\ \A i \in 1 .. n - 1 : s[i] = stack[r][i]
     /\ s[n].pc = "callee" /\ s[n].callee = f.callee
     /\ s[n].saved = f.ctx.cc /\ s[n].ppd = f.ppd /\ s[n].ctx = CalleeContext(f)
     /\ s[n + 1].pc = "run" /\ s[n + 1].ppd = EmptyProofData
     /\ s[n + 1].ctx = CalleeContext(f)

(* The context with which the callee of f comes back to it.                 *)
ReturnedContext(r, f) == RestoreCircuitContext(Finalize(Top(r).ctx, Top(r).ppd), f.saved)

Returns(r) ==
  LET n == Depth(r)
      f == stack[r][n - 1]
      s == stack'[r]
  IN /\ Goes(r, "running", "running")
     /\ n > 1
     /\ Allocate([heap[f.saved.cur] EXCEPT !.effects = @ + 1])
     /\ Len(s) = n - 1
     /\ \A i \in 1 .. n - 2 : s[i] = stack[r][i]
     /\ s[n - 1].pc # "callee"
     /\ s[n - 1].ppd = [f.ppd EXCEPT !.claims = @ \cup {Len(Top(r).ctx.trace) + 1}]
     /\ \E cost \in Nat :
          /\ cost \in Costs /\ cost <= GasLimit
          /\ s[n - 1].ctx = Queried(ReturnedContext(r, f), Fresh, cost, <<>>)

Starts(r) ==
  LET s == stack'[r]
  IN /\ Goes(r, "idle", "running")
     /\ heap' = heap
     /\ Len(s) = 1
     /\ s[1].ctx \in HeldContexts /\ s[1].ppd = EmptyProofData /\ s[1].pc = "run"

Finishes(r) ==
  /\ status[r] = "running" /\ status'[r] = "done"
  /\ heap' = heap
  /\ Depth(r) = 1
  /\ Len(stack'[r]) = 0
  /\ result'[r] = Finalize(Top(r).ctx, Top(r).ppd)

(* The frames that are left hold the traces they held, or the innermost one *)
(* the trace its callee left.                                               *)
Fails(r) ==
  LET n == Depth(r)
      s == stack'[r]
  IN /\ \/ Goes(r, "running", "throwing")
        \/ Goes(r, "throwing", "throwing")
        \/ Goes(r, "throwing", "failed")
     /\ heap' = heap \/ (status[r] = "running" /\ EnterHeap(Top(r).ctx, Top(r).callee)
                          /\ Top(r).pc = "module")
     /\ Len(s) \in 0 .. n
     /\ \A i \in 1 .. Len(s) :
          \/ s[i].ctx.trace = stack[r][i].ctx.trace
          \/ /\ status[r] = "running" /\ i = n - 1
             /\ s[i].ctx.trace = ReturnedContext(r, stack[r][i]).trace

OthersRest(r) ==
  \A q \in Runs : q # r =>
    stack'[q] = stack[q] /\ status'[q] = status[q] /\ result'[q] = result[q]

-----------------------------------------------------------------------------
(* Stacks before and after                                                  *)

LEMMA TopSet ==
  ASSUME NEW s \in Seq(Frame), Len(s) > 0, NEW g
  PROVE  LET t == [s EXCEPT ![Len(s)] = g]
         IN Len(t) = Len(s) /\ t[Len(s)] = g /\ \A i \in 1 .. Len(s) - 1 : t[i] = s[i]
<1> DEFINE t == [s EXCEPT ![Len(s)] = g]
<1>1. Len(s) \in Nat /\ DOMAIN s = 1 .. Len(s) /\ Len(s) \in 1 .. Len(s)
  BY LenProperties
<1>2. Len(t) = Len(s)
  BY <1>1
<1>3. t[Len(s)] = g /\ \A j \in 1 .. Len(s) : j # Len(s) => t[j] = s[j]
  BY <1>1
<1>4. \A n \in Nat : \A j \in 1 .. n - 1 : j \in 1 .. n /\ j # n
  OBVIOUS
<1>5. \A j \in 1 .. Len(s) - 1 : t[j] = s[j]
  BY <1>1, <1>3, <1>4
<1> QED BY <1>2, <1>3, <1>5

LEMMA PushedAnything ==
  ASSUME NEW s \in Seq(Frame), Len(s) > 0, NEW f, NEW g
  PROVE  LET t == Append([s EXCEPT ![Len(s)] = f], g)
         IN /\ Len(t) = Len(s) + 1
            /\ t[Len(s)] = f /\ t[Len(s) + 1] = g
            /\ \A i \in 1 .. Len(s) - 1 : t[i] = s[i]
<1> DEFINE Some == Frame \cup {f, g}
           u == [s EXCEPT ![Len(s)] = f]
           t == Append(u, g)
<1>1. Len(s) \in Nat /\ Len(s) \in 1 .. Len(s)
  BY LenProperties
<1>2. Len(u) = Len(s) /\ u[Len(s)] = f /\ \A i \in 1 .. Len(s) - 1 : u[i] = s[i]
  BY TopSet
<1>3. u \in Seq(Some) /\ g \in Some
  <2>1. s \in Seq(Some)
    OBVIOUS
  <2> HIDE DEF Some
  <2> QED BY <1>1, <2>1 DEF Some
<1> HIDE DEF u, Some
<1>4. Len(t) = Len(u) + 1 /\ t[Len(u) + 1] = g /\ \A i \in 1 .. Len(u) : t[i] = u[i]
  BY <1>3, AppendProperties
<1>5. t[Len(s)] = f
  BY <1>1, <1>2, <1>4
<1>6. \A i \in 1 .. Len(s) - 1 : t[i] = s[i]
  <2>1. \A n \in Nat : \A i \in 1 .. n - 1 : i \in 1 .. n
    OBVIOUS
  <2> QED BY <1>1, <1>2, <1>4, <2>1
<1> HIDE DEF t
<1> QED BY <1>2, <1>4, <1>5, <1>6 DEF t, u

LEMMA TopPopped ==
  ASSUME NEW s \in Seq(Frame), NEW k \in Nat, k > 0,
         NEW b \in Seq(Frame), Len(b) = k, \A j \in 1 .. k : b[j] = s[j], NEW g
  PROVE  LET t == [b EXCEPT ![k] = g]
         IN Len(t) = k /\ t[k] = g /\ \A i \in 1 .. k - 1 : t[i] = s[i]
<1> DEFINE t == [b EXCEPT ![k] = g]
<1>1. Len(t) = k /\ t[k] = g /\ \A i \in 1 .. k - 1 : t[i] = b[i]
  BY TopSet
<1> HIDE DEF t
<1>2. \A i \in 1 .. k - 1 : t[i] = s[i]
  BY <1>1
<1> QED BY <1>1, <1>2 DEF t

(* An action that moves only run r.                                         *)
LEMMA OneRunMoves ==
  ASSUME IInv, NEW r \in Runs, NEW s, NEW phase,
         stack' = [stack EXCEPT ![r] = s], status' = [status EXCEPT ![r] = phase],
         \A q \in Runs : q # r => result'[q] = result[q]
  PROVE  OthersRest(r) /\ stack'[r] = s /\ status'[r] = phase
BY DEF IInv, OthersRest

(* SetTop, in terms of the shapes.                                          *)
LEMMA SetTopShape ==
  ASSUME IInv, NEW r \in Runs, status[r] \in {"running", "throwing"}, NEW g, SetTop(r, g),
         NEW phase, status' = [status EXCEPT ![r] = phase], result' = result
  PROVE  /\ OthersRest(r)
         /\ Goes(r, status[r], phase)
         /\ Len(stack'[r]) = Depth(r)
         /\ \A i \in 1 .. Depth(r) - 1 : stack'[r][i] = stack[r][i]
         /\ stack'[r][Depth(r)] = g
<1> DEFINE s == [stack[r] EXCEPT ![Len(stack[r])] = g]
<1>1. stack[r] \in Seq(Frame) /\ Len(stack[r]) > 0 /\ stack \in [Runs -> Seq(Frame)]
  BY TopFacts DEF IInv, Depth
<1>2. stack' = [stack EXCEPT ![r] = s]
  BY <1>1 DEF SetTop, Depth
<1>3. /\ Len(s) = Len(stack[r]) /\ s[Len(stack[r])] = g
      /\ \A i \in 1 .. Len(stack[r]) - 1 : s[i] = stack[r][i]
  BY <1>1, TopSet
<1> HIDE DEF s
<1>4. OthersRest(r) /\ stack'[r] = s /\ status'[r] = phase
  BY <1>2, OneRunMoves
<1> QED BY <1>3, <1>4 DEF Goes, Depth

LEMMA SetTopGoesOn ==
  ASSUME IInv, NEW r \in Runs, status[r] = "running", NEW g, SetTop(r, g),
         g.pc # "callee", status' = [status EXCEPT ![r] = "running"], result' = result
  PROVE  OthersRest(r) /\ GoesOn(r, g.ctx, g.ppd)
<1>1. /\ OthersRest(r)
      /\ Goes(r, status[r], "running")
      /\ Len(stack'[r]) = Depth(r)
      /\ \A i \in 1 .. Depth(r) - 1 : stack'[r][i] = stack[r][i]
      /\ stack'[r][Depth(r)] = g
  BY SetTopShape
<1> QED BY <1>1 DEF GoesOn, Goes

-----------------------------------------------------------------------------
(* Every action has one of the shapes                                       *)

LEMMA LedgerOpShape ==
  ASSUME IInv, NEW r \in Runs, NEW cost \in Costs, LedgerOp(r, cost)
  PROVE  OthersRest(r) /\ Queries(r)
<1> DEFINE f == Top(r)
           logs == <<f.ctx.cc.addr>>
           ctx == Queried(f.ctx, Fresh, cost, logs)
           ppd == [f.ppd EXCEPT !.ops = @ + 1]
           g == [f EXCEPT !.ctx = ctx, !.ppd.ops = @ + 1]
<1>1. /\ status[r] = "running" /\ f.pc = "run"
      /\ SetTop(r, g) /\ status' = status /\ result' = result
      /\ Allocate([heap[f.ctx.cc.cur] EXCEPT !.data = @ + 1, !.effects = @ + 1])
      /\ cost <= GasLimit
  BY DEF LedgerOp, Executing
<1>2. f \in Frame
  BY <1>1, TopFacts
<1>3. g.ctx = ctx /\ g.ppd = ppd /\ g.pc = "run"
  BY <1>1, <1>2 DEF Frame
<1>4. status' = [status EXCEPT ![r] = "running"]
  BY <1>1 DEF IInv
<1>5. cost \in Nat /\ logs \in Seq(Addr)
  <2>1. f.ctx \in CircuitContext
    BY <1>2, FrameTyped
  <2>2. f.ctx.cc.addr \in Addr
    BY <2>1, CellsTyped, CallContextTyped
  <2> QED BY <2>2, CostAssumption
<1> HIDE DEF g, ctx, ppd, logs
<1>6. OthersRest(r) /\ GoesOn(r, ctx, ppd)
  BY <1>1, <1>3, <1>4, SetTopGoesOn
<1> QED BY <1>1, <1>5, <1>6 DEF Queries, ctx, ppd, logs

LEMMA CreateZswapOutputShape ==
  ASSUME IInv, NEW r \in Runs, CreateZswapOutput(r)
  PROVE  OthersRest(r) /\ Outputs(r)
<1> DEFINE f == Top(r)
           ctx == WithOutput(f.ctx, Fresh)
           g == [f EXCEPT !.ctx = ctx]
<1>1. /\ status[r] = "running" /\ f.pc = "run"
      /\ SetTop(r, g) /\ status' = status /\ result' = result
      /\ Allocate([heap[f.ctx.cc.cur] EXCEPT !.com = @ + 1])
  BY DEF CreateZswapOutput, Executing
<1>2. f \in Frame
  BY <1>1, TopFacts
<1>3. g.ctx = ctx /\ g.ppd = f.ppd /\ g.pc = "run"
  BY <1>1, <1>2 DEF Frame
<1>4. status' = [status EXCEPT ![r] = "running"]
  BY <1>1 DEF IInv
<1> HIDE DEF g, ctx
<1>5. OthersRest(r) /\ GoesOn(r, ctx, f.ppd)
  BY <1>1, <1>3, <1>4, SetTopGoesOn
<1> QED BY <1>1, <1>5 DEF Outputs, ctx

(* The innermost frame changes nothing the shapes look at.                  *)
LEMMA RelabelShape ==
  ASSUME IInv, NEW r \in Runs, status[r] = "running", NEW g, SetTop(r, g),
         g.ctx \in CircuitContext,
         SameCells(g.ctx.cc, Top(r).ctx.cc), SameMaps(g.ctx, Top(r).ctx),
         g.ctx.trace = Top(r).ctx.trace, g.ctx.events = Top(r).ctx.events,
         g.ppd = Top(r).ppd, g.pc # "callee",
         NEW phase \in {"running", "throwing"}, status' = [status EXCEPT ![r] = phase],
         heap' = heap, result' = result
  PROVE  OthersRest(r) /\ (Idles(r) \/ Fails(r))
<1>1. /\ OthersRest(r)
      /\ Goes(r, "running", phase)
      /\ Len(stack'[r]) = Depth(r)
      /\ \A i \in 1 .. Depth(r) - 1 : stack'[r][i] = stack[r][i]
      /\ stack'[r][Depth(r)] = g
  BY SetTopShape DEF Goes
<1>2. CASE phase = "running"
  BY <1>1, <1>2 DEF Idles, GoesOn
<1>3. CASE phase = "throwing"
  <2>1. Depth(r) \in Nat /\ Depth(r) \in 0 .. Depth(r)
    BY TopFacts
  <2>2. \A i \in 1 .. Depth(r) : stack'[r][i].ctx.trace = stack[r][i].ctx.trace
    <3> SUFFICES ASSUME NEW i \in 1 .. Depth(r)
                 PROVE  stack'[r][i].ctx.trace = stack[r][i].ctx.trace
      OBVIOUS
    <3>1. CASE i = Depth(r)
      BY <1>1, <3>1 DEF Top
    <3>2. CASE i # Depth(r)
      BY <1>1, <2>1, <3>2
    <3> QED BY <3>1, <3>2
  <2> QED BY <1>1, <1>3, <2>1, <2>2 DEF Fails
<1> QED BY <1>2, <1>3

LEMMA CallWitnessShape ==
  ASSUME IInv, NEW r \in Runs, CallWitness(r)
  PROVE  OthersRest(r) /\ (Idles(r) \/ Fails(r))
<1> DEFINE f == Top(r)
           ctx == [f.ctx EXCEPT !.cc.ps = 1]
           g == [f EXCEPT !.ctx.cc.ps = 1]
<1>1. /\ status[r] = "running" /\ f.pc = "run"
      /\ SetTop(r, g) /\ status' = status /\ result' = result /\ heap' = heap
  BY DEF CallWitness, Executing
<1>2. f \in Frame /\ ContextOK(f.ctx, Len(heap)) /\ Len(heap) \in Nat
  BY <1>1, TopFacts DEF FrameOK
<1>3. g.ctx = ctx /\ g.ppd = f.ppd /\ g.pc # "callee"
  BY <1>1, <1>2 DEF Frame
<1>4. ctx \in CircuitContext
  BY <1>2, WitnessedOK DEF ContextOK
<1>5. SameCells(ctx.cc, f.ctx.cc) /\ SameMaps(ctx, f.ctx) /\ ctx.trace = f.ctx.trace
      /\ ctx.events = f.ctx.events
  BY <1>2, WitnessFields DEF ContextOK
<1>6. status' = [status EXCEPT ![r] = "running"]
  BY <1>1 DEF IInv
<1> HIDE DEF g, ctx
<1> QED BY <1>1, <1>3, <1>4, <1>5, <1>6, RelabelShape

(* A frame that only changes its place in crossContractCall.                *)
LEMMA MovedShape ==
  ASSUME IInv, NEW r \in Runs, status[r] = "running", NEW g, SetTop(r, g),
         g.ctx = Top(r).ctx, g.ppd = Top(r).ppd, g.pc # "callee",
         NEW phase \in {"running", "throwing"}, status' = [status EXCEPT ![r] = phase],
         heap' = heap, result' = result
  PROVE  OthersRest(r) /\ (Idles(r) \/ Fails(r))
<1>1. Top(r).ctx \in CircuitContext
  BY TopFacts, FrameTyped
<1>2. SameCells(g.ctx.cc, Top(r).ctx.cc) /\ SameMaps(g.ctx, Top(r).ctx)
  BY DEF SameCells, SameMaps
<1> QED BY <1>1, <1>2, RelabelShape

LEMMA BeginCallShape ==
  ASSUME IInv, NEW r \in Runs, NEW callee \in Addr, BeginCall(r, callee)
  PROVE  OthersRest(r) /\ (Idles(r) \/ Fails(r))
<1>1. status[r] = "running" /\ heap' = heap /\ result' = result
  BY DEF BeginCall, Executing
<1>2. Top(r) \in Frame /\ status \in [Runs -> Phases]
  BY <1>1, TopFacts DEF IInv
<1>3. CASE /\ SetTop(r, [Top(r) EXCEPT !.pc = "refused", !.callee = callee])
           /\ Throws(r)
  <2> DEFINE g == [Top(r) EXCEPT !.pc = "refused", !.callee = callee]
  <2>1. g.ctx = Top(r).ctx /\ g.ppd = Top(r).ppd /\ g.pc # "callee"
    BY <1>2 DEF Frame
  <2>2. SetTop(r, g) /\ status' = [status EXCEPT ![r] = "throwing"]
    BY <1>3 DEF Throws
  <2> HIDE DEF g
  <2> QED BY <1>1, <2>1, <2>2, MovedShape
<1>4. CASE /\ SetTop(r, [Top(r) EXCEPT !.pc = "state", !.callee = callee])
           /\ UNCHANGED status
  <2> DEFINE g == [Top(r) EXCEPT !.pc = "state", !.callee = callee]
  <2>1. g.ctx = Top(r).ctx /\ g.ppd = Top(r).ppd /\ g.pc # "callee"
    BY <1>2 DEF Frame
  <2>2. SetTop(r, g) /\ status' = [status EXCEPT ![r] = "running"]
    BY <1>1, <1>2, <1>4
  <2> HIDE DEF g
  <2> QED BY <1>1, <2>1, <2>2, MovedShape
<1> QED BY <1>3, <1>4 DEF BeginCall

LEMMA RejectShape ==
  ASSUME IInv, NEW r \in Runs, status[r] = "running", NEW catchable, Reject(r, catchable),
         result' = result
  PROVE  OthersRest(r) /\ (Idles(r) \/ Fails(r))
<1> DEFINE g == [Top(r) EXCEPT !.pc = "run", !.callee = NoAddr]
<1>1. SetTop(r, g) /\ heap' = heap
  BY DEF Reject
<1>2. Top(r) \in Frame /\ status \in [Runs -> Phases]
  BY TopFacts DEF IInv
<1>3. g.ctx = Top(r).ctx /\ g.ppd = Top(r).ppd /\ g.pc # "callee"
  BY <1>2 DEF Frame
<1> HIDE DEF g
<1>4. PICK phase \in {"running", "throwing"} : status' = [status EXCEPT ![r] = phase]
  <2>1. status' = [status EXCEPT ![r] = "throwing"] \/ status' = [status EXCEPT ![r] = "running"]
    BY <1>2 DEF Reject, Throws
  <2> QED BY <2>1
<1> QED BY <1>1, <1>3, <1>4, MovedShape

LEMMA StateArrivesShape ==
  ASSUME IInv, NEW r \in Runs, StateArrives(r)
  PROVE  OthersRest(r) /\ (Idles(r) \/ Fails(r))
<1>1. status[r] = "running" /\ result' = result
  BY DEF StateArrives
<1>2. CASE /\ SetTop(r, [Top(r) EXCEPT !.pc = "module"])
           /\ UNCHANGED <<heap, active, status>>
  <2> DEFINE g == [Top(r) EXCEPT !.pc = "module"]
  <2>1. Top(r) \in Frame /\ status' = [status EXCEPT ![r] = "running"]
    BY <1>1, <1>2, TopFacts DEF IInv
  <2>2. g.ctx = Top(r).ctx /\ g.ppd = Top(r).ppd /\ g.pc # "callee"
    BY <2>1 DEF Frame
  <2> HIDE DEF g
  <2> QED BY <1>1, <1>2, <2>1, <2>2, MovedShape DEF g
<1>3. CASE Reject(r, FALSE) \/ Reject(r, TRUE)
  BY <1>1, <1>3, RejectShape
<1> QED BY <1>2, <1>3 DEF StateArrives

LEMMA CircuitThrowsShape ==
  ASSUME IInv, NEW r \in Runs, CircuitThrows(r)
  PROVE  OthersRest(r) /\ Fails(r)
<1>1. /\ status[r] = "running" /\ status' = [status EXCEPT ![r] = "throwing"]
      /\ heap' = heap /\ stack' = stack /\ result' = result
  BY DEF CircuitThrows, Executing, Throws
<1>2. Len(stack[r]) \in Nat /\ Len(stack[r]) \in 0 .. Len(stack[r])
  BY <1>1, TopFacts DEF Depth
<1>3. Goes(r, "running", "throwing") /\ OthersRest(r)
  BY <1>1 DEF IInv, Goes, OthersRest
<1> QED BY <1>1, <1>2, <1>3 DEF Fails, Depth

LEMMA NoProvableCircuitShape ==
  ASSUME IInv, NEW r \in Runs, NoProvableCircuit(r)
  PROVE  OthersRest(r) /\ Fails(r)
<1> DEFINE f == Top(r)
           ctx == EnterContext(f.ctx, f.callee)
           g == [f EXCEPT !.ctx = ctx, !.pc = "run", !.callee = NoAddr]
<1>1. /\ status[r] = "running" /\ f.pc = "module"
      /\ EnterHeap(f.ctx, f.callee)
      /\ SetTop(r, g) /\ result' = result
      /\ status' = [status EXCEPT ![r] = "throwing"]
  BY DEF NoProvableCircuit, Throws
<1>2. f \in Frame /\ f.callee \in Addr /\ f.ctx \in CircuitContext
  BY <1>1, TopFacts, FrameTyped DEF FrameOK, Pending
<1>3. g.ctx = ctx
  BY <1>2 DEF Frame
<1>4. ctx.trace = f.ctx.trace
  BY <1>2, EnterFields
<1> HIDE DEF g, ctx
<1>5. /\ OthersRest(r)
      /\ Goes(r, status[r], "throwing")
      /\ Len(stack'[r]) = Depth(r)
      /\ \A i \in 1 .. Depth(r) - 1 : stack'[r][i] = stack[r][i]
      /\ stack'[r][Depth(r)] = g
  BY <1>1, SetTopShape
<1>6. Depth(r) \in Nat /\ Depth(r) \in 0 .. Depth(r)
  BY <1>1, TopFacts
<1>7. \A i \in 1 .. Depth(r) : stack'[r][i].ctx.trace = stack[r][i].ctx.trace
  <2> SUFFICES ASSUME NEW i \in 1 .. Depth(r)
               PROVE  stack'[r][i].ctx.trace = stack[r][i].ctx.trace
    OBVIOUS
  <2>1. CASE i = Depth(r)
    BY <1>3, <1>4, <1>5, <2>1 DEF Top
  <2>2. CASE i # Depth(r)
    BY <1>5, <1>6, <2>2
  <2> QED BY <2>1, <2>2
<1>8. Goes(r, "running", "throwing")
  BY <1>1, <1>5 DEF Goes
<1> QED BY <1>1, <1>5, <1>6, <1>7, <1>8 DEF Fails

LEMMA EnterCalleeShape ==
  ASSUME IInv, IInv', NEW r \in Runs, EnterCallee(r)
  PROVE  OthersRest(r) /\ Enters(r)
<1> DEFINE f == Top(r)
           ctx == CalleeContext(f)
           caller == [f EXCEPT !.ctx = ctx, !.pc = "callee", !.saved = f.ctx.cc]
           g == EnterCircuit(ctx)
           t == stack[r]
           s == Append([t EXCEPT ![Len(t)] = caller], g)
<1>1. /\ status[r] = "running" /\ f.pc = "module"
      /\ EnterHeap(f.ctx, f.callee)
      /\ stack' = [stack EXCEPT ![r] = Append([@ EXCEPT ![Depth(r)] = caller], g)]
      /\ status' = status /\ result' = result
  BY DEF EnterCallee, CalleeContext
<1>2. /\ f \in Frame /\ stack \in [Runs -> Seq(Frame)] /\ status \in [Runs -> Phases]
      /\ t \in Seq(Frame) /\ Len(t) > 0 /\ Len(t) \in Nat
  BY <1>1, TopFacts DEF IInv, Depth
<1>3. /\ caller.ctx = ctx /\ caller.pc = "callee" /\ caller.saved = f.ctx.cc
      /\ caller.callee = f.callee /\ caller.ppd = f.ppd
  BY <1>2 DEF Frame
<1>4. g.ctx = ctx /\ g.pc = "run" /\ g.ppd = EmptyProofData
  BY DEF EnterCircuit
<1>5. stack' = [stack EXCEPT ![r] = s] /\ status' = [status EXCEPT ![r] = "running"]
  BY <1>1, <1>2 DEF Depth
<1> HIDE DEF caller, g
<1>6. /\ Len(s) = Len(t) + 1
      /\ s[Len(t)] = caller /\ s[Len(t) + 1] = g
      /\ \A i \in 1 .. Len(t) - 1 : s[i] = t[i]
  BY <1>2, PushedAnything
<1> HIDE DEF s, ctx
<1>7. OthersRest(r) /\ stack'[r] = s /\ status'[r] = "running"
  BY <1>1, <1>5, OneRunMoves
<1> QED BY <1>1, <1>3, <1>4, <1>6, <1>7 DEF Enters, Goes, Depth, ctx

(* What the caller gets back: its own cells, the callee's maps, and the     *)
(* callee's call as the last entry of the trace, marked.                    *)
LEMMA ReturnedFields ==
  ASSUME NEW r \in Runs, NEW n \in Nat, FrameOK(Top(r), n), NEW f
  PROVE  LET q == ReturnedContext(r, f)
             ctx == Top(r).ctx
             k == Len(ctx.trace) + 1
         IN /\ q.cc = f.saved
            /\ SameMaps(q, ctx)
            /\ Len(q.trace) = k
            /\ q.trace[k] = [Entered(ctx, Top(r).ppd) EXCEPT !.comm = TRUE]
            /\ \A j \in 1 .. Len(ctx.trace) : q.trace[j] = ctx.trace[j]
<1> DEFINE ctx == Top(r).ctx
           ppd == Top(r).ppd
           final == Finalize(ctx, ppd)
           q == RestoreCircuitContext(final, f.saved)
           k == Len(ctx.trace) + 1
<1>1. ContextOK(ctx, n) /\ ctx \in CircuitContext /\ ppd \in ProofData
  BY FrameTyped DEF FrameOK
<1>2. final \in CircuitContext /\ Len(final.trace) > 0
  BY <1>1, FinalizeOK DEF ContextOK
<1>3. /\ SameMaps(final, ctx)
      /\ Len(final.trace) = k
      /\ final.trace[k] = Entered(ctx, ppd)
      /\ \A j \in 1 .. Len(ctx.trace) : final.trace[j] = ctx.trace[j]
  BY <1>1, FinalizeFields
<1> HIDE DEF final
<1>4. /\ q.cc = f.saved
      /\ SameMaps(q, final)
      /\ Len(q.trace) = k
      /\ q.trace[k] = [Entered(ctx, ppd) EXCEPT !.comm = TRUE]
      /\ \A j \in 1 .. k : j # k => q.trace[j] = final.trace[j]
  BY <1>2, <1>3, RestoreFields
<1>5. \A j \in 1 .. Len(ctx.trace) : q.trace[j] = ctx.trace[j]
  <2>1. Len(ctx.trace) \in Nat
    BY <1>1, CellsTyped, LenProperties
  <2> QED BY <1>3, <1>4, <2>1, SMTT(20)
<1> HIDE DEF q
<1> QED BY <1>3, <1>4, <1>5 DEF ReturnedContext, SameMaps, q, final

LEMMA ReturnedTyped ==
  ASSUME IInv, NEW r \in Runs, status[r] = "running", Depth(r) > 1
  PROVE  ReturnedContext(r, stack[r][Depth(r) - 1]) \in CircuitContext
<1> DEFINE f == stack[r][Depth(r) - 1]
           final == Finalize(Top(r).ctx, Top(r).ppd)
           n == Len(heap)
<1>1. FrameOK(Top(r), n) /\ n \in Nat /\ Depth(r) # 1
  BY TopFacts
<1>2. /\ f.saved \in CallContext /\ f.saved.cur \in 1 .. n /\ Known(Top(r).ctx, f.saved.addr)
  BY <1>1, CallerFacts
<1>3. /\ ContextOK(final, n) /\ final.queryContexts = Top(r).ctx.queryContexts
      /\ Len(final.trace) \in Nat \ {0}
  BY <1>1, FinalizeOK, FrameTyped DEF FrameOK
<1>4. Known(final, f.saved.addr)
  BY <1>2, <1>3 DEF Known
<1> HIDE DEF f, final
<1>5. ContextOK(RestoreCircuitContext(final, f.saved), n)
  BY <1>1, <1>2, <1>3, <1>4, RestoreOK
<1> QED BY <1>5 DEF ContextOK, ReturnedContext, f, final

LEMMA ReturnToCallerShape ==
  ASSUME IInv, NEW r \in Runs, NEW cost \in Costs, ReturnToCaller(r, cost)
  PROVE  OthersRest(r) /\ (Returns(r) \/ Fails(r))
<1> DEFINE n == Depth(r)
           f == stack[r][n - 1]
           ctx == ReturnedContext(r, f)
           back(c, ppd) == [f EXCEPT !.ctx = c, !.ppd = ppd, !.pc = "run", !.callee = NoAddr]
           moved(g) == stack' = [stack EXCEPT ![r] = [Below(r) EXCEPT ![n - 1] = g]]
<1>1. /\ status[r] = "running" /\ n > 1 /\ result' = result
  BY DEF ReturnToCaller, Executing
<1>2. /\ stack[r] \in Seq(Frame) /\ n \in Nat /\ status \in [Runs -> Phases]
      /\ f \in Frame /\ FrameOK(Top(r), Len(heap)) /\ Len(heap) \in Nat
  BY <1>1, TopFacts, CallerFacts DEF IInv
<1>3. ASSUME NEW g, moved(g), NEW phase, status' = [status EXCEPT ![r] = phase]
      PROVE  /\ OthersRest(r) /\ Goes(r, "running", phase)
             /\ Len(stack'[r]) = n - 1 /\ stack'[r][n - 1] = g
             /\ \A i \in 1 .. n - 2 : stack'[r][i] = stack[r][i]
  <2> DEFINE k == n - 1
             b == SubSeq(stack[r], 1, k)
             s == [b EXCEPT ![k] = g]
  <2>1. stack' = [stack EXCEPT ![r] = s]
    BY <1>3 DEF Below
  <2>2. k \in Nat /\ k > 0 /\ Len(stack[r]) = k + 1 /\ n - 2 = k - 1
    BY <1>1, <1>2 DEF Depth
  <2> HIDE DEF k
  <2>3. b \in Seq(Frame) /\ Len(b) = k /\ \A j \in 1 .. k : b[j] = stack[r][j]
    BY <1>2, <2>2, SubSeqProperties
  <2> HIDE DEF b
  <2>4. Len(s) = k /\ s[k] = g /\ \A i \in 1 .. k - 1 : s[i] = stack[r][i]
    BY <1>2, <2>2, <2>3, TopPopped
  <2> HIDE DEF s
  <2>5. OthersRest(r) /\ stack'[r] = s /\ status'[r] = phase
    BY <1>1, <1>3, <2>1, OneRunMoves
  <2> QED BY <1>1, <2>4, <2>5, <2>2 DEF Goes, k
<1>4. CASE /\ cost <= GasLimit
           /\ Allocate([heap[f.saved.cur] EXCEPT !.effects = @ + 1])
           /\ moved(back(Queried(ctx, Fresh, cost, <<>>),
                         [f.ppd EXCEPT !.claims = @ \cup {Len(ctx.trace)}]))
           /\ UNCHANGED status
  <2> DEFINE c == Queried(ctx, Fresh, cost, <<>>)
             ppd == [f.ppd EXCEPT !.claims = @ \cup {Len(ctx.trace)}]
             g == back(c, ppd)
  <2>1. g.ctx = c /\ g.ppd = ppd /\ g.pc # "callee"
    BY <1>2 DEF Frame
  <2>2. Len(ctx.trace) = Len(Top(r).ctx.trace) + 1
    BY <1>2, ReturnedFields
  <2>3. moved(g) /\ status' = [status EXCEPT ![r] = "running"]
    BY <1>1, <1>2, <1>4
  <2> HIDE DEF g, c, ppd
  <2>4. /\ OthersRest(r) /\ Goes(r, "running", "running")
        /\ Len(stack'[r]) = n - 1 /\ stack'[r][n - 1] = g
        /\ \A i \in 1 .. n - 2 : stack'[r][i] = stack[r][i]
    BY <1>3, <2>3
  <2>5. cost \in Nat
    BY CostAssumption
  <2> QED BY <1>1, <1>4, <2>1, <2>2, <2>4, <2>5 DEF Returns, c, ppd
<1>5. CASE /\ moved(back(ctx, f.ppd)) /\ Throws(r) /\ heap' = heap
  <2> DEFINE g == back(ctx, f.ppd)
  <2>1. g.ctx = ctx
    BY <1>2 DEF Frame
  <2>2. moved(g) /\ status' = [status EXCEPT ![r] = "throwing"]
    BY <1>5 DEF Throws
  <2> HIDE DEF g
  <2>3. /\ OthersRest(r) /\ Goes(r, "running", "throwing")
        /\ Len(stack'[r]) = n - 1 /\ stack'[r][n - 1] = g
        /\ \A i \in 1 .. n - 2 : stack'[r][i] = stack[r][i]
    BY <1>3, <2>2
  <2>4. n - 1 \in 0 .. n /\ \A i \in 1 .. n - 1 : i = n - 1 \/ i \in 1 .. n - 2
    BY <1>1, <1>2
  <2> QED BY <1>1, <1>5, <2>1, <2>3, <2>4 DEF Fails
<1> QED BY <1>4, <1>5 DEF ReturnToCaller, ReturnedContext

LEMMA StartRunShape ==
  ASSUME IInv, NEW r \in Runs, StartRun(r)
  PROVE  OthersRest(r) /\ Starts(r)
<1>1. PICK ctx \in HeldContexts : stack' = [stack EXCEPT ![r] = <<EnterCircuit(ctx)>>]
  BY DEF StartRun
<1> DEFINE s == <<EnterCircuit(ctx)>>
<1>2. /\ Len(s) = 1
      /\ s[1].ctx = ctx /\ s[1].ppd = EmptyProofData /\ s[1].pc = "run"
  BY DEF EnterCircuit
<1> HIDE DEF s
<1>3. /\ stack' = [stack EXCEPT ![r] = s] /\ heap' = heap /\ result' = result
      /\ status[r] = "idle" /\ status' = [status EXCEPT ![r] = "running"]
  BY <1>1 DEF StartRun, s
<1>4. OthersRest(r) /\ stack'[r] = s /\ status'[r] = "running"
  BY <1>3, OneRunMoves
<1> QED BY <1>2, <1>3, <1>4 DEF Starts, Goes

LEMMA FinishRunShape ==
  ASSUME IInv, NEW r \in Runs, FinishRun(r)
  PROVE  OthersRest(r) /\ Finishes(r)
<1> DEFINE ctx == Finalize(Top(r).ctx, Top(r).ppd)
<1>1. /\ status[r] = "running" /\ Depth(r) = 1 /\ heap' = heap
      /\ result' = [result EXCEPT ![r] = ctx]
      /\ stack' = [stack EXCEPT ![r] = <<>>]
      /\ status' = [status EXCEPT ![r] = "done"]
  BY DEF FinishRun, Executing
<1> HIDE DEF ctx
<1>2. result'[r] = ctx /\ \A q \in Runs : q # r => result'[q] = result[q]
  BY <1>1 DEF IInv
<1>3. OthersRest(r) /\ stack'[r] = <<>> /\ status'[r] = "done"
  BY <1>1, <1>2 DEF IInv, OthersRest
<1> QED BY <1>1, <1>2, <1>3 DEF Finishes, ctx

LEMMA UnwindShape ==
  ASSUME IInv, NEW r \in Runs, Unwind(r)
  PROVE  OthersRest(r) /\ Fails(r)
<1>1. status[r] = "throwing" /\ heap' = heap /\ result' = result
  BY DEF Unwind
<1>2. Depth(r) \in Nat \ {0} /\ stack[r] \in Seq(Frame) /\ status \in [Runs -> Phases]
  BY <1>1, TopFacts DEF IInv
<1>3. CASE Depth(r) = 1
  <2>1. stack' = [stack EXCEPT ![r] = <<>>] /\ status' = [status EXCEPT ![r] = "failed"]
    BY <1>3 DEF Unwind
  <2>2. OthersRest(r) /\ stack'[r] = <<>> /\ status'[r] = "failed"
    BY <1>1, <2>1, OneRunMoves
  <2> QED BY <1>1, <1>2, <2>2 DEF Fails, Goes
<1>4. CASE Depth(r) # 1
  <2> DEFINE n == Len(stack[r])
             f == stack[r][n - 1]
             g == [f EXCEPT !.pc = "run", !.callee = NoAddr]
             s == [SubSeq(stack[r], 1, n - 1) EXCEPT ![n - 1] = g]
  <2>1. n \in Nat /\ n > 1 /\ n - 1 \in Nat \ {0} /\ n - 1 \in 1 .. n - 1 /\ n - 1 \in 1 .. n
    BY <1>2, <1>4, AboveOne DEF Depth
  <2>2. f \in Frame
    BY <1>1, <1>4, CallerFacts DEF Depth
  <2>3. g.ctx = f.ctx
    BY <2>2 DEF Frame
  <2>4. Below(r)[n - 1] = f
    BY <1>2, <2>1, SubSeqProperties DEF Below, Depth
  <2>5. stack' = [stack EXCEPT ![r] = s] /\ status' = [status EXCEPT ![r] = "throwing"]
    <3>1. stack' = [stack EXCEPT ![r] =
             [Below(r) EXCEPT ![n - 1] = [Below(r)[n - 1] EXCEPT !.pc = "run", !.callee = NoAddr]]]
      BY <1>4 DEF Unwind, Depth
    <3>2. status' = [status EXCEPT ![r] = "throwing"]
      BY <1>1, <1>2, <1>4 DEF Unwind
    <3> QED BY <2>4, <3>1, <3>2 DEF Below, Depth
  <2> HIDE DEF g
  <2>6. Len(s) = n - 1 /\ s[n - 1] = g /\ \A i \in 1 .. n - 2 : s[i] = stack[r][i]
    <3> DEFINE k == n - 1
    <3>1. k \in Nat /\ k > 0 /\ Len(stack[r]) = k + 1 /\ n - 2 = k - 1
      BY <2>1
    <3> DEFINE b == SubSeq(stack[r], 1, k)
               t == [b EXCEPT ![k] = g]
    <3> HIDE DEF k
    <3>2. b \in Seq(Frame) /\ Len(b) = k /\ \A j \in 1 .. k : b[j] = stack[r][j]
      BY <1>2, <3>1, SubSeqProperties
    <3> HIDE DEF b
    <3>3. Len(t) = k /\ t[k] = g /\ \A i \in 1 .. k - 1 : t[i] = stack[r][i]
      BY <1>2, <3>1, <3>2, TopPopped
    <3>4. s = t
      BY DEF b, k
    <3> HIDE DEF t
    <3> QED BY <3>1, <3>3, <3>4 DEF k
  <2> HIDE DEF s
  <2>7. OthersRest(r) /\ stack'[r] = s /\ status'[r] = "throwing"
    BY <1>1, <2>5, OneRunMoves
  <2>8. n - 1 \in 0 .. n /\ \A i \in 1 .. n - 1 : i = n - 1 \/ i \in 1 .. n - 2
    BY <2>1
  <2>9. \A i \in 1 .. n - 1 : s[i].ctx.trace = stack[r][i].ctx.trace
    BY <2>3, <2>6, <2>8
  <2> QED BY <1>1, <2>6, <2>7, <2>8, <2>9 DEF Fails, Goes, Depth
<1> QED BY <1>3, <1>4

(* The shapes together.                                                     *)
LEMMA Shapes ==
  ASSUME IInv, IInv', NEW r \in Runs, Step(r)
  PROVE  /\ OthersRest(r)
         /\ \/ Starts(r) \/ Finishes(r) \/ Fails(r)
            \/ Idles(r) \/ Queries(r) \/ Outputs(r) \/ Enters(r) \/ Returns(r)
<1>1. CASE StartRun(r)
  BY <1>1, StartRunShape
<1>2. CASE \E cost \in Costs : LedgerOp(r, cost)
  BY <1>2, LedgerOpShape
<1>3. CASE CreateZswapOutput(r)
  BY <1>3, CreateZswapOutputShape
<1>4. CASE CallWitness(r)
  BY <1>4, CallWitnessShape
<1>5. CASE CircuitThrows(r)
  BY <1>5, CircuitThrowsShape
<1>6. CASE \E callee \in Addr : BeginCall(r, callee)
  BY <1>6, BeginCallShape
<1>7. CASE StateArrives(r)
  BY <1>7, StateArrivesShape
<1>8. CASE ModuleRefused(r)
  BY <1>8, RejectShape DEF ModuleRefused
<1>9. CASE NoProvableCircuit(r)
  BY <1>9, NoProvableCircuitShape
<1>10. CASE EnterCallee(r)
  BY <1>10, EnterCalleeShape
<1>11. CASE FinishRun(r)
  BY <1>11, FinishRunShape
<1>12. CASE \E cost \in Costs : ReturnToCaller(r, cost)
  BY <1>12, ReturnToCallerShape
<1>13. CASE Unwind(r)
  BY <1>13, UnwindShape
<1> QED BY <1>1, <1>2, <1>3, <1>4, <1>5, <1>6, <1>7, <1>8, <1>9, <1>10, <1>11, <1>12, <1>13
        DEF Step

-----------------------------------------------------------------------------
(* The invariant: who executes in each frame, and what the innermost        *)
(* context holds for it.                                                    *)

CellsOK(s) ==
  /\ Home(s[1]) = Entry
  /\ \A i \in 1 .. Len(s) - 1 : Home(s[i + 1]) = s[i].callee
  /\ \A i \in 1 .. Len(s) : MapsHold(s[Len(s)].ctx, Cells(s[i]))

CInv ==
  /\ \A r \in Runs : status[r] = "running" => CellsOK(stack[r])
  /\ \A r \in Runs : result[r].cc.addr = Entry /\ MapsHold(result[r], result[r].cc)

(* Two contexts hold the same for contract b.                               *)
AgreeOn(c, d, b) ==
  /\ c.queryContexts[b] = d.queryContexts[b]
  /\ c.gasCosts[b] = d.gasCosts[b]
  /\ c.zswapLocalStates[b] = d.zswapLocalStates[b]

LEMMA MapsHoldAgree ==
  ASSUME NEW c, NEW d, NEW cells, MapsHold(d, cells), AgreeOn(c, d, cells.addr)
  PROVE  MapsHold(c, cells)
BY DEF MapsHold, AgreeOn

(* The frames of a running stack execute different contracts, none of them  *)
(* the callee the innermost one waits for: that is what the guard is for.   *)
LEMMA HomesApart ==
  ASSUME IInv, AInv, NEW r \in Runs, status[r] = "running", CellsOK(stack[r])
  PROVE  /\ \A i \in 1 .. Depth(r) : Home(stack[r][i]) \in Addr
         /\ \A i, j \in 1 .. Depth(r) : i # j => Home(stack[r][i]) # Home(stack[r][j])
         /\ Top(r).pc \in Pending =>
              \A i \in 1 .. Depth(r) : Home(stack[r][i]) # Top(r).callee
<1> DEFINE s == stack[r]
           n == Depth(r)
<1>1. /\ s \in Seq(Frame) /\ n \in Nat \ {0} /\ n = Len(s)
      /\ \A i \in 1 .. n - 1 : s[i].pc = "callee"
  BY TopFacts DEF StackOK, Depth
<1>2. \A i \in 1 .. n : Home(s[i]) \in Addr
  <2> SUFFICES ASSUME NEW i \in 1 .. n PROVE Home(s[i]) \in Addr
    OBVIOUS
  <2>1. s[i] \in Frame
    BY <1>1, ElementOfSeq
  <2>2. s[i].saved \in CallContext /\ s[i].ctx.cc \in CallContext
    BY <2>1, FrameTyped, CellsTyped
  <2> QED BY <2>2, CallContextTyped DEF Home, Cells
<1>3. \A i \in 1 .. n - 1 : WaitsAt(s, i, Home(s[i + 1]))
  <2> SUFFICES ASSUME NEW i \in 1 .. n - 1 PROVE WaitsAt(s, i, Home(s[i + 1]))
    OBVIOUS
  <2>1. Home(s[i + 1]) = s[i].callee
    BY <1>1 DEF CellsOK
  <2>2. s[i].pc = "callee" /\ i \in 1 .. Len(s)
    BY <1>1
  <2> QED BY <2>1, <2>2 DEF WaitsAt, Waits, Pending
<1>4. ASSUME NEW k \in 1 .. n, NEW a, WaitsAt(s, k, a), NEW i \in 1 .. n, i # k + 1
      PROVE  Home(s[i]) # a
  <2>1. k \in Nat
    BY <1>1
  <2>2. a # Entry
    BY <1>4, <2>1 DEF AInv, EntryNeverCalled
  <2>3. CASE i = 1
    BY <2>3, <2>2 DEF CellsOK
  <2>4. CASE i # 1
    <3>1. i - 1 \in 1 .. n - 1 /\ i - 1 \in Nat /\ i = (i - 1) + 1
      BY <1>1, <2>4
    <3>2. WaitsAt(s, i - 1, Home(s[i]))
      BY <1>3, <3>1
    <3>3. i - 1 # k
      BY <1>1, <1>4
    <3>4. ASSUME Home(s[i]) = a PROVE FALSE
      <4>1. WaitsAt(stack[r], i - 1, a) /\ WaitsAt(stack[r], k, a)
        BY <1>4, <3>2, <3>4
      <4> QED BY <2>1, <3>1, <3>3, <4>1 DEF AInv, MarkedOnce
    <3> QED BY <3>4
  <2> QED BY <2>3, <2>4
<1>5. ASSUME NEW i \in 1 .. n, NEW j \in 1 .. n, i < j
      PROVE  Home(s[i]) # Home(s[j])
  <2>1. j - 1 \in 1 .. n - 1 /\ j - 1 \in 1 .. n /\ i # (j - 1) + 1 /\ j = (j - 1) + 1
    BY <1>1, <1>5
  <2>2. WaitsAt(s, j - 1, Home(s[j]))
    BY <1>3, <2>1
  <2> QED BY <1>4, <2>1, <2>2
<1>6. \A i, j \in 1 .. n : i # j => Home(s[i]) # Home(s[j])
  <2> SUFFICES ASSUME NEW i \in 1 .. n, NEW j \in 1 .. n, i # j
               PROVE  Home(s[i]) # Home(s[j])
    OBVIOUS
  <2>1. i < j \/ j < i
    BY <1>1
  <2> QED BY <1>5, <2>1
<1>7. ASSUME Top(r).pc \in Pending, NEW i \in 1 .. n
      PROVE  Home(s[i]) # Top(r).callee
  <2>1. n \in 1 .. n /\ i # n + 1
    BY <1>1
  <2>2. WaitsAt(s, n, Top(r).callee)
    BY <1>1, <1>7, <2>1 DEF WaitsAt, Waits, Top, Depth
  <2> QED BY <1>4, <2>1, <2>2
<1> QED BY <1>2, <1>6, <1>7

(* The innermost context of a running stack holds its own contract's cells. *)
LEMMA TopHolds ==
  ASSUME IInv, NEW r \in Runs, status[r] = "running", CellsOK(stack[r])
  PROVE  /\ Top(r).pc # "callee"
         /\ Cells(Top(r)) = Top(r).ctx.cc /\ Home(Top(r)) = Top(r).ctx.cc.addr
         /\ MapsHold(Top(r).ctx, Top(r).ctx.cc)
         /\ Top(r).ctx \in CircuitContext /\ Top(r).ctx.cc.addr \in Addr
         /\ Known(Top(r).ctx, Top(r).ctx.cc.addr)
         /\ Top(r).ctx.gasCosts[Top(r).ctx.cc.addr] # Absent
<1>1. /\ StackOK(stack[r], "running", Len(heap)) /\ Depth(r) \in Nat \ {0}
      /\ FrameOK(Top(r), Len(heap))
  BY TopFacts
<1>2. Top(r).pc # "callee"
  BY <1>1 DEF StackOK, Top, Depth
<1>3. Cells(Top(r)) = Top(r).ctx.cc
  BY <1>2 DEF Cells
<1>4. MapsHold(Top(r).ctx, Top(r).ctx.cc)
  <2>1. Depth(r) \in 1 .. Len(stack[r])
    BY <1>1 DEF Depth
  <2> QED BY <1>3, <2>1 DEF CellsOK, Top, Depth
<1>5. Top(r).ctx \in CircuitContext /\ Top(r).ctx.cc.addr \in Addr
  BY <1>1, CellsTyped, CallContextTyped DEF FrameOK, ContextOK
<1>6. Known(Top(r).ctx, Top(r).ctx.cc.addr) /\ Top(r).ctx.gasCosts[Top(r).ctx.cc.addr] \in Nat
  BY <1>1, <1>5 DEF FrameOK, ContextOK
<1> QED BY <1>2, <1>3, <1>4, <1>5, <1>6 DEF Home, Absent

-----------------------------------------------------------------------------
(* Shape by shape                                                           *)

(* The executing circuit goes on: only what its contract holds may change.  *)
LEMMA CellsGoOn ==
  ASSUME IInv, AInv, NEW r \in Runs, CellsOK(stack[r]),
         NEW ctx, NEW ppd, GoesOn(r, ctx, ppd),
         ctx.cc.addr = Top(r).ctx.cc.addr, MapsHold(ctx, ctx.cc),
         \A b \in Addr : b # ctx.cc.addr => AgreeOn(ctx, Top(r).ctx, b)
  PROVE  CellsOK(stack'[r])
<1> DEFINE s == stack[r]
           t == stack'[r]
           n == Depth(r)
<1>1. /\ status[r] = "running" /\ Len(t) = n
      /\ \A i \in 1 .. n - 1 : t[i] = s[i]
      /\ t[n].ctx = ctx /\ t[n].pc # "callee"
  BY DEF GoesOn, Goes
<1>2. n \in Nat \ {0} /\ n = Len(s) /\ n \in 1 .. n /\ s[n] = Top(r)
  BY <1>1, TopFacts DEF Depth, Top
<1>3. /\ \A i \in 1 .. n : Home(s[i]) \in Addr
      /\ \A i, j \in 1 .. n : i # j => Home(s[i]) # Home(s[j])
  BY <1>1, HomesApart
<1>4. Home(s[n]) = Top(r).ctx.cc.addr
  BY <1>1, <1>2, TopHolds
<1>5. Cells(t[n]) = ctx.cc /\ Home(t[n]) = Home(s[n])
  BY <1>1, <1>4 DEF Cells, Home
<1> HIDE DEF t, s, n
<1>6. \A i \in 1 .. n : i # n => t[i] = s[i] /\ i \in 1 .. n - 1
  BY <1>1, <1>2
<1>7. \A i \in 1 .. n : Home(t[i]) = Home(s[i])
  BY <1>5, <1>6
<1>8. Home(t[1]) = Entry
  BY <1>2, <1>7 DEF CellsOK, s
<1>9. \A i \in 1 .. n - 1 : Home(t[i + 1]) = t[i].callee
  <2> SUFFICES ASSUME NEW i \in 1 .. n - 1 PROVE Home(t[i + 1]) = t[i].callee
    OBVIOUS
  <2>1. i \in 1 .. n /\ i # n /\ i + 1 \in 1 .. n
    BY <1>2
  <2>2. Home(s[i + 1]) = s[i].callee
    BY <1>2 DEF CellsOK, s
  <2> QED BY <1>6, <1>7, <2>1, <2>2
<1>10. \A i \in 1 .. n : MapsHold(ctx, Cells(t[i]))
  <2> SUFFICES ASSUME NEW i \in 1 .. n PROVE MapsHold(ctx, Cells(t[i]))
    OBVIOUS
  <2>1. CASE i = n
    BY <1>5, <2>1
  <2>2. CASE i # n
    <3>1. MapsHold(Top(r).ctx, Cells(s[i]))
      BY <1>2 DEF CellsOK, s
    <3>2. AgreeOn(ctx, Top(r).ctx, Home(s[i]))
      BY <1>2, <1>3, <1>4, <2>2
    <3>3. MapsHold(ctx, Cells(s[i]))
      BY <3>1, <3>2, MapsHoldAgree DEF Home
    <3> QED BY <1>6, <2>2, <3>3
  <2> QED BY <2>1, <2>2
<1>11. CellsOK(t)
  BY <1>1, <1>8, <1>9, <1>10 DEF CellsOK
<1> QED BY <1>11 DEF t

LEMMA CellsIdle ==
  ASSUME IInv, AInv, NEW r \in Runs, CellsOK(stack[r]), Idles(r)
  PROVE  CellsOK(stack'[r])
<1>1. PICK ctx \in CircuitContext :
        /\ SameCells(ctx.cc, Top(r).ctx.cc) /\ SameMaps(ctx, Top(r).ctx)
        /\ GoesOn(r, ctx, Top(r).ppd)
  BY DEF Idles
<1>2. MapsHold(Top(r).ctx, Top(r).ctx.cc)
  BY <1>1, TopHolds DEF GoesOn, Goes
<1>3. MapsHold(ctx, ctx.cc) /\ ctx.cc.addr = Top(r).ctx.cc.addr
  BY <1>1, <1>2 DEF MapsHold, SameCells, SameMaps
<1>4. \A b \in Addr : AgreeOn(ctx, Top(r).ctx, b)
  BY <1>1 DEF AgreeOn, SameMaps
<1> QED BY <1>1, <1>3, <1>4, CellsGoOn

(* queryLedgerState moves cell and map together.                            *)
LEMMA QueriedHolds ==
  ASSUME NEW ctx \in CircuitContext, MapsHold(ctx, ctx.cc), ctx.gasCosts[ctx.cc.addr] # Absent,
         NEW ref, NEW cost \in Nat, NEW logs
  PROVE  LET q == Queried(ctx, ref, cost, logs)
         IN /\ q.cc.addr = ctx.cc.addr /\ MapsHold(q, q.cc)
            /\ \A b \in Addr : b # ctx.cc.addr => AgreeOn(q, ctx, b)
<1> DEFINE q == Queried(ctx, ref, cost, logs)
           a == ctx.cc.addr
<1>1. a \in Addr
  BY CellsTyped, CallContextTyped
<1>2. /\ q.cc.addr = a /\ q.cc.zs = ctx.cc.zs
      /\ q.cc.cur = ref /\ q.cc.gas = ctx.cc.gas + cost
      /\ \A b \in Addr :
           q.queryContexts[b] = IF b = a THEN ref ELSE ctx.queryContexts[b]
      /\ q.gasCosts[a] = ctx.gasCosts[a] + cost
      /\ \A b \in Addr : b # a => q.gasCosts[b] = ctx.gasCosts[b]
      /\ q.zswapLocalStates = ctx.zswapLocalStates
  BY QueriedFields
<1> HIDE DEF q
<1>3. MapsHold(q, q.cc)
  BY <1>1, <1>2 DEF MapsHold
<1>4. \A b \in Addr : b # a => AgreeOn(q, ctx, b)
  BY <1>2 DEF AgreeOn
<1> QED BY <1>2, <1>3, <1>4 DEF q

LEMMA CellsQuery ==
  ASSUME IInv, AInv, NEW r \in Runs, CellsOK(stack[r]), Queries(r)
  PROVE  CellsOK(stack'[r])
<1>1. PICK cost \in Nat, logs \in Seq(Addr) :
        GoesOn(r, Queried(Top(r).ctx, Fresh, cost, logs), [Top(r).ppd EXCEPT !.ops = @ + 1])
  BY DEF Queries
<1> DEFINE ctx == Queried(Top(r).ctx, Fresh, cost, logs)
           ppd == [Top(r).ppd EXCEPT !.ops = @ + 1]
<1>2. /\ MapsHold(Top(r).ctx, Top(r).ctx.cc) /\ Top(r).ctx \in CircuitContext
      /\ Top(r).ctx.gasCosts[Top(r).ctx.cc.addr] # Absent
  BY <1>1, TopHolds DEF GoesOn, Goes
<1>3. /\ ctx.cc.addr = Top(r).ctx.cc.addr /\ MapsHold(ctx, ctx.cc)
      /\ \A b \in Addr : b # ctx.cc.addr => AgreeOn(ctx, Top(r).ctx, b)
  BY <1>2, QueriedHolds
<1>4. GoesOn(r, ctx, ppd)
  BY <1>1
<1> HIDE DEF ctx, ppd
<1> QED BY <1>3, <1>4, CellsGoOn

LEMMA CellsOutput ==
  ASSUME IInv, AInv, NEW r \in Runs, CellsOK(stack[r]), Outputs(r)
  PROVE  CellsOK(stack'[r])
<1> DEFINE old == Top(r).ctx
           a == old.cc.addr
           ctx == WithOutput(old, Fresh)
<1>1. GoesOn(r, ctx, Top(r).ppd)
  BY DEF Outputs
<1>2. MapsHold(old, old.cc) /\ old \in CircuitContext /\ a \in Addr
  BY <1>1, TopHolds DEF GoesOn, Goes
<1>3. /\ ctx.cc.addr = a /\ ctx.cc.gas = old.cc.gas
      /\ ctx.cc.cur = Fresh /\ ctx.cc.zs = old.cc.zs + 1
      /\ \A b \in Addr :
           ctx.queryContexts[b] = IF b = a THEN Fresh ELSE old.queryContexts[b]
      /\ \A b \in Addr :
           ctx.zswapLocalStates[b] = IF b = a THEN old.cc.zs + 1 ELSE old.zswapLocalStates[b]
      /\ ctx.gasCosts = old.gasCosts
  BY <1>2, WithOutputFields
<1> HIDE DEF ctx
<1>4. MapsHold(ctx, ctx.cc)
  BY <1>2, <1>3 DEF MapsHold
<1>5. \A b \in Addr : b # ctx.cc.addr => AgreeOn(ctx, old, b)
  BY <1>3 DEF AgreeOn
<1> QED BY <1>1, <1>3, <1>4, <1>5, CellsGoOn

(* enterQueryContext and setupCallContext set what the callee's cells hold, *)
(* and nothing of any other contract.                                       *)
LEMMA CalleeContextHolds ==
  ASSUME NEW f \in Frame, f.callee \in Addr, NEW n \in Nat, n = Len(heap), ContextOK(f.ctx, n)
  PROVE  LET q == CalleeContext(f)
         IN /\ q.cc.addr = f.callee /\ MapsHold(q, q.cc)
            /\ q.cc.init = q.cc.cur /\ q.cc.cur = EnteredRef(f.ctx, f.callee)
            /\ q.cc.zs = IF f.ctx.zswapLocalStates[f.callee] = Absent THEN 0
                         ELSE f.ctx.zswapLocalStates[f.callee]
            /\ \A b \in Addr : b # f.callee => AgreeOn(q, f.ctx, b)
            /\ q.trace = f.ctx.trace
<1> DEFINE callee == f.callee
           e == EnterContext(f.ctx, callee)
           ref == EnteredRef(f.ctx, callee)
           q == SetupCallContext(e, callee, ref)
<1>1. f.ctx \in CircuitContext
  BY FrameTyped
<1>2. /\ e.queryContexts[callee] = ref
      /\ \A b \in Addr : b # callee =>
           /\ e.queryContexts[b] = f.ctx.queryContexts[b]
           /\ e.gasCosts[b] = f.ctx.gasCosts[b]
      /\ e.zswapLocalStates = f.ctx.zswapLocalStates
      /\ e.trace = f.ctx.trace
  BY <1>1, EnterFields
<1>3. e \in CircuitContext
  <2> DEFINE m == IF Known(f.ctx, callee) THEN n ELSE n + 1
  <2>1. m \in Nat
    OBVIOUS
  <2>2. m = IF Known(f.ctx, callee) THEN n ELSE n + 1
    OBVIOUS
  <2> HIDE DEF m
  <2>3. ContextOK(e, m)
    BY <2>1, <2>2, EnterContextOK
  <2> QED BY <2>3 DEF ContextOK
<1> HIDE DEF e, ref
<1>4. /\ q.cc.addr = callee /\ q.cc.init = ref /\ q.cc.cur = ref
      /\ q.cc.gas = e.gasCosts[callee]
      /\ q.cc.zs = IF e.zswapLocalStates[callee] = Absent THEN 0
                   ELSE e.zswapLocalStates[callee]
      /\ q.zswapLocalStates[callee] = q.cc.zs
      /\ \A b \in Addr : b # callee => q.zswapLocalStates[b] = e.zswapLocalStates[b]
      /\ q.queryContexts = e.queryContexts
      /\ q.gasCosts = e.gasCosts
      /\ q.trace = e.trace
  BY <1>3, SetupFields
<1> HIDE DEF q
<1>5. MapsHold(q, q.cc)
  BY <1>2, <1>4 DEF MapsHold
<1>6. \A b \in Addr : b # callee => AgreeOn(q, f.ctx, b)
  BY <1>2, <1>4 DEF AgreeOn
<1> QED BY <1>2, <1>4, <1>5, <1>6 DEF CalleeContext, q, e, ref

LEMMA CellsEnter ==
  ASSUME IInv, AInv, NEW r \in Runs, CellsOK(stack[r]), Enters(r)
  PROVE  CellsOK(stack'[r])
<1> DEFINE s == stack[r]
           t == stack'[r]
           n == Depth(r)
           f == Top(r)
           ctx == CalleeContext(f)
<1>1. /\ status[r] = "running" /\ f.pc \in Pending /\ Len(t) = n + 1
      /\ \A i \in 1 .. n - 1 : t[i] = s[i]
      /\ t[n].pc = "callee" /\ t[n].callee = f.callee /\ t[n].saved = f.ctx.cc
      /\ t[n + 1].pc = "run" /\ t[n + 1].ctx = ctx
  BY DEF Enters, Goes, Pending
<1>2. /\ n \in Nat \ {0} /\ n = Len(s) /\ n \in 1 .. n /\ s[n] = f
      /\ f \in Frame /\ FrameOK(f, Len(heap)) /\ Len(heap) \in Nat
  BY <1>1, TopFacts DEF Depth, Top
<1>3. /\ \A i \in 1 .. n : Home(s[i]) \in Addr
      /\ \A i \in 1 .. n : Home(s[i]) # f.callee
  BY <1>1, HomesApart
<1>4. Cells(f) = f.ctx.cc
  BY <1>1, TopHolds
<1>5. /\ ctx.cc.addr = f.callee /\ MapsHold(ctx, ctx.cc)
      /\ \A b \in Addr : b # f.callee => AgreeOn(ctx, f.ctx, b)
  BY <1>1, <1>2, CalleeContextHolds DEF FrameOK
<1>6. Cells(t[n]) = Cells(f) /\ Cells(t[n + 1]) = ctx.cc
  BY <1>1, <1>4 DEF Cells
<1> HIDE DEF t, s, n, ctx
<1>7. \A i \in 1 .. n : Cells(t[i]) = Cells(s[i]) /\ Home(t[i]) = Home(s[i])
  <2> SUFFICES ASSUME NEW i \in 1 .. n PROVE Cells(t[i]) = Cells(s[i])
    BY DEF Home
  <2>1. CASE i = n
    BY <1>2, <1>6, <2>1
  <2>2. CASE i # n
    BY <1>1, <1>2, <2>2
  <2> QED BY <2>1, <2>2
<1>8. Home(t[1]) = Entry
  BY <1>2, <1>7 DEF CellsOK, s
<1>9. \A i \in 1 .. n : Home(t[i + 1]) = t[i].callee
  <2> SUFFICES ASSUME NEW i \in 1 .. n PROVE Home(t[i + 1]) = t[i].callee
    OBVIOUS
  <2>1. CASE i = n
    BY <1>1, <1>5, <1>6, <2>1 DEF Home
  <2>2. CASE i # n
    <3>1. i \in 1 .. n - 1 /\ i + 1 \in 1 .. n
      BY <1>2, <2>2
    <3>2. Home(s[i + 1]) = s[i].callee
      BY <1>2, <3>1 DEF CellsOK, s
    <3> QED BY <1>1, <1>7, <3>1, <3>2
  <2> QED BY <2>1, <2>2
<1>10. \A i \in 1 .. n + 1 : MapsHold(ctx, Cells(t[i]))
  <2> SUFFICES ASSUME NEW i \in 1 .. n + 1 PROVE MapsHold(ctx, Cells(t[i]))
    OBVIOUS
  <2>1. CASE i = n + 1
    BY <1>5, <1>6, <2>1
  <2>2. CASE i # n + 1
    <3>1. i \in 1 .. n
      BY <1>2, <2>2
    <3>2. MapsHold(f.ctx, Cells(s[i]))
      BY <1>2, <3>1 DEF CellsOK, s
    <3>3. AgreeOn(ctx, f.ctx, Home(s[i]))
      BY <1>3, <1>5, <3>1
    <3>4. MapsHold(ctx, Cells(s[i]))
      BY <3>2, <3>3, MapsHoldAgree DEF Home
    <3> QED BY <1>7, <3>1, <3>4
  <2> QED BY <2>1, <2>2
<1>11. CellsOK(t)
  <2>1. \A i \in 1 .. (n + 1) - 1 : i \in 1 .. n
    BY <1>2
  <2> QED BY <1>1, <1>8, <1>9, <1>10, <2>1 DEF CellsOK
<1> QED BY <1>11 DEF t

(* The caller's cells are as its snapshot left them, the maps as the callee *)
(* left them: they agree because no circuit on the stack touched the maps   *)
(* of any contract but its own.                                             *)
LEMMA CellsReturn ==
  ASSUME IInv, AInv, NEW r \in Runs, CellsOK(stack[r]), Returns(r)
  PROVE  CellsOK(stack'[r])
<1> DEFINE s == stack[r]
           t == stack'[r]
           n == Depth(r)
           k == n - 1
           f == s[k]
           back == ReturnedContext(r, f)
           old == Top(r).ctx
<1>1. PICK cost \in Nat : t[k].ctx = Queried(back, Fresh, cost, <<>>)
  BY DEF Returns
<1> DEFINE ctx == Queried(back, Fresh, cost, <<>>)
<1>2. /\ status[r] = "running" /\ n > 1 /\ Len(t) = n - 1
      /\ \A i \in 1 .. n - 2 : t[i] = s[i]
      /\ t[k].pc # "callee" /\ t[k].ctx = ctx
  BY <1>1 DEF Returns, Goes
<1>3. /\ n \in Nat /\ n = Len(s) /\ k \in Nat \ {0} /\ n = k + 1 /\ n - 2 = k - 1
      /\ FrameOK(Top(r), Len(heap)) /\ Len(heap) \in Nat /\ s[n] = Top(r)
  BY <1>2, TopFacts DEF Depth, Top
<1>4. /\ f.pc = "callee" /\ f.saved \in CallContext /\ f.saved.addr \in Addr
      /\ Known(old, f.saved.addr)
  BY <1>2, CallerFacts
<1>5. Cells(f) = f.saved /\ Home(f) = f.saved.addr
  BY <1>4 DEF Cells, Home
<1>6. /\ \A i \in 1 .. n : Home(s[i]) \in Addr
      /\ \A i, j \in 1 .. n : i # j => Home(s[i]) # Home(s[j])
  BY <1>2, HomesApart
<1>7. back.cc = f.saved /\ SameMaps(back, old)
  BY <1>3, ReturnedFields
<1>8. back \in CircuitContext /\ back.gasCosts[f.saved.addr] # Absent
  <2>1. old \in CircuitContext /\ ContextOK(old, Len(heap))
    BY <1>3 DEF FrameOK, ContextOK
  <2>2. old.gasCosts[f.saved.addr] \in Nat
    BY <1>4, <2>1 DEF ContextOK
  <2>3. back \in CircuitContext
    BY <1>2, <1>3, ReturnedTyped
  <2> QED BY <1>7, <2>2, <2>3 DEF SameMaps, Absent
<1> HIDE DEF back, old, f, t, s, n, k
<1>9. \A i \in 1 .. n : MapsHold(old, Cells(s[i]))
  BY <1>3 DEF CellsOK, s, old, Top, Depth, n
<1>10. MapsHold(back, back.cc)
  <2>1. k \in 1 .. n
    BY <1>3
  <2>2. MapsHold(old, f.saved)
    BY <1>5, <1>9, <2>1 DEF f
  <2> QED BY <1>7, <2>2 DEF MapsHold, SameMaps
<1>11. /\ ctx.cc.addr = f.saved.addr /\ MapsHold(ctx, ctx.cc)
       /\ \A b \in Addr : b # f.saved.addr => AgreeOn(ctx, back, b)
  BY <1>7, <1>8, <1>10, QueriedHolds
<1> HIDE DEF ctx
<1>12. Cells(t[k]) = ctx.cc /\ Home(t[k]) = Home(s[k])
  BY <1>2, <1>5, <1>11 DEF Cells, Home, f
<1>13. \A i \in 1 .. k : i # k => t[i] = s[i] /\ i \in 1 .. k - 1
  BY <1>2, <1>3
<1>14. \A i \in 1 .. k : Home(t[i]) = Home(s[i])
  BY <1>12, <1>13
<1>15. Home(t[1]) = Entry
  BY <1>3, <1>14 DEF CellsOK, s
<1>16. \A i \in 1 .. k - 1 : Home(t[i + 1]) = t[i].callee
  <2> SUFFICES ASSUME NEW i \in 1 .. k - 1 PROVE Home(t[i + 1]) = t[i].callee
    OBVIOUS
  <2>1. i \in 1 .. k /\ i # k /\ i + 1 \in 1 .. k /\ i \in 1 .. n - 1
    BY <1>3
  <2>2. Home(s[i + 1]) = s[i].callee
    BY <1>3, <2>1 DEF CellsOK, s
  <2> QED BY <1>13, <1>14, <2>1, <2>2
<1>17. \A i \in 1 .. k : MapsHold(ctx, Cells(t[i]))
  <2> SUFFICES ASSUME NEW i \in 1 .. k PROVE MapsHold(ctx, Cells(t[i]))
    OBVIOUS
  <2>1. CASE i = k
    BY <1>11, <1>12, <2>1
  <2>2. CASE i # k
    <3>1. i \in 1 .. n /\ k \in 1 .. n
      BY <1>3
    <3>2. MapsHold(back, Cells(s[i]))
      BY <1>7, <1>9, <3>1 DEF MapsHold, SameMaps
    <3>3. Home(s[i]) \in Addr /\ Home(s[i]) # f.saved.addr
      BY <1>5, <1>6, <2>2, <3>1 DEF f
    <3>4. MapsHold(ctx, Cells(s[i]))
      BY <1>11, <3>2, <3>3, MapsHoldAgree DEF Home
    <3> QED BY <1>13, <2>2, <3>4
  <2> QED BY <2>1, <2>2
<1>18. CellsOK(t)
  BY <1>2, <1>3, <1>15, <1>16, <1>17 DEF CellsOK
<1> QED BY <1>18 DEF t

LEMMA CellsStart ==
  ASSUME CInv, NEW r \in Runs, Starts(r)
  PROVE  CellsOK(stack'[r])
<1> DEFINE t == stack'[r]
<1>1. Len(t) = 1 /\ t[1].ctx \in HeldContexts /\ t[1].pc = "run"
  BY DEF Starts
<1>2. t[1].ctx.cc.addr = Entry /\ MapsHold(t[1].ctx, t[1].ctx.cc)
  <2>1. CASE t[1].ctx = InitialContext
    BY <2>1, EntryAssumption DEF InitialContext, MapsHold
  <2>2. CASE \E q \in Runs : t[1].ctx = result[q]
    BY <2>2 DEF CInv
  <2> QED BY <1>1, <2>1, <2>2 DEF HeldContexts
<1>3. Cells(t[1]) = t[1].ctx.cc
  BY <1>1 DEF Cells
<1> HIDE DEF t
<1>4. CellsOK(t)
  BY <1>1, <1>2, <1>3 DEF CellsOK, Home
<1> QED BY <1>4 DEF t

LEMMA CellsFinish ==
  ASSUME IInv, NEW r \in Runs, CellsOK(stack[r]), Finishes(r)
  PROVE  result'[r].cc.addr = Entry /\ MapsHold(result'[r], result'[r].cc)
<1>1. status[r] = "running" /\ Depth(r) = 1 /\ result'[r] = Finalize(Top(r).ctx, Top(r).ppd)
  BY DEF Finishes
<1>2. /\ Home(Top(r)) = Top(r).ctx.cc.addr
      /\ MapsHold(Top(r).ctx, Top(r).ctx.cc) /\ Top(r).ctx \in CircuitContext
  BY <1>1, TopHolds
<1>3. Home(Top(r)) = Entry
  BY <1>1 DEF CellsOK, Top
<1>4. result'[r].cc = Top(r).ctx.cc /\ SameMaps(result'[r], Top(r).ctx)
  BY <1>1, <1>2, FinalizeFields
<1> QED BY <1>2, <1>3, <1>4 DEF MapsHold, SameMaps

-----------------------------------------------------------------------------
(* The theorem                                                              *)

LEMMA InitCInv == Init => CInv
<1> SUFFICES ASSUME Init PROVE CInv
  OBVIOUS
<1>1. InitialContext.cc.addr = Entry /\ MapsHold(InitialContext, InitialContext.cc)
  BY EntryAssumption DEF InitialContext, MapsHold
<1> QED BY <1>1 DEF CInv, Init

LEMMA NextCInv == IInv /\ AInv /\ CInv /\ [Next]_vars => CInv'
<1> SUFFICES ASSUME IInv, AInv, CInv, [Next]_vars PROVE CInv'
  OBVIOUS
<1>1. CASE UNCHANGED vars
  BY <1>1 DEF vars, CInv
<1>2. CASE Next
  <2>1. PICK r \in Runs : Step(r)
    BY <1>2 DEF Next
  <2>2. IInv'
    BY NextIInv
  <2>3. /\ OthersRest(r)
        /\ \/ Starts(r) \/ Finishes(r) \/ Fails(r)
           \/ Idles(r) \/ Queries(r) \/ Outputs(r) \/ Enters(r) \/ Returns(r)
    BY <2>1, <2>2, Shapes
  <2>4. status'[r] = "running" => CellsOK(stack'[r])
    <3>1. CASE Starts(r)
      BY <3>1, CellsStart
    <3>2. CASE Finishes(r) \/ Fails(r)
      BY <3>2 DEF Finishes, Fails, Goes
    <3>3. CASE Idles(r) \/ Queries(r) \/ Outputs(r) \/ Enters(r) \/ Returns(r)
      <4>1. status[r] = "running"
        BY <3>3 DEF Idles, Queries, Outputs, Enters, Returns, GoesOn, Goes
      <4>2. CellsOK(stack[r])
        BY <4>1 DEF CInv
      <4> QED BY <3>3, <4>2, CellsIdle, CellsQuery, CellsOutput, CellsEnter, CellsReturn
    <3> QED BY <2>3, <3>1, <3>2, <3>3
  <2>5. result'[r].cc.addr = Entry /\ MapsHold(result'[r], result'[r].cc)
    <3>1. CASE Finishes(r)
      <4>1. CellsOK(stack[r])
        BY <3>1 DEF CInv, Finishes
      <4> QED BY <3>1, <4>1, CellsFinish
    <3>2. CASE result'[r] = result[r]
      BY <3>2 DEF CInv
    <3> QED BY <2>3, <3>1, <3>2
            DEF Starts, Fails, Idles, Queries, Outputs, Enters, Returns, GoesOn, Goes
  <2>6. \A q \in Runs : q # r =>
          /\ status'[q] = "running" => CellsOK(stack'[q])
          /\ result'[q].cc.addr = Entry /\ MapsHold(result'[q], result'[q].cc)
    BY <2>3 DEF OthersRest, CInv
  <2>7. \A q \in Runs :
          /\ status'[q] = "running" => CellsOK(stack'[q])
          /\ result'[q].cc.addr = Entry /\ MapsHold(result'[q], result'[q].cc)
    BY <2>4, <2>5, <2>6
  <2>8. CInv'
    BY <2>7 DEF CInv
  <2> QED BY <2>8
<1> QED BY <1>1, <1>2

(* Over every nesting of calls, failure, catch and overlapping run: the     *)
(* per-address maps of the innermost context of a run that has not failed   *)
(* hold the cells of every contract on its call stack, so the context that  *)
(* restoreCircuitContext hands back needs no re-pointing.                   *)
THEOREM CellsFollowMaps == Spec => []CellsAliasMaps
<1>1. CInv => CellsAliasMaps
  BY DEF CInv, CellsOK, CellsAliasMaps, Sound, Top, Depth
<1> QED BY InitIInv, NextIInv, InitAInv, NextAInv, InitCInv, NextCInv, <1>1, PTL DEF Spec
=============================================================================
