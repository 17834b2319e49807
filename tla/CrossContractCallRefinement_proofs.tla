------------------ MODULE CrossContractCallRefinement_proofs ------------------
(***************************************************************************)
(* CrossContractCall implements CallTransaction, for any contracts, runs,  *)
(* costs and bounds, with runs that overlap, resume and catch.  Each shape *)
(* of a step (CrossContractCall_proofs) is one step of the                 *)
(* transaction or leaves its view alone:                                   *)
(*                                                                         *)
(*   Starts   Begin        Queries  Op        Returns   Return             *)
(*   Idles    a stutter    Outputs  Output    Finishes  Commit             *)
(*                         Enters   Call      Fails     Abort or a stutter *)
(***************************************************************************)
EXTENDS CrossContractCallRefinement, CrossContractCallTraces_proofs

-----------------------------------------------------------------------------
(* What the mapping needs besides the invariants of the other theorems: the *)
(* entry contract's deployed state is version 0, a run that did not end     *)
(* well still shows the context it was created with, and a contract that is *)
(* not known has no cost.                                                   *)

GasKnown(ctx) == \A a \in Addr : ~Known(ctx, a) => ctx.gasCosts[a] = Absent

WInv ==
  /\ heap[1].data = 0
  /\ \A r \in Runs : status[r] # "done" => result[r] = InitialContext
  /\ \A r \in Runs : GasKnown(result[r])
  /\ \A r \in Runs : status[r] = "running" => GasKnown(Top(r).ctx)

LEMMA GasSame ==
  ASSUME NEW c, NEW d, SameMaps(c, d), GasKnown(d)
  PROVE  GasKnown(c)
BY DEF SameMaps, GasKnown, Known

LEMMA GasQueried ==
  ASSUME NEW ctx \in CircuitContext, GasKnown(ctx), NEW ref \in Nat \ {0}, NEW cost, NEW logs
  PROVE  GasKnown(Queried(ctx, ref, cost, logs))
<1> DEFINE q == Queried(ctx, ref, cost, logs)
           a == ctx.cc.addr
<1>1. /\ \A b \in Addr : q.queryContexts[b] = IF b = a THEN ref ELSE ctx.queryContexts[b]
      /\ \A b \in Addr : b # a => q.gasCosts[b] = ctx.gasCosts[b]
  BY QueriedFields
<1> HIDE DEF q, a
<1>2. GasKnown(q)
  BY <1>1 DEF GasKnown, Known, NoRef
<1> QED BY <1>2 DEF q

LEMMA GasOutput ==
  ASSUME NEW ctx \in CircuitContext, GasKnown(ctx), NEW ref \in Nat \ {0}
  PROVE  GasKnown(WithOutput(ctx, ref))
<1> DEFINE q == WithOutput(ctx, ref)
           a == ctx.cc.addr
<1>1. /\ \A b \in Addr : q.queryContexts[b] = IF b = a THEN ref ELSE ctx.queryContexts[b]
      /\ q.gasCosts = ctx.gasCosts
  BY WithOutputFields
<1> HIDE DEF q, a
<1>2. GasKnown(q)
  BY <1>1 DEF GasKnown, Known, NoRef
<1> QED BY <1>2 DEF q

(* What is known of the callee's context once it is entered.                *)
LEMMA CalleeKnown ==
  ASSUME IInv, NEW r \in Runs, Enters(r)
  PROVE  LET f == Top(r)
             q == CalleeContext(f)
         IN /\ Known(q, f.callee)
            /\ q.queryContexts[f.callee] = EnteredRef(f.ctx, f.callee)
            /\ \A b \in Addr : b # f.callee => AgreeOn(q, f.ctx, b)
<1> DEFINE f == Top(r)
           q == CalleeContext(f)
           c == f.callee
<1>1. /\ status[r] = "running" /\ f.pc \in Pending
  BY DEF Enters, Goes, Pending
<1>2. /\ heap \in Seq(Object) /\ Len(heap) \in Nat /\ f \in Frame
      /\ ContextOK(f.ctx, Len(heap)) /\ c \in Addr
  BY <1>1, RunningRefs
<1>3. /\ q.cc.addr = c /\ MapsHold(q, q.cc)
      /\ q.cc.cur = EnteredRef(f.ctx, c)
      /\ \A b \in Addr : b # c => AgreeOn(q, f.ctx, b)
  BY <1>2, CalleeContextHolds
<1>4. EnteredRef(f.ctx, c) # NoRef
  BY <1>2 DEF EnteredRef, Known, Fresh, NoRef
<1> HIDE DEF q, f, c
<1>5. q.queryContexts[c] = EnteredRef(f.ctx, c) /\ Known(q, c)
  BY <1>3, <1>4 DEF MapsHold, Known
<1> QED BY <1>3, <1>5 DEF q, f, c

LEMMA GasGoesOn ==
  ASSUME IInv, WInv, NEW r \in Runs,
         Idles(r) \/ Queries(r) \/ Outputs(r) \/ Enters(r) \/ Returns(r)
  PROVE  GasKnown(Top(r).ctx')
<1> DEFINE old == Top(r).ctx
<1>1. /\ status[r] = "running" /\ GasKnown(old) /\ old \in CircuitContext
      /\ Fresh \in Nat \ {0}
  <2>1. status[r] = "running"
    BY DEF Idles, Queries, Outputs, Enters, Returns, GoesOn, Goes
  <2> QED BY <2>1, RunningRefs DEF WInv, ContextOK, Fresh
<1>2. CASE Idles(r)
  <2>1. PICK ctx : SameMaps(ctx, old) /\ GoesOn(r, ctx, Top(r).ppd)
    BY <1>2 DEF Idles
  <2>2. Top(r).ctx' = ctx
    BY <2>1 DEF GoesOn, Top, Depth
  <2> QED BY <1>1, <2>1, <2>2, GasSame
<1>3. CASE Queries(r)
  <2>1. PICK cost \in Nat, logs \in Seq(Addr) :
          GoesOn(r, Queried(old, Fresh, cost, logs), [Top(r).ppd EXCEPT !.ops = @ + 1])
    BY <1>3 DEF Queries
  <2>2. Top(r).ctx' = Queried(old, Fresh, cost, logs)
    BY <2>1 DEF GoesOn, Top, Depth
  <2> HIDE DEF old
  <2> QED BY <1>1, <2>2, GasQueried
<1>4. CASE Outputs(r)
  <2>1. Top(r).ctx' = WithOutput(old, Fresh)
    BY <1>4 DEF Outputs, GoesOn, Top, Depth
  <2> HIDE DEF old
  <2> QED BY <1>1, <2>1, GasOutput
<1>5. CASE Enters(r)
  <2> DEFINE q == CalleeContext(Top(r))
             c == Top(r).callee
  <2>1. Top(r).ctx' = q
    BY <1>5 DEF Enters, Top, Depth
  <2>2. Known(q, c) /\ \A b \in Addr : b # c => AgreeOn(q, old, b)
    BY <1>5, CalleeKnown
  <2> HIDE DEF q, c, old
  <2>3. GasKnown(q)
    BY <1>1, <2>2 DEF GasKnown, AgreeOn, Known
  <2> QED BY <2>1, <2>3
<1>6. CASE Returns(r)
  <2> DEFINE k == Depth(r) - 1
             back == ReturnedContext(r, stack[r][k])
  <2>1. PICK cost \in Nat : stack'[r][k].ctx = Queried(back, Fresh, cost, <<>>)
    BY <1>6 DEF Returns
  <2>2. Len(stack'[r]) = k /\ Depth(r) > 1
    BY <1>6 DEF Returns
  <2>3. Top(r).ctx' = Queried(back, Fresh, cost, <<>>)
    BY <2>1, <2>2 DEF Top, Depth
  <2>4. SameMaps(back, old) /\ back \in CircuitContext
    BY <1>1, <2>2, TopFacts, ReturnedFields, ReturnedTyped
  <2>5. GasKnown(back)
    BY <1>1, <2>4, GasSame
  <2> HIDE DEF back
  <2> QED BY <1>1, <2>3, <2>4, <2>5, GasQueried
<1> QED BY <1>2, <1>3, <1>4, <1>5, <1>6

LEMMA InitialGas == GasKnown(InitialContext)
BY DEF GasKnown, Known, InitialContext, NoRef, Absent

LEMMA InitWInv == Init => WInv
BY InitialGas DEF Init, WInv

LEMMA NextWInv == IInv /\ WInv /\ [Next]_vars => WInv'
<1> SUFFICES ASSUME IInv, WInv, [Next]_vars PROVE WInv'
  OBVIOUS
<1>1. CASE UNCHANGED vars
  BY <1>1 DEF vars, WInv, Top, Depth
<1>2. CASE Next
  <2>1. PICK r \in Runs : Step(r)
    BY <1>2 DEF Next
  <2>2. IInv' /\ Len(heap) \in Nat /\ 1 \in 1 .. Len(heap)
    BY NextIInv, LenProperties DEF IInv
  <2>3. /\ OthersRest(r)
        /\ \/ Starts(r) \/ Finishes(r) \/ Fails(r)
           \/ Idles(r) \/ Queries(r) \/ Outputs(r) \/ Enters(r) \/ Returns(r)
    BY <2>1, <2>2, Shapes
  <2>4. Keeps(heap', heap)
    BY <2>3, ShapesKeep
  <2>5. heap'[1].data = 0
    BY <2>2, <2>4 DEF Keeps, WInv
  <2>6. /\ status'[r] # "done" => result'[r] = InitialContext
        /\ GasKnown(result'[r])
        /\ status'[r] = "running" => GasKnown(Top(r).ctx')
    <3>1. CASE Finishes(r)
      <4>1. /\ status[r] = "running" /\ result'[r] = Finalize(Top(r).ctx, Top(r).ppd)
            /\ status'[r] = "done"
        BY <3>1 DEF Finishes
      <4>2. SameMaps(result'[r], Top(r).ctx)
        BY <4>1, RunningRefs, FinalizeFields DEF ContextOK
      <4>3. GasKnown(result'[r])
        BY <4>1, <4>2, GasSame DEF WInv
      <4> QED BY <4>1, <4>3
    <3>2. CASE Starts(r)
      <4>1. /\ status[r] = "idle" /\ result'[r] = result[r]
            /\ Top(r).ctx' \in HeldContexts
        BY <3>2 DEF Starts, Goes, Top, Depth
      <4> QED BY <4>1, InitialGas DEF HeldContexts, WInv
    <3>3. CASE Fails(r)
      BY <3>3 DEF Fails, Goes, WInv
    <3>4. CASE Idles(r) \/ Queries(r) \/ Outputs(r) \/ Enters(r) \/ Returns(r)
      <4>1. status[r] = "running" /\ result'[r] = result[r]
        BY <3>4 DEF Idles, Queries, Outputs, Enters, Returns, GoesOn, Goes
      <4> QED BY <3>4, <4>1, GasGoesOn DEF WInv
    <3> QED BY <2>3, <3>1, <3>2, <3>3, <3>4
  <2>7. \A q \in Runs : q # r => result'[q] = result[q] /\ status'[q] = status[q]
                                  /\ Top(q).ctx' = Top(q).ctx
    BY <2>3 DEF OthersRest, Top, Depth
  <2>8. \A q \in Runs : /\ status'[q] # "done" => result'[q] = InitialContext
                        /\ GasKnown(result'[q])
                        /\ status'[q] = "running" => GasKnown(Top(q).ctx')
    BY <2>6, <2>7 DEF WInv
  <2> QED BY <2>5, <2>8 DEF WInv, GasKnown, Known
<1> QED BY <1>1, <1>2

-----------------------------------------------------------------------------
(* The view of a context over a given heap, and the views there are.        *)

DataAt(h, ctx) ==
  [a \in Addr |-> IF Known(ctx, a) THEN h[ctx.queryContexts[a]].data ELSE Absent]

CallOf(e) == [addr |-> e.addr, ops |-> e.ops, claims |-> e.claims]

CallsIn(trace) == [k \in 1 .. Len(trace) |-> CallOf(trace[k])]

ViewAt(h, ctx) ==
  [data |-> DataAt(h, ctx), coins |-> ctx.zswapLocalStates, gas |-> ctx.gasCosts,
   events |-> ctx.events, trace |-> CallsIn(ctx.trace)]

NestedCall == [addr : Addr, ops : Nat, claims : SUBSET Nat]

View == [data : [Addr -> Int], coins : [Addr -> Int], gas : [Addr -> Int],
         events : Seq(Addr), trace : Seq(NestedCall)]

LEMMA CallTyped ==
  ASSUME NEW e \in CallProofData
  PROVE  CallOf(e) \in NestedCall
BY DEF CallProofData, CallOf, NestedCall

LEMMA CallsInTyped ==
  ASSUME NEW trace \in Seq(CallProofData)
  PROVE  /\ CallsIn(trace) \in Seq(NestedCall)
         /\ Len(CallsIn(trace)) = Len(trace)
         /\ \A k \in 1 .. Len(trace) : CallsIn(trace)[k] = CallOf(trace[k])
<1>1. Len(trace) \in Nat /\ \A k \in 1 .. Len(trace) : trace[k] \in CallProofData
  BY LenProperties, ElementOfSeq
<1>2. \A k \in 1 .. Len(trace) : CallOf(trace[k]) \in NestedCall
  BY <1>1, CallTyped
<1> QED BY <1>1, <1>2, IsASeq DEF CallsIn

LEMMA ViewTyped ==
  ASSUME NEW h \in Seq(Object), NEW ctx, ContextOK(ctx, Len(h))
  PROVE  ViewAt(h, ctx) \in View
<1>1. ctx \in CircuitContext /\ Len(h) \in Nat
  BY LenProperties DEF ContextOK
<1>2. DataAt(h, ctx) \in [Addr -> Int]
  <2> SUFFICES ASSUME NEW a \in Addr, Known(ctx, a)
               PROVE  h[ctx.queryContexts[a]].data \in Int
    BY DEF DataAt, Absent
  <2>1. ctx.queryContexts[a] \in 1 .. Len(h)
    BY <1>1 DEF ContextOK, Known, NoRef
  <2> HIDE DEF Known
  <2>2. h[ctx.queryContexts[a]] \in Object
    BY <2>1, ElementOfSeq
  <2> QED BY <2>2 DEF Object
<1>3. /\ ctx.zswapLocalStates \in [Addr -> Int] /\ ctx.gasCosts \in [Addr -> Int]
      /\ ctx.events \in Seq(Addr) /\ CallsIn(ctx.trace) \in Seq(NestedCall)
  BY <1>1, CellsTyped, CallsInTyped DEF Absent
<1> QED BY <1>2, <1>3 DEF ViewAt, View

(* Objects keep their data, so a context keeps its view while others work.  *)
LEMMA ViewKept ==
  ASSUME heap \in Seq(Object), NEW ctx, ContextOK(ctx, Len(heap)), Keeps(heap', heap)
  PROVE  ViewAt(heap', ctx) = ViewAt(heap, ctx)
<1>1. \A a \in Addr : Known(ctx, a) =>
        heap'[ctx.queryContexts[a]].data = heap[ctx.queryContexts[a]].data
  BY LenProperties DEF ContextOK, Known, NoRef, Keeps
<1>2. DataAt(heap', ctx) = DataAt(heap, ctx)
  BY <1>1 DEF DataAt
<1> QED BY <1>2 DEF ViewAt

(* The contract whose object a step replaced.                               *)
LEMMA DataMoved ==
  ASSUME heap \in Seq(Object), NEW ctx, ContextOK(ctx, Len(heap)), Keeps(heap', heap),
         Fresh \in 1 .. Len(heap'), NEW a \in Addr, Known(ctx, a),
         NEW q, \A b \in Addr : q.queryContexts[b] = IF b = a THEN Fresh
                                                     ELSE ctx.queryContexts[b],
         NEW d \in {0, 1}, heap'[Fresh].data = heap[ctx.queryContexts[a]].data + d
  PROVE  /\ DataAt(heap', q) = [DataAt(heap, ctx) EXCEPT ![a] = DataAt(heap, ctx)[a] + d]
         /\ d = 0 => DataAt(heap', q) = DataAt(heap, ctx)
<1> DEFINE old == DataAt(heap, ctx)
           new == DataAt(heap', q)
<1>1. Fresh # NoRef
  BY DEF NoRef
<1>2. DOMAIN old = Addr /\ old \in [Addr -> Int]
  BY ViewTyped DEF View, ViewAt, DataAt
<1>3. new[a] = old[a] + d
  BY <1>1 DEF DataAt, Known
<1>4. ASSUME NEW b \in Addr, b # a PROVE new[b] = old[b]
  <2>1. q.queryContexts[b] = ctx.queryContexts[b]
    BY <1>4
  <2>2. CASE Known(ctx, b)
    <3>1. ctx.queryContexts[b] \in 1 .. Len(heap)
      BY <2>2, LenProperties DEF ContextOK, Known, NoRef
    <3> QED BY <2>1, <2>2, <3>1 DEF Keeps, DataAt, Known
  <2>3. CASE ~Known(ctx, b)
    BY <2>1, <2>3 DEF DataAt, Known
  <2> QED BY <2>2, <2>3
<1>5. new = [b \in Addr |-> new[b]]
  BY DEF DataAt
<1> HIDE DEF old, new
<1>6. new = [old EXCEPT ![a] = old[a] + d]
  BY <1>2, <1>3, <1>4, <1>5
<1>7. d = 0 => new = old
  BY <1>2, <1>3, <1>4, <1>5
<1> QED BY <1>6, <1>7 DEF old, new

(* What the helpers do to the event log.                                    *)
LEMMA EventsFields ==
  ASSUME NEW ctx \in CircuitContext
  PROVE  /\ \A ref, cost, logs : Queried(ctx, ref, cost, logs).events = ctx.events \o logs
         /\ \A ref : WithOutput(ctx, ref).events = ctx.events
         /\ \A ppd : Finalize(ctx, ppd).events = ctx.events
         /\ \A saved : RestoreCircuitContext(ctx, saved).events = ctx.events
         /\ \A c : EnterContext(ctx, c).events = ctx.events
         /\ \A c, ref : SetupCallContext(ctx, c, ref).events = ctx.events
<1>1. \A ref, cost, logs : Queried(ctx, ref, cost, logs).events = ctx.events \o logs
  BY DEF CircuitContext, Queried
<1>2. \A ref : WithOutput(ctx, ref).events = ctx.events
  BY DEF CircuitContext, WithOutput
<1>3. \A ppd : Finalize(ctx, ppd).events = ctx.events
  BY DEF CircuitContext, Finalize
<1>4. \A saved : RestoreCircuitContext(ctx, saved).events = ctx.events
  BY DEF CircuitContext, RestoreCircuitContext
<1>5. \A c : EnterContext(ctx, c).events = ctx.events
  BY DEF CircuitContext, EnterContext
<1>6. \A c, ref : SetupCallContext(ctx, c, ref).events = ctx.events
  BY DEF CircuitContext, SetupCallContext
<1> QED BY <1>1, <1>2, <1>3, <1>4, <1>5, <1>6

(* A trace that a finished call ends.                                       *)
LEMMA CallsInExtended ==
  ASSUME NEW old \in Seq(CallProofData), NEW tr \in Seq(CallProofData),
         NEW ctx, NEW ppd, EndsWith(tr, old, ctx, ppd)
  PROVE  CallsIn(tr) = Append(CallsIn(old), [addr |-> ctx.cc.addr, ops |-> ppd.ops,
                                             claims |-> ppd.claims])
<1> DEFINE n == Len(old)
           e == [addr |-> ctx.cc.addr, ops |-> ppd.ops, claims |-> ppd.claims]
           c == CallsIn(old)
           d == CallsIn(tr)
<1>1. /\ n \in Nat /\ Len(tr) = n + 1 /\ CallOf(tr[n + 1]) = e
      /\ \A k \in 1 .. n : tr[k] = old[k]
  BY LenProperties DEF EndsWith, CallOf
<1>2. /\ c \in Seq(NestedCall) /\ d \in Seq(NestedCall) /\ Len(c) = n /\ Len(d) = n + 1
      /\ \A k \in 1 .. n : c[k] = CallOf(old[k])
      /\ \A k \in 1 .. n + 1 : d[k] = CallOf(tr[k])
  BY <1>1, CallsInTyped
<1>3. e \in NestedCall
  <2>1. tr[n + 1] \in CallProofData
    BY <1>1, ElementOfSeq
  <2> QED BY <1>1, <2>1, CallTyped
<1> HIDE DEF c, d, e, n
<1>4. /\ Append(c, e) \in Seq(NestedCall) /\ Len(Append(c, e)) = n + 1
      /\ Append(c, e)[n + 1] = e /\ \A k \in 1 .. n : Append(c, e)[k] = c[k]
  BY <1>2, <1>3, AppendProperties
<1>5. \A k \in 1 .. n + 1 : Append(c, e)[k] = d[k]
  BY <1>1, <1>2, <1>4
<1>6. d = Append(c, e)
  BY <1>2, <1>4, <1>5, SeqEqual
<1> QED BY <1>6 DEF c, d, e

-----------------------------------------------------------------------------
(* What the run sees after each shape of a step                             *)

OpView(x, a, cost) ==
  [data |-> [x.data EXCEPT ![a] = x.data[a] + 1], coins |-> x.coins,
   gas |-> [x.gas EXCEPT ![a] = x.gas[a] + cost], events |-> Append(x.events, a),
   trace |-> x.trace]

OutputView(x, a) ==
  [data |-> x.data, coins |-> [x.coins EXCEPT ![a] = x.coins[a] + 1], gas |-> x.gas,
   events |-> x.events, trace |-> x.trace]

Touched(m, a) == [m EXCEPT ![a] = IF @ = -1 THEN 0 ELSE @]

EnterView(x, a) ==
  [data |-> Touched(x.data, a), coins |-> Touched(x.coins, a), gas |-> Touched(x.gas, a),
   events |-> x.events, trace |-> x.trace]

ReturnView(x, a, cost, call) ==
  [data |-> x.data, coins |-> x.coins, gas |-> [x.gas EXCEPT ![a] = x.gas[a] + cost],
   events |-> x.events, trace |-> Append(x.trace, call)]

CommitView(x, call) ==
  [data |-> x.data, coins |-> x.coins, gas |-> x.gas, events |-> x.events,
   trace |-> Append(x.trace, call)]

LEMMA QueryViewed ==
  ASSUME IInv, CInv, NEW r \in Runs, Queries(r)
  PROVE  LET a == Top(r).ctx.cc.addr
             v == ViewAt(heap, Top(r).ctx)
         IN \E cost \in Costs :
              cost <= GasLimit /\ ViewAt(heap', Top(r).ctx') = OpView(v, a, cost)
<1> DEFINE old == Top(r).ctx
           a == old.cc.addr
           ref == old.cc.cur
           object == [heap[ref] EXCEPT !.data = @ + 1, !.effects = @ + 1]
           v == ViewAt(heap, old)
<1>1. PICK cost \in Costs, logs \in Seq(Addr) :
        /\ cost <= GasLimit /\ logs = <<a>>
        /\ GoesOn(r, Queried(old, Fresh, cost, logs), [Top(r).ppd EXCEPT !.ops = @ + 1])
  BY DEF Queries
<1> DEFINE q == Queried(old, Fresh, cost, logs)
<1>2. status[r] = "running" /\ Top(r).ctx' = q
  BY <1>1 DEF GoesOn, Goes, Top, Depth
<1>3. /\ heap \in Seq(Object) /\ Len(heap) \in Nat /\ ref \in 1 .. Len(heap)
      /\ ContextOK(old, Len(heap)) /\ old \in CircuitContext
  BY <1>2, RunningRefs DEF ContextOK
<1>4. object \in Object /\ object.data = heap[ref].data + 1
  BY <1>3, MovedObject
<1>5. Allocate(object)
  BY DEF Queries
<1> HIDE DEF object
<1>6. heap'[Fresh] = object /\ Fresh \in 1 .. Len(heap') /\ Keeps(heap', heap)
  BY <1>3, <1>4, <1>5, Allocated
<1>7. /\ old.queryContexts[a] = ref /\ old.gasCosts[a] # Absent
      /\ Known(old, a) /\ a \in Addr
  BY <1>2, TopHolds DEF CInv, MapsHold
<1> HIDE DEF old
<1>8. /\ \A b \in Addr : q.queryContexts[b] = IF b = a THEN Fresh ELSE old.queryContexts[b]
      /\ q.gasCosts[a] = old.gasCosts[a] + cost
      /\ \A b \in Addr : b # a => q.gasCosts[b] = old.gasCosts[b]
      /\ q.zswapLocalStates = old.zswapLocalStates
      /\ q.trace = old.trace
  BY <1>3, <1>7, QueriedFields
<1>9. q.events = old.events \o logs
  BY <1>3, EventsFields
<1>10. q.gasCosts \in [Addr -> Nat \cup {Absent}]
  <2>1. cost \in Nat
    BY CostAssumption
  <2>2. ContextOK(q, Len(heap) + 1)
    BY <1>3, <2>1, QueriedOK DEF Fresh
  <2> QED BY <2>2, CellsTyped DEF ContextOK
<1> HIDE DEF q, a, ref
<1>11. q.gasCosts = [old.gasCosts EXCEPT ![a] = old.gasCosts[a] + cost]
  BY <1>3, <1>8, <1>10, CellsTyped
<1>12. q.events = Append(old.events, a)
  BY <1>1, <1>3, <1>7, <1>9, CellsTyped
<1>13. DataAt(heap', q) = [DataAt(heap, old) EXCEPT ![a] = DataAt(heap, old)[a] + 1]
  BY <1>3, <1>4, <1>6, <1>7, <1>8, DataMoved
<1>14. ViewAt(heap', q) =
         [data |-> [v.data EXCEPT ![a] = v.data[a] + 1], coins |-> v.coins,
          gas |-> [v.gas EXCEPT ![a] = v.gas[a] + cost],
          events |-> Append(v.events, a), trace |-> v.trace]
  BY <1>8, <1>11, <1>12, <1>13 DEF ViewAt
<1> QED BY <1>1, <1>2, <1>14 DEF old, a, OpView

LEMMA OutputViewed ==
  ASSUME IInv, CInv, NEW r \in Runs, Outputs(r)
  PROVE  LET a == Top(r).ctx.cc.addr
             v == ViewAt(heap, Top(r).ctx)
         IN ViewAt(heap', Top(r).ctx') = OutputView(v, a)
<1> DEFINE old == Top(r).ctx
           a == old.cc.addr
           ref == old.cc.cur
           object == [heap[ref] EXCEPT !.com = @ + 1]
           v == ViewAt(heap, old)
           q == WithOutput(old, Fresh)
<1>1. status[r] = "running" /\ Top(r).ctx' = q
  BY DEF Outputs, GoesOn, Goes, Top, Depth
<1>2. /\ heap \in Seq(Object) /\ Len(heap) \in Nat /\ ref \in 1 .. Len(heap)
      /\ ContextOK(old, Len(heap)) /\ old \in CircuitContext
  BY <1>1, RunningRefs DEF ContextOK
<1>3. object \in Object /\ object.data = heap[ref].data /\ heap[ref].data \in Nat
  BY <1>2, MovedObject
<1>4. Allocate(object)
  BY DEF Outputs
<1> HIDE DEF object
<1>5. heap'[Fresh] = object /\ Fresh \in 1 .. Len(heap') /\ Keeps(heap', heap)
  BY <1>2, <1>3, <1>4, Allocated
<1>6. /\ old.queryContexts[a] = ref /\ old.zswapLocalStates[a] = old.cc.zs
      /\ Known(old, a) /\ a \in Addr
  BY <1>1, TopHolds DEF CInv, MapsHold
<1>7. /\ \A b \in Addr : q.queryContexts[b] = IF b = a THEN Fresh ELSE old.queryContexts[b]
      /\ \A b \in Addr :
           q.zswapLocalStates[b] = IF b = a THEN old.cc.zs + 1 ELSE old.zswapLocalStates[b]
      /\ q.gasCosts = old.gasCosts
      /\ q.trace = old.trace /\ q.events = old.events
  BY <1>2, WithOutputFields, EventsFields
<1>8. q.zswapLocalStates \in [Addr -> Nat \cup {Absent}]
  BY <1>2, WithOutputOK, CellsTyped DEF ContextOK, Fresh
<1> HIDE DEF q, a, ref
<1>9. q.zswapLocalStates = [old.zswapLocalStates EXCEPT ![a] = old.zswapLocalStates[a] + 1]
  <2>1. PICK y \in [Addr -> Nat \cup {Absent}] : y = old.zswapLocalStates
    BY <1>2, CellsTyped
  <2>2. PICK z \in [Addr -> Nat \cup {Absent}] : z = q.zswapLocalStates
    BY <1>8
  <2>3. \A b \in Addr : z[b] = IF b = a THEN y[a] + 1 ELSE y[b]
    BY <1>6, <1>7, <2>1, <2>2
  <2>4. z = [y EXCEPT ![a] = y[a] + 1]
    BY <2>3
  <2> QED BY <2>1, <2>2, <2>4
<1> HIDE DEF old
<1>10. heap'[Fresh].data = heap[old.queryContexts[a]].data + 0
  BY <1>3, <1>5, <1>6
<1>11. DataAt(heap', q) = DataAt(heap, old)
  BY <1>2, <1>5, <1>6, <1>7, <1>10, DataMoved
<1>12. ViewAt(heap', q) =
         [data |-> v.data, coins |-> [v.coins EXCEPT ![a] = v.coins[a] + 1],
          gas |-> v.gas, events |-> v.events, trace |-> v.trace]
  BY <1>7, <1>9, <1>11 DEF ViewAt
<1> QED BY <1>1, <1>12 DEF old, a, OutputView

(* enterQueryContext and setupCallContext touch the callee's cost and coins. *)
LEMMA CalleeFields ==
  ASSUME NEW f \in Frame, f.callee \in Addr, NEW n \in Nat, n = Len(heap), ContextOK(f.ctx, n)
  PROVE  LET q == CalleeContext(f)
             old == f.ctx
             c == f.callee
         IN /\ q.gasCosts = IF Known(old, c) THEN old.gasCosts
                            ELSE [old.gasCosts EXCEPT ![c] = 0]
            /\ q.zswapLocalStates =
                 [old.zswapLocalStates EXCEPT ![c] = IF @ = Absent THEN 0 ELSE @]
            /\ q.events = old.events
<1> DEFINE old == f.ctx
           c == f.callee
           e == EnterContext(old, c)
           m == IF Known(old, c) THEN n ELSE n + 1
           ref == EnteredRef(old, c)
           q == SetupCallContext(e, c, ref)
<1>1. old \in CircuitContext
  BY DEF ContextOK
<1>2. e \in CircuitContext
  <2>1. m \in Nat /\ m = IF Known(old, c) THEN n ELSE n + 1
    OBVIOUS
  <2> HIDE DEF m
  <2>2. ContextOK(e, m)
    BY <2>1, EnterContextOK
  <2> QED BY <2>2 DEF ContextOK
<1>3. e.gasCosts = IF Known(old, c) THEN old.gasCosts ELSE [old.gasCosts EXCEPT ![c] = 0]
  BY <1>1 DEF EnterContext, CircuitContext
<1>4. e.zswapLocalStates = old.zswapLocalStates /\ e.events = old.events
  BY <1>1, EnterFields, EventsFields
<1> HIDE DEF e, old, c, ref
<1>5. /\ q.gasCosts = e.gasCosts
      /\ q.zswapLocalStates =
           [e.zswapLocalStates EXCEPT ![c] = IF @ = Absent THEN 0 ELSE @]
      /\ q.events = e.events
  BY <1>2 DEF SetupCallContext, CircuitContext
<1> HIDE DEF q
<1> QED BY <1>3, <1>4, <1>5 DEF CalleeContext, q, e, ref, old, c

LEMMA EnterViewed ==
  ASSUME IInv, WInv, NEW r \in Runs, Enters(r)
  PROVE  LET c == Top(r).callee
             v == ViewAt(heap, Top(r).ctx)
         IN ViewAt(heap', Top(r).ctx') = EnterView(v, c)
<1> DEFINE f == Top(r)
           old == f.ctx
           c == f.callee
           q == CalleeContext(f)
           v == ViewAt(heap, old)
           Touch(m) == [m EXCEPT ![c] = IF @ = -1 THEN 0 ELSE @]
<1>1. /\ status[r] = "running" /\ f.pc \in Pending /\ EnterHeap(old, c)
      /\ Top(r).ctx' = q
  BY DEF Enters, Goes, Pending, Top, Depth
<1>2. /\ heap \in Seq(Object) /\ Len(heap) \in Nat /\ f \in Frame
      /\ ContextOK(old, Len(heap)) /\ c \in Addr /\ old \in CircuitContext
  BY <1>1, RunningRefs DEF ContextOK
<1>3. Keeps(heap', heap) /\ (~Known(old, c) => heap'[Fresh].data = 0)
  BY <1>1, <1>2, EnterHeapKeeps
<1>4. /\ q.gasCosts = IF Known(old, c) THEN old.gasCosts ELSE [old.gasCosts EXCEPT ![c] = 0]
      /\ q.zswapLocalStates = [old.zswapLocalStates EXCEPT ![c] = IF @ = Absent THEN 0 ELSE @]
      /\ q.events = old.events
  BY <1>2, CalleeFields
<1>5. /\ Known(q, c) /\ q.queryContexts[c] = EnteredRef(old, c)
      /\ \A b \in Addr : b # c => AgreeOn(q, old, b)
  BY CalleeKnown
<1>6. q.trace = old.trace
  BY <1>2, CalleeContextHolds
<1>7. v \in View
  BY <1>2, ViewTyped
<1>8. /\ Known(old, c) => old.gasCosts[c] \in Nat
      /\ ~Known(old, c) => old.gasCosts[c] = Absent
  BY <1>1, <1>2 DEF ContextOK, WInv, GasKnown
<1>9. old.gasCosts \in [Addr -> Nat \cup {Absent}]
  BY <1>2, CellsTyped
<1> HIDE DEF q, c, old
<1>10. q.gasCosts = Touch(old.gasCosts)
  <2>1. CASE Known(old, c)
    BY <1>4, <1>8, <1>9, <2>1
  <2>2. CASE ~Known(old, c)
    BY <1>4, <1>8, <1>9, <2>2 DEF Absent
  <2> QED BY <2>1, <2>2
<1>11. DataAt(heap', q) = Touch(DataAt(heap, old))
  <2> DEFINE d == DataAt(heap, old)
             e == DataAt(heap', q)
  <2>1. d \in [Addr -> Int]
    BY <1>7 DEF View, ViewAt
  <2>2. e[c] = IF d[c] = -1 THEN 0 ELSE d[c]
    <3>1. e[c] = heap'[EnteredRef(old, c)].data
      BY <1>2, <1>5 DEF DataAt
    <3>2. CASE Known(old, c)
      <4> DEFINE ref == old.queryContexts[c]
      <4>1. ref \in 1 .. Len(heap) /\ d[c] = heap[ref].data
        BY <1>2, <3>2 DEF ContextOK, Known, NoRef, DataAt
      <4> HIDE DEF ref, d
      <4>2. heap[ref].data \in Nat /\ heap'[ref].data = heap[ref].data
        BY <1>2, <1>3, <4>1, MovedObject DEF Keeps
      <4>3. e[c] = heap'[ref].data
        BY <3>1, <3>2 DEF EnteredRef, ref
      <4> QED BY <4>1, <4>2, <4>3
    <3>3. CASE ~Known(old, c)
      <4>1. d[c] = -1
        BY <1>2, <3>3 DEF DataAt, Absent
      <4>2. e[c] = 0
        BY <1>3, <3>1, <3>3 DEF EnteredRef
      <4> QED BY <4>1, <4>2
    <3> QED BY <3>2, <3>3
  <2>3. ASSUME NEW b \in Addr, b # c PROVE e[b] = d[b]
    <3>1. q.queryContexts[b] = old.queryContexts[b]
      BY <1>5, <2>3 DEF AgreeOn
    <3>2. CASE Known(old, b)
      <4>1. old.queryContexts[b] \in 1 .. Len(heap)
        BY <1>2, <3>2 DEF ContextOK, Known, NoRef
      <4> QED BY <1>3, <3>1, <3>2, <4>1 DEF Keeps, DataAt, Known
    <3>3. CASE ~Known(old, b)
      BY <3>1, <3>3 DEF DataAt, Known
    <3> QED BY <3>2, <3>3
  <2>4. e = [b \in Addr |-> e[b]]
    BY DEF DataAt
  <2> HIDE DEF d, e
  <2>5. e = Touch(d)
    BY <1>2, <2>1, <2>2, <2>3, <2>4
  <2> QED BY <2>5 DEF d, e
<1>12. q.zswapLocalStates = Touch(old.zswapLocalStates)
  BY <1>4 DEF Absent
<1>13. ViewAt(heap', q) =
         [data |-> Touch(v.data), coins |-> Touch(v.coins), gas |-> Touch(v.gas),
          events |-> v.events, trace |-> v.trace]
  BY <1>4, <1>6, <1>10, <1>11, <1>12 DEF ViewAt
<1> QED BY <1>1, <1>13 DEF old, c, EnterView, Touched

LEMMA ReturnViewed ==
  ASSUME IInv, CInv, NEW r \in Runs, Returns(r)
  PROVE  LET a == Home(stack[r][Depth(r) - 1])
             v == ViewAt(heap, Top(r).ctx)
             call == [addr |-> Home(Top(r)), ops |-> Top(r).ppd.ops,
                      claims |-> Top(r).ppd.claims]
         IN \E cost \in Costs :
              cost <= GasLimit /\ ViewAt(heap', Top(r).ctx') = ReturnView(v, a, cost, call)
<1> DEFINE k == Depth(r) - 1
           f == stack[r][k]
           a == f.saved.addr
           old == Top(r).ctx
           back == ReturnedContext(r, f)
           ref == f.saved.cur
           object == [heap[ref] EXCEPT !.effects = @ + 1]
           call == [addr |-> old.cc.addr, ops |-> Top(r).ppd.ops,
                    claims |-> Top(r).ppd.claims]
           v == ViewAt(heap, old)
<1>1. PICK cost \in Costs :
        cost <= GasLimit /\ stack'[r][k].ctx = Queried(back, Fresh, cost, <<>>)
  BY DEF Returns
<1>2. PICK logs \in Seq(Addr) : logs = <<>>
  <2>1. <<>> \in Seq(Addr)
    OBVIOUS
  <2> QED BY <2>1, Zenon
<1> DEFINE q == Queried(back, Fresh, cost, logs)
<1>3. /\ status[r] = "running" /\ Depth(r) > 1 /\ Len(stack'[r]) = k
      /\ Allocate(object)
  BY DEF Returns, Goes
<1>4. Top(r).ctx' = q
  BY <1>1, <1>2, <1>3 DEF Top, Depth
<1>5. /\ heap \in Seq(Object) /\ Len(heap) \in Nat /\ ref \in 1 .. Len(heap)
      /\ ContextOK(old, Len(heap)) /\ FrameOK(Top(r), Len(heap))
      /\ old \in CircuitContext /\ Top(r).ppd \in ProofData
  BY <1>3, RunningRefs DEF ContextOK
<1>6. /\ f.pc = "callee" /\ Known(old, a) /\ a \in Addr /\ k \in Nat \ {0}
  BY <1>3, CallerFacts
<1>7. Cells(f) = f.saved /\ Home(f) = a
  BY <1>6 DEF Cells, Home
<1>8. old.queryContexts[a] = ref
  <2>1. k \in 1 .. Depth(r)
    BY <1>3, <1>6, TopFacts
  <2>2. MapsHold(old, f.saved)
    BY <1>3, <1>7, <2>1 DEF CInv, CellsOK, Top, Depth
  <2> QED BY <2>2 DEF MapsHold
<1>9. object \in Object /\ object.data = heap[ref].data /\ heap[ref].data \in Nat
  BY <1>5, MovedObject
<1> HIDE DEF object
<1>10. heap'[Fresh] = object /\ Fresh \in 1 .. Len(heap') /\ Keeps(heap', heap)
  BY <1>3, <1>5, <1>9, Allocated
<1>11. back.cc = f.saved /\ SameMaps(back, old) /\ back \in CircuitContext
  BY <1>3, <1>5, ReturnedFields, ReturnedTyped
<1>12. Home(Top(r)) = old.cc.addr
  BY <1>3, TopHolds DEF CInv
<1>13. CallsIn(back.trace) = Append(CallsIn(old.trace), call)
  <2>1. back.trace \in Seq(CallProofData) /\ old.trace \in Seq(CallProofData)
    BY <1>5, <1>11, CellsTyped
  <2>2. EndsWith(back.trace, old.trace, old, Top(r).ppd)
    BY <1>3, ReturnedEnds
  <2> HIDE DEF back, old
  <2> QED BY <2>1, <2>2, CallsInExtended
<1>14. back.events = old.events
  <2>1. Finalize(old, Top(r).ppd) \in CircuitContext
    BY <1>5, FinalizeOK DEF ContextOK
  <2>2. Finalize(old, Top(r).ppd).events = old.events
    BY <1>5, EventsFields
  <2> QED BY <2>1, <2>2, EventsFields DEF ReturnedContext
<1>15. /\ back.queryContexts = old.queryContexts /\ back.gasCosts = old.gasCosts
       /\ back.zswapLocalStates = old.zswapLocalStates
  BY <1>11 DEF SameMaps
<1>16. old.gasCosts[a] # Absent
  BY <1>5, <1>6 DEF ContextOK, Absent
<1> HIDE DEF back, old, f
<1>17. /\ \A b \in Addr : q.queryContexts[b] = IF b = a THEN Fresh ELSE old.queryContexts[b]
       /\ q.zswapLocalStates = old.zswapLocalStates
       /\ q.trace = back.trace
  BY <1>11, <1>15, QueriedFields
<1>18. q.gasCosts = [old.gasCosts EXCEPT ![a] = old.gasCosts[a] + cost]
  BY <1>11, <1>15, <1>16 DEF Queried, CircuitContext
<1>19. q.events = old.events
  <2>1. q.events = back.events \o logs /\ back.events \in Seq(Addr)
    BY <1>11, EventsFields, CellsTyped
  <2> HIDE DEF q
  <2> QED BY <1>2, <1>14, <2>1, ConcatEmptySeq
<1> HIDE DEF q, a, ref, call
<1>20. heap'[Fresh].data = heap[old.queryContexts[a]].data + 0
  BY <1>8, <1>9, <1>10
<1>21. DataAt(heap', q) = DataAt(heap, old)
  BY <1>5, <1>6, <1>10, <1>17, <1>20, DataMoved
<1>22. ViewAt(heap', q) =
         [data |-> v.data, coins |-> v.coins,
          gas |-> [v.gas EXCEPT ![a] = v.gas[a] + cost],
          events |-> v.events, trace |-> Append(v.trace, call)]
  BY <1>13, <1>17, <1>18, <1>19, <1>21 DEF ViewAt
<1> QED BY <1>1, <1>4, <1>7, <1>12, <1>22 DEF old, f, a, call, ReturnView

LEMMA FinishViewed ==
  ASSUME IInv, CInv, NEW r \in Runs, Finishes(r)
  PROVE  LET v == ViewAt(heap, Top(r).ctx)
             call == [addr |-> Home(Top(r)), ops |-> Top(r).ppd.ops,
                      claims |-> Top(r).ppd.claims]
         IN ViewAt(heap', result'[r]) = CommitView(v, call)
<1> DEFINE old == Top(r).ctx
           ppd == Top(r).ppd
           q == Finalize(old, ppd)
           v == ViewAt(heap, old)
           call == [addr |-> old.cc.addr, ops |-> ppd.ops, claims |-> ppd.claims]
<1>1. status[r] = "running" /\ heap' = heap /\ result'[r] = q
  BY DEF Finishes
<1>2. /\ ContextOK(old, Len(heap)) /\ Len(heap) \in Nat /\ ppd \in ProofData
      /\ old \in CircuitContext
  BY <1>1, RunningRefs DEF ContextOK
<1>3. q \in CircuitContext /\ SameMaps(q, old) /\ q.events = old.events
  BY <1>2, FinalizeOK, FinalizeFields, EventsFields DEF ContextOK
<1>4. EndsWith(q.trace, old.trace, old, ppd)
  BY <1>1, FinishedEnds
<1>5. q.trace \in Seq(CallProofData) /\ old.trace \in Seq(CallProofData)
  BY <1>2, <1>3, CellsTyped
<1>6. Home(Top(r)) = old.cc.addr
  BY <1>1, TopHolds DEF CInv
<1> HIDE DEF q, old, ppd
<1>7. CallsIn(q.trace) = Append(CallsIn(old.trace), call)
  BY <1>4, <1>5, CallsInExtended
<1> HIDE DEF call
<1>8. ViewAt(heap', q) =
        [data |-> v.data, coins |-> v.coins, gas |-> v.gas,
         events |-> v.events, trace |-> Append(v.trace, call)]
  BY <1>1, <1>3, <1>7 DEF ViewAt, DataAt, SameMaps, Known
<1> QED BY <1>1, <1>6, <1>8 DEF old, ppd, call, CommitView

LEMMA IdleViewed ==
  ASSUME NEW r \in Runs, Idles(r)
  PROVE  ViewAt(heap', Top(r).ctx') = ViewAt(heap, Top(r).ctx)
<1> DEFINE old == Top(r).ctx
<1>1. PICK ctx : /\ SameMaps(ctx, old) /\ ctx.trace = old.trace /\ ctx.events = old.events
                 /\ GoesOn(r, ctx, Top(r).ppd)
  BY DEF Idles
<1>2. Top(r).ctx' = ctx /\ heap' = heap
  BY <1>1 DEF Idles, GoesOn, Top, Depth
<1> HIDE DEF old
<1>3. ViewAt(heap, ctx) = ViewAt(heap, old)
  BY <1>1 DEF ViewAt, DataAt, SameMaps, Known
<1> QED BY <1>2, <1>3 DEF old

-----------------------------------------------------------------------------
(* Changing one entry of a map of calls or of views                         *)

(* What the steps of CallTransaction do to the calls and to the views.      *)
OpCounted(c, r) == [c EXCEPT ![r][Len(c[r])].ops = @ + 1]

CallClaimed(c, r, n, place) ==
  [c EXCEPT ![r] = Append(SubSeq(@, 1, n - 2), [c[r][n - 1] EXCEPT !.claims = @ \cup {place}])]

Claimed(e, place) ==
  [addr |-> e.addr, ops |-> e.ops, claims |-> e.claims \cup {place}]

OpSeen(v, r, a, cost) ==
  [v EXCEPT ![r].data[a] = @ + 1, ![r].gas[a] = @ + cost, ![r].events = Append(@, a)]

OutputSeen(v, r, a) == [v EXCEPT ![r].coins[a] = @ + 1]

CallSeen(v, r, a) ==
  [v EXCEPT ![r].data = Touched(@, a), ![r].coins = Touched(@, a), ![r].gas = Touched(@, a)]

ReturnSeen(v, r, a, cost, call) ==
  [v EXCEPT ![r].trace = Append(@, call), ![r].gas[a] = @ + cost]

CommitSeen(v, r, call) == [v EXCEPT ![r].trace = Append(@, call)]

LEMMA CallFields ==
  ASSUME NEW e \in NestedCall, NEW x
  PROVE  /\ [e EXCEPT !.ops = x] = [addr |-> e.addr, ops |-> x, claims |-> e.claims]
         /\ [e EXCEPT !.claims = x] = [addr |-> e.addr, ops |-> e.ops, claims |-> x]
<1>1. [e EXCEPT !.ops = x] = [addr |-> e.addr, ops |-> x, claims |-> e.claims]
  BY DEF NestedCall
<1>2. [e EXCEPT !.claims = x] = [addr |-> e.addr, ops |-> e.ops, claims |-> x]
  BY DEF NestedCall
<1> QED BY <1>1, <1>2

(* A sequence of calls that differs from another in its last one.           *)
LEMMA LastCall ==
  ASSUME NEW s \in Seq(NestedCall), NEW t \in Seq(NestedCall), NEW k \in 1 .. Len(s),
         Len(t) = Len(s), \A i \in 1 .. Len(s) : i # k => t[i] = s[i]
  PROVE  t = [s EXCEPT ![k] = t[k]]
<1>1. t[k] \in NestedCall
  BY ElementOfSeq
<1>2. PICK e \in NestedCall : e = t[k]
  BY <1>1
<1>3. /\ [s EXCEPT ![k] = e] \in Seq(NestedCall) /\ Len([s EXCEPT ![k] = e]) = Len(s)
      /\ \A i \in 1 .. Len(s) : [s EXCEPT ![k] = e][i] = IF i = k THEN e ELSE s[i]
  BY ExceptSeq
<1>4. \A i \in 1 .. Len(s) : t[i] = IF i = k THEN e ELSE s[i]
  BY <1>2
<1>5. t = [s EXCEPT ![k] = e]
  BY <1>3, <1>4, SeqEqual
<1> QED BY <1>2, <1>5

LEMMA OpCalls ==
  ASSUME NEW c \in [Runs -> Seq(NestedCall)], NEW d \in [Runs -> Seq(NestedCall)],
         NEW r \in Runs, \A q \in Runs : q # r => d[q] = c[q],
         NEW k \in Nat, k = Len(c[r]), k > 0, Len(d[r]) = k,
         \A i \in 1 .. k - 1 : d[r][i] = c[r][i],
         d[r][k] = [addr |-> c[r][k].addr, ops |-> c[r][k].ops + 1, claims |-> c[r][k].claims]
  PROVE  d = OpCounted(c, r)
<1>1. PICK s \in Seq(NestedCall) : s = c[r]
  OBVIOUS
<1>2. PICK t \in Seq(NestedCall) : t = d[r]
  OBVIOUS
<1>3. s[k] \in NestedCall
  BY <1>1, LenProperties, ElementOfSeq
<1>4. PICK e : e = [s[k] EXCEPT !.ops = s[k].ops + 1]
  OBVIOUS
<1>5. e = [addr |-> s[k].addr, ops |-> s[k].ops + 1, claims |-> s[k].claims]
  BY <1>3, <1>4, CallFields
<1>6. t[k] = e
  BY <1>1, <1>2, <1>5
<1>7. t = [s EXCEPT ![k] = e]
  <2>1. Len(t) = Len(s) /\ k \in 1 .. Len(s) /\ \A i \in 1 .. Len(s) : i # k => t[i] = s[i]
    BY <1>1, <1>2
  <2>2. t = [s EXCEPT ![k] = t[k]]
    BY <2>1, LastCall
  <2> QED BY <1>6, <2>2
<1>8. d = [c EXCEPT ![r] = t]
  BY <1>2
<1> QED BY <1>1, <1>4, <1>7, <1>8, Zenon DEF OpCounted

LEMMA ReturnCalls ==
  ASSUME NEW c \in [Runs -> Seq(NestedCall)], NEW d \in [Runs -> Seq(NestedCall)],
         NEW r \in Runs, \A q \in Runs : q # r => d[q] = c[q],
         Len(c[r]) > 1, Len(d[r]) = Len(c[r]) - 1,
         \A i \in 1 .. Len(c[r]) - 2 : d[r][i] = c[r][i], NEW place,
         d[r][Len(c[r]) - 1] = Claimed(c[r][Len(c[r]) - 1], place)
  PROVE  d = CallClaimed(c, r, Len(c[r]), place)
<1>1. PICK n \in Nat : n = Len(c[r]) /\ n > 1
  BY LenProperties
<1>2. PICK s \in Seq(NestedCall) : s = c[r]
  OBVIOUS
<1>3. PICK t \in Seq(NestedCall) : t = d[r]
  OBVIOUS
<1>4. /\ n \in Nat /\ n - 1 \in 1 .. Len(s) /\ n - 2 \in 0 .. Len(s)
      /\ n - 1 \in 1 .. Len(t)
  BY <1>1, <1>2, <1>3, LenProperties
<1>5. s[n - 1] \in NestedCall /\ t[n - 1] \in NestedCall
  BY <1>4, ElementOfSeq
<1>6. PICK x : x = s[n - 1].claims \cup {place}
  OBVIOUS
<1>7. PICK e : e = [s[n - 1] EXCEPT !.claims = x]
  OBVIOUS
<1>8. e = [addr |-> s[n - 1].addr, ops |-> s[n - 1].ops, claims |-> x]
  BY <1>5, <1>7, CallFields
<1>9. t[n - 1] = e /\ e \in NestedCall
  BY <1>1, <1>2, <1>3, <1>5, <1>6, <1>8 DEF Claimed
<1>10. PICK b : b = SubSeq(s, 1, n - 2)
  OBVIOUS
<1>11. b \in Seq(NestedCall) /\ Len(b) = n - 2 /\ \A i \in 1 .. n - 2 : b[i] = s[i]
  <2>1. PICK m : m = n - 2 /\ m \in Int
    <3>1. n - 2 \in Int
      BY <1>4
    <3> QED BY <3>1
  <2>2. \A i \in 1 .. m : s[i] \in NestedCall
    BY <1>4, <2>1, ElementOfSeq
  <2>3. /\ SubSeq(s, 1, m) \in Seq(NestedCall)
        /\ Len(SubSeq(s, 1, m)) = IF 1 <= m THEN m - 1 + 1 ELSE 0
        /\ \A i \in 1 .. m - 1 + 1 : SubSeq(s, 1, m)[i] = s[1 + i - 1]
    BY <2>1, <2>2, SubSeqProperties
  <2>4. m >= 0 /\ m - 1 + 1 = m /\ \A i \in 1 .. m : 1 + i - 1 = i
    BY <1>4, <2>1
  <2>5. Len(SubSeq(s, 1, m)) = m
    BY <2>3, <2>4
  <2>6. \A i \in 1 .. m : SubSeq(s, 1, m)[i] = s[i]
    BY <2>3, <2>4
  <2> QED BY <1>10, <2>1, <2>3, <2>5, <2>6
<1>12. /\ Append(b, e) \in Seq(NestedCall) /\ Len(Append(b, e)) = n - 1
       /\ Append(b, e)[n - 1] = e /\ \A i \in 1 .. n - 2 : Append(b, e)[i] = b[i]
  <2>1. n - 2 + 1 = n - 1
    BY <1>4
  <2> QED BY <1>9, <1>11, <2>1, AppendProperties
<1>13. t = Append(b, e)
  <2>1. Len(t) = n - 1 /\ \A i \in 1 .. n - 2 : t[i] = s[i]
    BY <1>1, <1>2, <1>3
  <2>2. \A i \in 1 .. n - 1 : i = n - 1 \/ i \in 1 .. n - 2
    BY <1>4
  <2>3. \A i \in 1 .. n - 1 : t[i] = Append(b, e)[i]
    BY <1>9, <1>11, <1>12, <2>1, <2>2
  <2> QED BY <1>4, <1>12, <2>1, <2>3, SeqEqual
<1>14. d = [c EXCEPT ![r] = t]
  BY <1>3
<1>15. e = [c[r][n - 1] EXCEPT !.claims = c[r][n - 1].claims \cup {place}]
  BY <1>2, <1>6, <1>7, Zenon
<1>16. b = SubSeq(c[r], 1, n - 2)
  BY <1>2, <1>10, Zenon
<1>17. Append(b, e) = Append(SubSeq(c[r], 1, n - 2),
                             [c[r][n - 1] EXCEPT !.claims = c[r][n - 1].claims \cup {place}])
  BY <1>15, <1>16, Zenon
<1>18. d = [c EXCEPT ![r] = Append(SubSeq(c[r], 1, n - 2),
              [c[r][n - 1] EXCEPT !.claims = c[r][n - 1].claims \cup {place}])]
  BY <1>13, <1>14, <1>17, Zenon
<1> QED BY <1>1, <1>18, Zenon DEF CallClaimed

LEMMA ViewFields ==
  ASSUME NEW v \in View
  PROVE  /\ v.data \in [Addr -> Int] /\ v.coins \in [Addr -> Int] /\ v.gas \in [Addr -> Int]
         /\ v.events \in Seq(Addr) /\ v.trace \in Seq(NestedCall)
         /\ v = [data |-> v.data, coins |-> v.coins, gas |-> v.gas,
                 events |-> v.events, trace |-> v.trace]
BY DEF View

LEMMA ViewSet ==
  ASSUME NEW d, NEW c, NEW g, NEW e, NEW t, NEW v,
         v = [data |-> d, coins |-> c, gas |-> g, events |-> e, trace |-> t], NEW x
  PROVE  /\ [v EXCEPT !.data = x] =
              [data |-> x, coins |-> c, gas |-> g, events |-> e, trace |-> t]
         /\ [v EXCEPT !.coins = x] =
              [data |-> d, coins |-> x, gas |-> g, events |-> e, trace |-> t]
         /\ [v EXCEPT !.gas = x] =
              [data |-> d, coins |-> c, gas |-> x, events |-> e, trace |-> t]
         /\ [v EXCEPT !.events = x] =
              [data |-> d, coins |-> c, gas |-> g, events |-> x, trace |-> t]
         /\ [v EXCEPT !.trace = x] =
              [data |-> d, coins |-> c, gas |-> g, events |-> e, trace |-> x]
<1>1. [v EXCEPT !.data = x] = [data |-> x, coins |-> c, gas |-> g, events |-> e, trace |-> t]
  OBVIOUS
<1>2. [v EXCEPT !.coins = x] = [data |-> d, coins |-> x, gas |-> g, events |-> e, trace |-> t]
  OBVIOUS
<1>3. [v EXCEPT !.gas = x] = [data |-> d, coins |-> c, gas |-> x, events |-> e, trace |-> t]
  OBVIOUS
<1>4. [v EXCEPT !.events = x] = [data |-> d, coins |-> c, gas |-> g, events |-> x, trace |-> t]
  OBVIOUS
<1>5. [v EXCEPT !.trace = x] = [data |-> d, coins |-> c, gas |-> g, events |-> e, trace |-> x]
  OBVIOUS
<1> QED BY <1>1, <1>2, <1>3, <1>4, <1>5

LEMMA OpShown ==
  ASSUME NEW v \in [Runs -> View], NEW w \in [Runs -> View],
         NEW r \in Runs, \A q \in Runs : q # r => w[q] = v[q], NEW a \in Addr, NEW cost,
         w[r] = OpView(v[r], a, cost)
  PROVE  w = OpSeen(v, r, a, cost)
<1>1. PICK x \in View : x = v[r]
  OBVIOUS
<1>2. PICK d : d = [x.data EXCEPT ![a] = x.data[a] + 1]
  OBVIOUS
<1>3. PICK g : g = [x.gas EXCEPT ![a] = x.gas[a] + cost]
  OBVIOUS
<1>4. PICK e : e = Append(x.events, a)
  OBVIOUS
<1>5. PICK x1 : x1 = [x EXCEPT !.data = d]
  OBVIOUS
<1>6. x1 = [data |-> d, coins |-> x.coins, gas |-> x.gas, events |-> x.events, trace |-> x.trace]
  <2>1. x = [data |-> x.data, coins |-> x.coins, gas |-> x.gas, events |-> x.events,
             trace |-> x.trace]
    BY ViewFields
  <2> QED BY <1>5, <2>1, ViewSet
<1>7. PICK x2 : x2 = [x1 EXCEPT !.gas = g]
  OBVIOUS
<1>8. x2 = [data |-> d, coins |-> x.coins, gas |-> g, events |-> x.events, trace |-> x.trace]
  BY <1>6, <1>7, ViewSet
<1>9. PICK x3 : x3 = [x2 EXCEPT !.events = e]
  OBVIOUS
<1>10. x3 = [data |-> d, coins |-> x.coins, gas |-> g, events |-> e, trace |-> x.trace]
  BY <1>8, <1>9, ViewSet
<1>11. w[r] = x3
  BY <1>1, <1>2, <1>3, <1>4, <1>10 DEF OpView
<1>12. PICK v1 : v1 = [v EXCEPT ![r] = x1]
  OBVIOUS
<1>13. PICK v2 : v2 = [v1 EXCEPT ![r] = x2]
  OBVIOUS
<1>14. v1[r] = x1 /\ v2[r] = x2 /\ x1.gas = x.gas
  BY <1>6, <1>12, <1>13
<1>15. w = [v2 EXCEPT ![r] = x3]
  BY <1>11, <1>12, <1>13
<1>16. v1 = [v EXCEPT ![r].data[a] = v[r].data[a] + 1]
  BY <1>1, <1>2, <1>5, <1>12, Zenon
<1>17. v2 = [v1 EXCEPT ![r].gas[a] = v[r].gas[a] + cost]
  BY <1>1, <1>3, <1>7, <1>13, <1>14, Zenon
<1>18. w = [v2 EXCEPT ![r].events = Append(v[r].events, a)]
  BY <1>1, <1>4, <1>9, <1>14, <1>15, Zenon
<1> QED BY <1>16, <1>17, <1>18, Zenon DEF OpSeen
LEMMA AppendedCall ==
  ASSUME NEW s \in Seq(NestedCall), NEW t \in Seq(NestedCall), NEW n \in Nat, n = Len(s),
         Len(t) = n + 1, \A i \in 1 .. n : t[i] = s[i]
  PROVE  t = Append(s, t[n + 1])
<1>1. t[n + 1] \in NestedCall
  BY ElementOfSeq
<1>2. PICK e \in NestedCall : e = t[n + 1]
  BY <1>1
<1>3. /\ Append(s, e) \in Seq(NestedCall) /\ Len(Append(s, e)) = n + 1
      /\ Append(s, e)[n + 1] = e /\ \A i \in 1 .. n : Append(s, e)[i] = s[i]
  BY AppendProperties
<1>4. \A i \in 1 .. n + 1 : t[i] = Append(s, e)[i]
  <2>1. \A i \in 1 .. n + 1 : i = n + 1 \/ i \in 1 .. n
    OBVIOUS
  <2> QED BY <1>2, <1>3, <2>1
<1>5. t = Append(s, e)
  BY <1>3, <1>4, SeqEqual
<1> QED BY <1>2, <1>5

LEMMA OutputShown ==
  ASSUME NEW v \in [Runs -> View], NEW w \in [Runs -> View],
         NEW r \in Runs, \A q \in Runs : q # r => w[q] = v[q], NEW a \in Addr,
         w[r] = OutputView(v[r], a)
  PROVE  w = OutputSeen(v, r, a)
<1>1. PICK x \in View : x = v[r]
  OBVIOUS
<1>2. PICK c : c = [x.coins EXCEPT ![a] = x.coins[a] + 1]
  OBVIOUS
<1>3. PICK x1 : x1 = [x EXCEPT !.coins = c]
  OBVIOUS
<1>4. x1 = [data |-> x.data, coins |-> c, gas |-> x.gas, events |-> x.events, trace |-> x.trace]
  <2>1. x = [data |-> x.data, coins |-> x.coins, gas |-> x.gas, events |-> x.events,
             trace |-> x.trace]
    BY ViewFields
  <2> QED BY <1>3, <2>1, ViewSet
<1>5. w[r] = x1
  BY <1>1, <1>2, <1>4 DEF OutputView
<1>6. w = [v EXCEPT ![r] = x1]
  BY <1>5
<1> QED BY <1>1, <1>2, <1>3, <1>6, Zenon DEF OutputSeen

LEMMA CallShown ==
  ASSUME NEW v \in [Runs -> View], NEW w \in [Runs -> View],
         NEW r \in Runs, \A q \in Runs : q # r => w[q] = v[q], NEW a,
         w[r] = EnterView(v[r], a)
  PROVE  w = CallSeen(v, r, a)
<1> DEFINE d == Touched(v[r].data, a)
           c == Touched(v[r].coins, a)
           g == Touched(v[r].gas, a)
<1> HIDE DEF d, c, g
<1>1. PICK x \in View : x = v[r]
  OBVIOUS
<1>2. PICK x1 : x1 = [x EXCEPT !.data = d]
  OBVIOUS
<1>3. x1 = [data |-> d, coins |-> x.coins, gas |-> x.gas, events |-> x.events, trace |-> x.trace]
  <2>1. x = [data |-> x.data, coins |-> x.coins, gas |-> x.gas, events |-> x.events,
             trace |-> x.trace]
    BY ViewFields
  <2> QED BY <1>2, <2>1, ViewSet
<1>4. PICK x2 : x2 = [x1 EXCEPT !.coins = c]
  OBVIOUS
<1>5. x2 = [data |-> d, coins |-> c, gas |-> x.gas, events |-> x.events, trace |-> x.trace]
  BY <1>3, <1>4, ViewSet
<1>6. PICK x3 : x3 = [x2 EXCEPT !.gas = g]
  OBVIOUS
<1>7. x3 = [data |-> d, coins |-> c, gas |-> g, events |-> x.events, trace |-> x.trace]
  BY <1>5, <1>6, ViewSet
<1>8. w[r] = x3
  BY <1>1, <1>7 DEF EnterView, d, c, g
<1>9. PICK v1 : v1 = [v EXCEPT ![r] = x1]
  OBVIOUS
<1>10. PICK v2 : v2 = [v1 EXCEPT ![r] = x2]
  OBVIOUS
<1>11. v1[r] = x1 /\ v2[r] = x2
  BY <1>9, <1>10
<1>12. w = [v2 EXCEPT ![r] = x3]
  BY <1>8, <1>9, <1>10
<1>13. v1 = [v EXCEPT ![r].data = d]
  BY <1>1, <1>2, <1>9, Zenon
<1>14. v2 = [v1 EXCEPT ![r].coins = c]
  BY <1>4, <1>10, <1>11, Zenon
<1>15. w = [v2 EXCEPT ![r].gas = g]
  BY <1>6, <1>11, <1>12, Zenon
<1> QED BY <1>13, <1>14, <1>15, Zenon DEF CallSeen, d, c, g

LEMMA ReturnShown ==
  ASSUME NEW v \in [Runs -> View], NEW w \in [Runs -> View],
         NEW r \in Runs, \A q \in Runs : q # r => w[q] = v[q], NEW a \in Addr, NEW cost,
         NEW call,
         w[r] = ReturnView(v[r], a, cost, call)
  PROVE  w = ReturnSeen(v, r, a, cost, call)
<1>1. PICK x \in View : x = v[r]
  OBVIOUS
<1>2. PICK t : t = Append(x.trace, call)
  OBVIOUS
<1>3. PICK g : g = [x.gas EXCEPT ![a] = x.gas[a] + cost]
  OBVIOUS
<1>4. PICK x1 : x1 = [x EXCEPT !.trace = t]
  OBVIOUS
<1>5. x1 = [data |-> x.data, coins |-> x.coins, gas |-> x.gas, events |-> x.events, trace |-> t]
  <2>1. x = [data |-> x.data, coins |-> x.coins, gas |-> x.gas, events |-> x.events,
             trace |-> x.trace]
    BY ViewFields
  <2> QED BY <1>4, <2>1, ViewSet
<1>6. PICK x2 : x2 = [x1 EXCEPT !.gas = g]
  OBVIOUS
<1>7. x2 = [data |-> x.data, coins |-> x.coins, gas |-> g, events |-> x.events, trace |-> t]
  BY <1>5, <1>6, ViewSet
<1>8. w[r] = x2
  BY <1>1, <1>2, <1>3, <1>7 DEF ReturnView
<1>9. PICK v1 : v1 = [v EXCEPT ![r] = x1]
  OBVIOUS
<1>10. v1[r] = x1 /\ x1.gas = x.gas
  BY <1>5, <1>9
<1>11. w = [v1 EXCEPT ![r] = x2]
  BY <1>8, <1>9
<1>12. v1 = [v EXCEPT ![r].trace = Append(v[r].trace, call)]
  BY <1>1, <1>2, <1>4, <1>9, Zenon
<1>13. w = [v1 EXCEPT ![r].gas[a] = v[r].gas[a] + cost]
  BY <1>1, <1>3, <1>6, <1>10, <1>11, Zenon
<1> QED BY <1>12, <1>13, Zenon DEF ReturnSeen

LEMMA CommitShown ==
  ASSUME NEW v \in [Runs -> View], NEW w \in [Runs -> View],
         NEW r \in Runs, \A q \in Runs : q # r => w[q] = v[q], NEW call,
         w[r] = CommitView(v[r], call)
  PROVE  w = CommitSeen(v, r, call)
<1>1. PICK x \in View : x = v[r]
  OBVIOUS
<1>2. PICK t : t = Append(x.trace, call)
  OBVIOUS
<1>3. PICK x1 : x1 = [x EXCEPT !.trace = t]
  OBVIOUS
<1>4. x1 = [data |-> x.data, coins |-> x.coins, gas |-> x.gas, events |-> x.events, trace |-> t]
  <2>1. x = [data |-> x.data, coins |-> x.coins, gas |-> x.gas, events |-> x.events,
             trace |-> x.trace]
    BY ViewFields
  <2> QED BY <1>3, <2>1, ViewSet
<1>5. w[r] = x1
  BY <1>1, <1>2, <1>4 DEF CommitView
<1>6. w = [v EXCEPT ![r] = x1]
  BY <1>5
<1> QED BY <1>1, <1>2, <1>3, <1>6, Zenon DEF CommitSeen

-----------------------------------------------------------------------------
(* What the mapping of CrossContractCallRefinement substitutes, by name     *)

FrameCall(f) == [addr |-> Home(f), ops |-> f.ppd.ops, claims |-> f.ppd.claims]

FrameCalls(s) == [i \in 1 .. Len(s) |-> FrameCall(s[i])]

PhaseMap == [r \in Runs |-> IF status[r] = "throwing" THEN "failed" ELSE status[r]]

CallsMap ==
  [r \in Runs |->
    IF status[r] = "running"
    THEN [i \in 1 .. Depth(r) |->
      [addr |-> Home(stack[r][i]), ops |-> stack[r][i].ppd.ops,
       claims |-> stack[r][i].ppd.claims]]
    ELSE <<>>]

ViewMap ==
  [r \in Runs |->
    IF status[r] = "running" THEN ViewOf(Top(r).ctx) ELSE ViewOf(result[r])]

LEMMA FrameCallTyped ==
  ASSUME NEW f \in Frame
  PROVE  FrameCall(f) \in NestedCall
<1>1. f.ppd.ops \in Nat /\ f.ppd.claims \in SUBSET Nat
  BY FrameTyped DEF ProofData
<1>2. Home(f) \in Addr
  BY FrameTyped, CellsTyped, CallContextTyped DEF Home, Cells
<1> QED BY <1>1, <1>2 DEF FrameCall, NestedCall

LEMMA FrameCallsTyped ==
  ASSUME NEW s \in Seq(Frame)
  PROVE  /\ FrameCalls(s) \in Seq(NestedCall)
         /\ Len(FrameCalls(s)) = Len(s)
         /\ \A i \in 1 .. Len(s) : FrameCalls(s)[i] = FrameCall(s[i])
<1>1. Len(s) \in Nat /\ \A i \in 1 .. Len(s) : s[i] \in Frame
  BY LenProperties, ElementOfSeq
<1>2. \A i \in 1 .. Len(s) : FrameCall(s[i]) \in NestedCall
  BY <1>1, FrameCallTyped
<1> QED BY <1>1, <1>2, IsASeq DEF FrameCalls

LEMMA MapsNow ==
  ASSUME NEW r \in Runs
  PROVE  /\ status[r] = "running" =>
              /\ CallsMap[r] = FrameCalls(stack[r])
              /\ ViewMap[r] = ViewAt(heap, Top(r).ctx)
         /\ status[r] # "running" =>
              CallsMap[r] = <<>> /\ ViewMap[r] = ViewAt(heap, result[r])
BY DEF CallsMap, FrameCalls, FrameCall, ViewMap, ViewOf, ViewAt, DataAt, CallsIn, CallOf, Depth

LEMMA MapsNext ==
  ASSUME NEW r \in Runs
  PROVE  /\ status'[r] = "running" =>
              /\ CallsMap'[r] = FrameCalls(stack'[r])
              /\ ViewMap'[r] = ViewAt(heap', Top(r).ctx')
         /\ status'[r] # "running" =>
              CallsMap'[r] = <<>> /\ ViewMap'[r] = ViewAt(heap', result'[r])
BY DEF CallsMap, FrameCalls, FrameCall, ViewMap, ViewOf, ViewAt, DataAt, CallsIn, CallOf, Depth

LEMMA NoCalls == <<>> \in Seq(NestedCall) /\ Len(<<>>) = 0
OBVIOUS

MapsOK == CallsMap \in [Runs -> Seq(NestedCall)] /\ ViewMap \in [Runs -> View]

LEMMA MapsTyped == IInv => MapsOK
<1> SUFFICES ASSUME IInv PROVE MapsOK
  OBVIOUS
<1>1. ASSUME NEW r \in Runs
      PROVE  CallsMap[r] \in Seq(NestedCall) /\ ViewMap[r] \in View
  <2>1. heap \in Seq(Object) /\ stack[r] \in Seq(Frame)
    BY DEF IInv
  <2>2. CASE status[r] = "running"
    BY <2>1, <2>2, MapsNow, RunningRefs, FrameCallsTyped, ViewTyped
  <2>3. CASE status[r] # "running"
    BY <2>1, <2>3, MapsNow, NoCalls, ViewTyped DEF IInv
  <2> QED BY <2>2, <2>3
<1>2. CallsMap = [r \in Runs |-> CallsMap[r]] /\ ViewMap = [r \in Runs |-> ViewMap[r]]
  BY DEF CallsMap, ViewMap
<1> QED BY <1>1, <1>2 DEF MapsOK

LEMMA MapsTypedNext == IInv' => MapsOK'
BY MapsTyped, PTL

LEMMA MapsMove ==
  ASSUME IInv, IInv', NEW r \in Runs, OthersRest(r), Keeps(heap', heap)
  PROVE  /\ CallsMap \in [Runs -> Seq(NestedCall)] /\ CallsMap' \in [Runs -> Seq(NestedCall)]
         /\ ViewMap \in [Runs -> View] /\ ViewMap' \in [Runs -> View]
         /\ \A q \in Runs : q # r => CallsMap'[q] = CallsMap[q]
         /\ \A q \in Runs : q # r => ViewMap'[q] = ViewMap[q]
         /\ PhaseMap = [q \in Runs |-> PhaseMap[q]] /\ PhaseMap' = [q \in Runs |-> PhaseMap'[q]]
         /\ \A q \in Runs : q # r => PhaseMap'[q] = PhaseMap[q]
<1>1. MapsOK /\ MapsOK'
  BY MapsTyped, MapsTypedNext
<1>2. ASSUME NEW q \in Runs, q # r
      PROVE  CallsMap'[q] = CallsMap[q] /\ ViewMap'[q] = ViewMap[q]
  <2>1. stack'[q] = stack[q] /\ status'[q] = status[q] /\ result'[q] = result[q]
    BY <1>2 DEF OthersRest
  <2>2. heap \in Seq(Object) /\ Top(q).ctx' = Top(q).ctx
    BY <2>1 DEF IInv, Top, Depth
  <2>3. CASE status[q] = "running"
    <3>1. ViewAt(heap', Top(q).ctx) = ViewAt(heap, Top(q).ctx)
      BY <2>2, <2>3, RunningRefs, ViewKept
    <3> QED BY <2>1, <2>2, <2>3, <3>1, MapsNow, MapsNext
  <2>4. CASE status[q] # "running"
    <3>1. ViewAt(heap', result[q]) = ViewAt(heap, result[q])
      BY <2>2, ViewKept DEF IInv
    <3> QED BY <2>1, <2>4, <3>1, MapsNow, MapsNext
  <2> QED BY <2>3, <2>4
<1>3. \A q \in Runs : q # r => PhaseMap'[q] = PhaseMap[q]
  BY DEF PhaseMap, OthersRest
<1>4. PhaseMap = [q \in Runs |-> PhaseMap[q]] /\ PhaseMap' = [q \in Runs |-> PhaseMap'[q]]
  BY DEF PhaseMap
<1> QED BY <1>1, <1>2, <1>3, <1>4 DEF MapsOK

(* A step that leaves what the run shows unchanged.                         *)
LEMMA MapsRest ==
  ASSUME IInv, IInv', NEW r \in Runs, OthersRest(r), Keeps(heap', heap)
  PROVE  /\ PhaseMap'[r] = PhaseMap[r] => PhaseMap' = PhaseMap
         /\ CallsMap'[r] = CallsMap[r] => CallsMap' = CallsMap
         /\ ViewMap'[r] = ViewMap[r] => ViewMap' = ViewMap
<1>1. PICK c \in [Runs -> Seq(NestedCall)] : c = CallsMap
  BY MapsMove
<1>2. PICK d \in [Runs -> Seq(NestedCall)] : d = CallsMap'
  BY MapsMove
<1>3. PICK v \in [Runs -> View] : v = ViewMap
  BY MapsMove
<1>4. PICK w \in [Runs -> View] : w = ViewMap'
  BY MapsMove
<1>5. PICK p : p = PhaseMap
  OBVIOUS
<1>6. PICK o : o = PhaseMap'
  OBVIOUS
<1>7. p = [q \in Runs |-> p[q]] /\ o = [q \in Runs |-> o[q]]
  BY <1>5, <1>6, MapsMove
<1>8. \A q \in Runs : q # r => o[q] = p[q] /\ d[q] = c[q] /\ w[q] = v[q]
  BY <1>1, <1>2, <1>3, <1>4, <1>5, <1>6, MapsMove
<1>9. o[r] = p[r] => o = p
  BY <1>7, <1>8
<1>10. d[r] = c[r] => d = c
  BY <1>8
<1>11. w[r] = v[r] => w = v
  BY <1>8
<1> QED BY <1>1, <1>2, <1>3, <1>4, <1>5, <1>6, <1>9, <1>10, <1>11

-----------------------------------------------------------------------------
(* Shape by shape, the step of the transaction                              *)

(* The calls of a run whose innermost circuit goes on.                      *)
LEMMA CallsGoOn ==
  ASSUME IInv, IInv', CInv, CInv', NEW r \in Runs, NEW ctx, NEW ppd, GoesOn(r, ctx, ppd),
         ctx.cc.addr = Top(r).ctx.cc.addr
  PROVE  LET n == Depth(r)
         IN /\ n \in Nat \ {0}
            /\ Len(CallsMap[r]) = n /\ Len(CallsMap'[r]) = n
            /\ \A i \in 1 .. n - 1 : CallsMap'[r][i] = CallsMap[r][i]
            /\ CallsMap[r][n] = FrameCall(Top(r))
            /\ CallsMap'[r][n] = [addr |-> Top(r).ctx.cc.addr, ops |-> ppd.ops,
                                  claims |-> ppd.claims]
            /\ Home(Top(r)) = Top(r).ctx.cc.addr
<1>1. PICK s \in Seq(Frame) : s = stack[r]
  BY DEF IInv
<1>2. PICK t \in Seq(Frame) : t = stack'[r]
  BY DEF IInv
<1>3. status[r] = "running" /\ status'[r] = "running"
  BY DEF GoesOn, Goes
<1>4. PICK n \in Nat \ {0} : n = Depth(r)
  BY <1>3, TopFacts
<1>5. /\ Len(s) = n /\ Len(t) = n /\ \A i \in 1 .. n - 1 : t[i] = s[i]
      /\ t[n].ctx = ctx /\ t[n].ppd = ppd /\ t[n].pc # "callee" /\ s[n] = Top(r)
  BY <1>1, <1>2, <1>4 DEF GoesOn, Top, Depth
<1>6. CallsMap[r] = FrameCalls(s) /\ CallsMap'[r] = FrameCalls(t)
  BY <1>1, <1>2, <1>3, MapsNow, MapsNext
<1>7. /\ Len(FrameCalls(s)) = n /\ \A i \in 1 .. n : FrameCalls(s)[i] = FrameCall(s[i])
      /\ Len(FrameCalls(t)) = n /\ \A i \in 1 .. n : FrameCalls(t)[i] = FrameCall(t[i])
  BY <1>5, FrameCallsTyped
<1>8. Home(t[n]) = Top(r).ctx.cc.addr
  BY <1>5 DEF Home, Cells
<1>9. FrameCall(t[n]) = [addr |-> Top(r).ctx.cc.addr, ops |-> ppd.ops, claims |-> ppd.claims]
  BY <1>5, <1>8 DEF FrameCall
<1>10. Home(Top(r)) = Top(r).ctx.cc.addr
  BY <1>3, TopHolds DEF CInv
<1> QED BY <1>4, <1>5, <1>6, <1>7, <1>9, <1>10

LEMMA QueryMapped ==
  ASSUME IInv, IInv', CInv, CInv', NEW r \in Runs, OthersRest(r), Keeps(heap', heap),
         Queries(r)
  PROVE  \E cost \in Costs : Transaction!Op(r, cost)
<1>1. PICK a : a = Top(r).ctx.cc.addr
  OBVIOUS
<1>2. PICK x : x = ViewAt(heap, Top(r).ctx)
  OBVIOUS
<1>3. PICK cost \in Costs : cost <= GasLimit /\ ViewAt(heap', Top(r).ctx') = OpView(x, a, cost)
  BY <1>1, <1>2, QueryViewed
<1>4. PICK ctx, ppd : GoesOn(r, ctx, ppd) /\ ctx.cc.addr = a
                      /\ ppd = [Top(r).ppd EXCEPT !.ops = @ + 1]
  <2>1. PICK g \in Nat, logs \in Seq(Addr) :
          GoesOn(r, Queried(Top(r).ctx, Fresh, g, logs), [Top(r).ppd EXCEPT !.ops = @ + 1])
    BY DEF Queries
  <2>2. Top(r).ctx \in CircuitContext
    BY <2>1, RunningRefs DEF GoesOn, Goes, ContextOK
  <2>3. Queried(Top(r).ctx, Fresh, g, logs).cc.addr = a
    BY <1>1, <2>2, QueriedFields
  <2> QED BY <2>1, <2>3
<1>5. status[r] = "running" /\ status'[r] = "running"
  BY <1>4 DEF GoesOn, Goes
<1>6. a \in Addr /\ Top(r).ppd \in ProofData
  BY <1>1, <1>5, TopHolds, RunningRefs DEF CInv
<1>7. ViewMap' = OpSeen(ViewMap, r, a, cost)
  <2>1. PICK v \in [Runs -> View] : v = ViewMap
    BY MapsMove
  <2>2. PICK w \in [Runs -> View] : w = ViewMap'
    BY MapsMove
  <2>3. v[r] = x /\ w[r] = ViewAt(heap', Top(r).ctx')
    BY <1>2, <1>5, <2>1, <2>2, MapsNow, MapsNext
  <2>4. w[r] = OpView(v[r], a, cost)
    BY <1>3, <2>3
  <2>5. \A q \in Runs : q # r => w[q] = v[q]
    BY <2>1, <2>2, MapsMove
  <2>6. w = OpSeen(v, r, a, cost)
    BY <1>6, <2>4, <2>5, OpShown
  <2> QED BY <2>1, <2>2, <2>6
<1>8. CallsMap' = OpCounted(CallsMap, r) /\ CallsMap[r][Len(CallsMap[r])].addr = a
  <2>1. PICK c \in [Runs -> Seq(NestedCall)] : c = CallsMap
    BY MapsMove
  <2>2. PICK d \in [Runs -> Seq(NestedCall)] : d = CallsMap'
    BY MapsMove
  <2>3. PICK n \in Nat \ {0} : n = Depth(r)
    BY <1>5, TopFacts
  <2>4. LET m == Depth(r)
        IN /\ m \in Nat \ {0}
           /\ Len(CallsMap[r]) = m /\ Len(CallsMap'[r]) = m
           /\ \A i \in 1 .. m - 1 : CallsMap'[r][i] = CallsMap[r][i]
           /\ CallsMap[r][m] = FrameCall(Top(r))
           /\ CallsMap'[r][m] = [addr |-> Top(r).ctx.cc.addr, ops |-> ppd.ops,
                                 claims |-> ppd.claims]
           /\ Home(Top(r)) = Top(r).ctx.cc.addr
    <3>1. GoesOn(r, ctx, ppd) /\ ctx.cc.addr = Top(r).ctx.cc.addr
      BY <1>1, <1>4
    <3> QED BY <3>1, CallsGoOn, Zenon
  <2>5. /\ Len(c[r]) = n /\ Len(d[r]) = n /\ \A i \in 1 .. n - 1 : d[r][i] = c[r][i]
        /\ c[r][n] = FrameCall(Top(r))
        /\ d[r][n] = [addr |-> a, ops |-> ppd.ops, claims |-> ppd.claims]
        /\ Home(Top(r)) = a
    BY <1>1, <2>1, <2>2, <2>3, <2>4
  <2>6. ppd.ops = Top(r).ppd.ops + 1 /\ ppd.claims = Top(r).ppd.claims
    BY <1>4, <1>6 DEF ProofData
  <2>7. /\ c[r][n].addr = a
        /\ d[r][n] = [addr |-> c[r][n].addr, ops |-> c[r][n].ops + 1, claims |-> c[r][n].claims]
    BY <2>5, <2>6 DEF FrameCall
  <2>8. d = OpCounted(c, r)
    <3>1. n = Len(c[r]) /\ n > 0 /\ n \in Nat /\ Len(d[r]) = n
      BY <2>3, <2>5
    <3>2. \A q \in Runs : q # r => d[q] = c[q]
      BY <2>1, <2>2, MapsMove
    <3>3. \A i \in 1 .. n - 1 : d[r][i] = c[r][i]
      BY <2>5
    <3> QED BY <2>7, <3>1, <3>2, <3>3, OpCalls
  <2> QED BY <2>1, <2>2, <2>5, <2>7, <2>8
<1>9. PhaseMap' = PhaseMap /\ PhaseMap[r] = "running"
  <2>1. PhaseMap[r] = "running" /\ PhaseMap'[r] = "running"
    BY <1>5 DEF PhaseMap
  <2> QED BY <2>1, MapsRest
<1>10. CallsMap' = [CallsMap EXCEPT ![r][Len(CallsMap[r])].ops = @ + 1]
  BY <1>8, Zenon DEF OpCounted
<1>11. LET b == CallsMap[r][Len(CallsMap[r])].addr
       IN ViewMap' = [ViewMap EXCEPT ![r].data[b] = @ + 1, ![r].gas[b] = @ + cost,
                                     ![r].events = Append(@, b)]
  BY <1>7, <1>8, Zenon DEF OpSeen
<1>12. Transaction!Op(r, cost)
  BY <1>3, <1>9, <1>10, <1>11, Zenon
     DEF Transaction!Op, Transaction!Innermost, Transaction!Running, PhaseMap, CallsMap, ViewMap
<1> QED BY <1>12

(* Its proof data unchanged, so are its calls.                              *)
LEMMA CallsKept ==
  ASSUME IInv, IInv', CInv, CInv', NEW r \in Runs, OthersRest(r), Keeps(heap', heap),
         NEW ctx, NEW ppd, GoesOn(r, ctx, ppd), ctx.cc.addr = Top(r).ctx.cc.addr,
         ppd = Top(r).ppd
  PROVE  CallsMap' = CallsMap /\ CallsMap[r][Len(CallsMap[r])].addr = Top(r).ctx.cc.addr
<1>1. LET m == Depth(r)
      IN /\ m \in Nat \ {0}
         /\ Len(CallsMap[r]) = m /\ Len(CallsMap'[r]) = m
         /\ \A i \in 1 .. m - 1 : CallsMap'[r][i] = CallsMap[r][i]
         /\ CallsMap[r][m] = FrameCall(Top(r))
         /\ CallsMap'[r][m] = [addr |-> Top(r).ctx.cc.addr, ops |-> ppd.ops,
                               claims |-> ppd.claims]
         /\ Home(Top(r)) = Top(r).ctx.cc.addr
  BY CallsGoOn, Zenon
<1>2. PICK s \in Seq(NestedCall) : s = CallsMap[r]
  BY MapsMove
<1>3. PICK t \in Seq(NestedCall) : t = CallsMap'[r]
  BY MapsMove
<1>4. PICK n \in Nat \ {0} : n = Depth(r)
  BY <1>1
<1>5. /\ Len(s) = n /\ Len(t) = n /\ \A i \in 1 .. n - 1 : t[i] = s[i]
      /\ t[n] = s[n] /\ s[n].addr = Top(r).ctx.cc.addr
  BY <1>1, <1>2, <1>3, <1>4 DEF FrameCall
<1>6. \A i \in 1 .. n : t[i] = s[i]
  <2>1. \A i \in 1 .. n : i = n \/ i \in 1 .. n - 1
    OBVIOUS
  <2> QED BY <1>5, <2>1
<1>7. t = s
  BY <1>5, <1>6, SeqEqual
<1> QED BY <1>2, <1>3, <1>5, <1>7, MapsRest

LEMMA OutputMapped ==
  ASSUME IInv, IInv', CInv, CInv', NEW r \in Runs, OthersRest(r), Keeps(heap', heap),
         Outputs(r)
  PROVE  Transaction!Output(r)
<1>1. PICK a : a = Top(r).ctx.cc.addr
  OBVIOUS
<1>2. PICK x : x = ViewAt(heap, Top(r).ctx)
  OBVIOUS
<1>3. ViewAt(heap', Top(r).ctx') = OutputView(x, a)
  BY <1>1, <1>2, OutputViewed
<1>4. PICK ctx, ppd : GoesOn(r, ctx, ppd) /\ ctx.cc.addr = a /\ ppd = Top(r).ppd
  <2>1. GoesOn(r, WithOutput(Top(r).ctx, Fresh), Top(r).ppd)
    BY DEF Outputs
  <2>2. Top(r).ctx \in CircuitContext
    BY <2>1, RunningRefs DEF GoesOn, Goes, ContextOK
  <2>3. WithOutput(Top(r).ctx, Fresh).cc.addr = a
    BY <1>1, <2>2, WithOutputFields
  <2> QED BY <2>1, <2>3
<1>5. status[r] = "running" /\ status'[r] = "running"
  BY <1>4 DEF GoesOn, Goes
<1>6. a \in Addr
  BY <1>1, <1>5, TopHolds DEF CInv
<1>7. ViewMap' = OutputSeen(ViewMap, r, a)
  <2>1. PICK v \in [Runs -> View] : v = ViewMap
    BY MapsMove
  <2>2. PICK w \in [Runs -> View] : w = ViewMap'
    BY MapsMove
  <2>3. v[r] = x /\ w[r] = ViewAt(heap', Top(r).ctx')
    BY <1>2, <1>5, <2>1, <2>2, MapsNow, MapsNext
  <2>4. w[r] = OutputView(v[r], a)
    BY <1>3, <2>3
  <2>5. \A q \in Runs : q # r => w[q] = v[q]
    BY <2>1, <2>2, MapsMove
  <2>6. w = OutputSeen(v, r, a)
    BY <1>6, <2>4, <2>5, OutputShown
  <2> QED BY <2>1, <2>2, <2>6
<1>8. CallsMap' = CallsMap /\ CallsMap[r][Len(CallsMap[r])].addr = a
  <2>1. GoesOn(r, ctx, ppd) /\ ctx.cc.addr = Top(r).ctx.cc.addr /\ ppd = Top(r).ppd
    BY <1>1, <1>4
  <2> QED BY <1>1, <2>1, CallsKept
<1>9. PhaseMap' = PhaseMap /\ PhaseMap[r] = "running"
  <2>1. PhaseMap[r] = "running" /\ PhaseMap'[r] = "running"
    BY <1>5 DEF PhaseMap
  <2> QED BY <2>1, MapsRest
<1>10. LET b == CallsMap[r][Len(CallsMap[r])].addr
       IN ViewMap' = [ViewMap EXCEPT ![r].coins[b] = @ + 1]
  BY <1>7, <1>8, Zenon DEF OutputSeen
<1> QED BY <1>8, <1>9, <1>10, Zenon
        DEF Transaction!Output, Transaction!Innermost, Transaction!Running, PhaseMap, CallsMap,
            ViewMap

LEMMA IdleMapped ==
  ASSUME IInv, IInv', CInv, CInv', NEW r \in Runs, OthersRest(r), Keeps(heap', heap),
         Idles(r)
  PROVE  UNCHANGED <<PhaseMap, CallsMap, ViewMap>>
<1>1. PICK ctx, ppd : GoesOn(r, ctx, ppd) /\ ctx.cc.addr = Top(r).ctx.cc.addr
                      /\ ppd = Top(r).ppd
  BY DEF Idles, SameCells
<1>2. status[r] = "running" /\ status'[r] = "running"
  BY <1>1 DEF GoesOn, Goes
<1>3. CallsMap' = CallsMap
  BY <1>1, CallsKept
<1>4. ViewMap'[r] = ViewMap[r]
  BY <1>2, IdleViewed, MapsNow, MapsNext
<1>5. PhaseMap'[r] = PhaseMap[r]
  BY <1>2 DEF PhaseMap
<1> QED BY <1>3, <1>4, <1>5, MapsRest

CallAdded(c, r, e) == [c EXCEPT ![r] = Append(@, e)]

LEMMA CallsAppended ==
  ASSUME NEW c \in [Runs -> Seq(NestedCall)], NEW d \in [Runs -> Seq(NestedCall)],
         NEW r \in Runs, \A q \in Runs : q # r => d[q] = c[q], Len(d[r]) = Len(c[r]) + 1,
         \A i \in 1 .. Len(c[r]) : d[r][i] = c[r][i]
  PROVE  d = CallAdded(c, r, d[r][Len(c[r]) + 1])
<1>1. PICK s \in Seq(NestedCall) : s = c[r]
  OBVIOUS
<1>2. PICK t \in Seq(NestedCall) : t = d[r]
  OBVIOUS
<1>3. PICK n \in Nat : n = Len(s)
  BY LenProperties
<1>4. Len(t) = n + 1 /\ \A i \in 1 .. n : t[i] = s[i]
  BY <1>1, <1>2, <1>3
<1>5. t = Append(s, t[n + 1])
  BY <1>3, <1>4, AppendedCall
<1>6. d = [c EXCEPT ![r] = t]
  BY <1>2
<1> QED BY <1>1, <1>2, <1>3, <1>5, <1>6, Zenon DEF CallAdded

LEMMA EnterMapped ==
  ASSUME IInv, IInv', AInv, CInv, CInv', WInv, NEW r \in Runs, OthersRest(r),
         Keeps(heap', heap), Enters(r)
  PROVE  \E callee \in Addr : Transaction!Call(r, callee)
<1>1. PICK a : a = Top(r).callee
  OBVIOUS
<1>2. PICK x : x = ViewAt(heap, Top(r).ctx)
  OBVIOUS
<1>3. ViewAt(heap', Top(r).ctx') = EnterView(x, a)
  BY <1>1, <1>2, EnterViewed
<1>4. status[r] = "running" /\ status'[r] = "running" /\ Top(r).pc \in Pending
  BY DEF Enters, Goes, Pending
<1>5. a \in Addr /\ Top(r) \in Frame /\ ContextOK(Top(r).ctx, Len(heap)) /\ Len(heap) \in Nat
  BY <1>1, <1>4, RunningRefs
<1>6. ViewMap' = CallSeen(ViewMap, r, a)
  <2>1. PICK v \in [Runs -> View] : v = ViewMap
    BY MapsMove
  <2>2. PICK w \in [Runs -> View] : w = ViewMap'
    BY MapsMove
  <2>3. v[r] = x /\ w[r] = ViewAt(heap', Top(r).ctx')
    BY <1>2, <1>4, <2>1, <2>2, MapsNow, MapsNext
  <2>4. w[r] = EnterView(v[r], a)
    BY <1>3, <2>3
  <2>5. \A q \in Runs : q # r => w[q] = v[q]
    BY <2>1, <2>2, MapsMove
  <2>6. w = CallSeen(v, r, a)
    BY <2>4, <2>5, CallShown
  <2> QED BY <2>1, <2>2, <2>6
<1>7. /\ CallsMap' = CallAdded(CallsMap, r, [addr |-> a, ops |-> 0, claims |-> {}])
      /\ \A i \in 1 .. Len(CallsMap[r]) : CallsMap[r][i].addr # a
  <2>1. PICK n \in Nat \ {0} : n = Depth(r)
    BY <1>4, TopFacts
  <2>2. PICK s \in Seq(Frame) : s = stack[r]
    BY DEF IInv
  <2>3. PICK t \in Seq(Frame) : t = stack'[r]
    BY DEF IInv
  <2>4. PICK q : q = CalleeContext(Top(r))
    OBVIOUS
  <2>5. /\ Len(s) = n /\ Len(t) = n + 1 /\ \A i \in 1 .. n - 1 : t[i] = s[i]
        /\ s[n] = Top(r) /\ t[n].pc = "callee" /\ t[n].saved = Top(r).ctx.cc
        /\ t[n].ppd = Top(r).ppd /\ t[n + 1].pc = "run"
        /\ t[n + 1].ppd = EmptyProofData /\ t[n + 1].ctx = q
    BY <2>1, <2>2, <2>3, <2>4 DEF Enters, Top, Depth
  <2>6. q.cc.addr = a
    BY <1>1, <1>5, <2>4, CalleeContextHolds
  <2>7. Home(s[n]) = Top(r).ctx.cc.addr
    BY <1>4, <2>5, TopHolds DEF CInv
  <2>8. /\ FrameCall(t[n]) = FrameCall(s[n])
        /\ FrameCall(t[n + 1]) = [addr |-> a, ops |-> 0, claims |-> {}]
    <3>1. Home(t[n]) = Top(r).ctx.cc.addr /\ Home(t[n + 1]) = a
      BY <2>5, <2>6 DEF Home, Cells
    <3> QED BY <2>5, <2>7, <3>1 DEF FrameCall, EmptyProofData
  <2>9. CallsMap[r] = FrameCalls(s) /\ CallsMap'[r] = FrameCalls(t)
    BY <1>4, <2>2, <2>3, MapsNow, MapsNext
  <2>10. /\ Len(FrameCalls(s)) = n /\ \A i \in 1 .. n : FrameCalls(s)[i] = FrameCall(s[i])
         /\ Len(FrameCalls(t)) = n + 1
         /\ \A i \in 1 .. n + 1 : FrameCalls(t)[i] = FrameCall(t[i])
    BY <2>5, FrameCallsTyped
  <2>11. \A i \in 1 .. n : FrameCalls(t)[i] = FrameCalls(s)[i]
    <3>1. \A i \in 1 .. n : i \in 1 .. n + 1 /\ (i = n \/ i \in 1 .. n - 1)
      OBVIOUS
    <3> QED BY <2>5, <2>8, <2>10, <3>1
  <2>12. FrameCalls(t)[n + 1] = [addr |-> a, ops |-> 0, claims |-> {}]
    BY <2>8, <2>10
  <2>13. \A i \in 1 .. n : FrameCalls(s)[i].addr # a
    <3>1. CellsOK(stack[r])
      BY <1>4 DEF CInv
    <3>2. \A i \in 1 .. Depth(r) : Home(stack[r][i]) # Top(r).callee
      BY <1>4, <3>1, HomesApart
    <3>3. \A i \in 1 .. n : Home(s[i]) # a
      BY <1>1, <2>1, <2>2, <3>2
    <3> QED BY <2>10, <3>3 DEF FrameCall
  <2>14. PICK e : e = [addr |-> a, ops |-> 0, claims |-> {}]
    OBVIOUS
  <2>15. PICK c \in [Runs -> Seq(NestedCall)] : c = CallsMap
    BY MapsMove
  <2>16. PICK d \in [Runs -> Seq(NestedCall)] : d = CallsMap'
    BY MapsMove
  <2>17. d = CallAdded(c, r, e)
    <3>1. Len(c[r]) = n /\ Len(d[r]) = Len(c[r]) + 1
      BY <2>9, <2>10, <2>15, <2>16
    <3>2. \A i \in 1 .. Len(c[r]) : d[r][i] = c[r][i]
      BY <2>9, <2>11, <2>15, <2>16, <3>1
    <3>3. \A p \in Runs : p # r => d[p] = c[p]
      BY <2>15, <2>16, MapsMove
    <3>4. d = CallAdded(c, r, d[r][Len(c[r]) + 1])
      BY <3>1, <3>2, <3>3, CallsAppended
    <3> QED BY <2>9, <2>12, <2>14, <2>16, <3>1, <3>4
  <2> QED BY <2>9, <2>10, <2>13, <2>14, <2>15, <2>16, <2>17
<1>8. PhaseMap' = PhaseMap /\ PhaseMap[r] = "running"
  <2>1. PhaseMap[r] = "running" /\ PhaseMap'[r] = "running"
    BY <1>4 DEF PhaseMap
  <2> QED BY <2>1, MapsRest
<1>9. Transaction!Call(r, a)
  BY <1>6, <1>7, <1>8, Zenon
     DEF Transaction!Call, Transaction!NewCall, Transaction!Touch, Transaction!Untouched,
         Transaction!Running, CallSeen, Touched, CallAdded, PhaseMap, CallsMap, ViewMap
<1> QED BY <1>5, <1>9

LEMMA ReturnMapped ==
  ASSUME IInv, IInv', CInv, CInv', NEW r \in Runs, OthersRest(r), Keeps(heap', heap),
         Returns(r)
  PROVE  \E cost \in Costs : Transaction!Return(r, cost)
<1>1. PICK n \in Nat : n = Depth(r) /\ n > 1
  <2>1. status[r] = "running" /\ Depth(r) > 1
    BY DEF Returns, Goes
  <2> QED BY <2>1, TopFacts
<1>2. PICK a : a = Home(stack[r][Depth(r) - 1])
  OBVIOUS
<1>3. PICK x : x = ViewAt(heap, Top(r).ctx)
  OBVIOUS
<1>4. PICK call : call = FrameCall(Top(r))
  OBVIOUS
<1>5. PICK cost \in Costs :
        cost <= GasLimit /\ ViewAt(heap', Top(r).ctx') = ReturnView(x, a, cost, call)
  BY <1>2, <1>3, <1>4, ReturnViewed DEF FrameCall
<1>6. status[r] = "running" /\ status'[r] = "running"
  BY DEF Returns, Goes
<1>7. PICK f \in Frame : f = stack[r][Depth(r) - 1] /\ f.pc = "callee" /\ a = f.saved.addr
  <2>1. Depth(r) # 1
    BY <1>1
  <2> QED BY <1>2, <1>6, <2>1, CallerFacts DEF Home, Cells
<1>8. a \in Addr /\ f.ppd \in ProofData
  BY <1>7, FrameTyped, CallContextTyped
<1>9. ViewMap' = ReturnSeen(ViewMap, r, a, cost, call)
  <2>1. PICK v \in [Runs -> View] : v = ViewMap
    BY MapsMove
  <2>2. PICK w \in [Runs -> View] : w = ViewMap'
    BY MapsMove
  <2>3. v[r] = x /\ w[r] = ViewAt(heap', Top(r).ctx')
    BY <1>3, <1>6, <2>1, <2>2, MapsNow, MapsNext
  <2>4. w[r] = ReturnView(v[r], a, cost, call)
    BY <1>5, <2>3
  <2>5. \A q \in Runs : q # r => w[q] = v[q]
    BY <2>1, <2>2, MapsMove
  <2>6. w = ReturnSeen(v, r, a, cost, call)
    BY <1>8, <2>4, <2>5, ReturnShown
  <2> QED BY <2>1, <2>2, <2>6
<1>10. PICK place : place = Len(ViewMap[r].trace) + 1
  OBVIOUS
<1>11. place = Len(Top(r).ctx.trace) + 1
  <2>1. ViewMap[r].trace = CallsIn(Top(r).ctx.trace)
    <3>1. ViewMap[r] = x
      BY <1>3, <1>6, MapsNow
    <3>2. x.trace = CallsIn(Top(r).ctx.trace)
      BY <1>3 DEF ViewAt
    <3> QED BY <3>1, <3>2
  <2>2. Top(r).ctx.trace \in Seq(CallProofData)
    BY <1>6, RunningRefs, CellsTyped DEF ContextOK
  <2>3. Len(CallsIn(Top(r).ctx.trace)) = Len(Top(r).ctx.trace)
    BY <2>2, CallsInTyped
  <2> QED BY <1>10, <2>1, <2>3
<1>12. /\ CallsMap' = CallClaimed(CallsMap, r, Len(CallsMap[r]), place)
       /\ Len(CallsMap[r]) = n /\ CallsMap[r][n] = call /\ CallsMap[r][n - 1].addr = a
  <2>1. PICK s \in Seq(Frame) : s = stack[r]
    BY DEF IInv
  <2>2. PICK t \in Seq(Frame) : t = stack'[r]
    BY DEF IInv
  <2>3. PICK back : back = ReturnedContext(r, f)
    OBVIOUS
  <2>4. back.cc = f.saved /\ back \in CircuitContext
    <3>1. FrameOK(Top(r), Len(heap)) /\ Len(heap) \in Nat /\ Depth(r) > 1
      BY <1>1, <1>6, RunningRefs
    <3>2. back.cc = f.saved
      BY <2>3, <3>1, ReturnedFields
    <3> QED BY <1>6, <1>7, <2>3, <3>1, <3>2, ReturnedTyped
  <2>5. PICK g \in Nat, logs \in Seq(Addr) : t[n - 1].ctx = Queried(back, Fresh, g, logs)
    <3>1. <<>> \in Seq(Addr)
      OBVIOUS
    <3>2. \E g \in Nat : t[n - 1].ctx = Queried(back, Fresh, g, <<>>)
      BY <1>1, <1>7, <2>2, <2>3 DEF Returns
    <3> QED BY <3>1, <3>2, Zenon
  <2>6. t[n - 1].ctx.cc.addr = a
    BY <1>7, <2>4, <2>5, QueriedFields
  <2>7. /\ Len(s) = n /\ Len(t) = n - 1 /\ \A i \in 1 .. n - 2 : t[i] = s[i]
        /\ s[n] = Top(r) /\ s[n - 1] = f /\ t[n - 1].pc # "callee"
        /\ t[n - 1].ppd = [f.ppd EXCEPT !.claims = @ \cup {place}]
    BY <1>1, <1>7, <1>11, <2>1, <2>2 DEF Returns, Top, Depth
  <2>8. t[n - 1].ppd.ops = f.ppd.ops /\ t[n - 1].ppd.claims = f.ppd.claims \cup {place}
    BY <1>8, <2>7 DEF ProofData
  <2>9. Home(t[n - 1]) = a /\ Home(f) = a
    BY <1>7, <2>6, <2>7 DEF Home, Cells
  <2>10. CallsMap[r] = FrameCalls(s) /\ CallsMap'[r] = FrameCalls(t)
    BY <1>6, <2>1, <2>2, MapsNow, MapsNext
  <2>11. /\ Len(FrameCalls(s)) = n /\ \A i \in 1 .. n : FrameCalls(s)[i] = FrameCall(s[i])
         /\ Len(FrameCalls(t)) = n - 1
         /\ \A i \in 1 .. n - 1 : FrameCalls(t)[i] = FrameCall(t[i])
    BY <2>7, FrameCallsTyped
  <2>12. \A i \in 1 .. n - 2 : FrameCalls(t)[i] = FrameCalls(s)[i]
    <3>1. \A i \in 1 .. n - 2 : i \in 1 .. n - 1 /\ i \in 1 .. n
      BY <1>1
    <3> QED BY <2>7, <2>11, <3>1
  <2>13. /\ FrameCalls(s)[n - 1] = FrameCall(f) /\ FrameCalls(s)[n] = call
         /\ FrameCalls(t)[n - 1] = FrameCall(t[n - 1])
    <3>1. n - 1 \in 1 .. n - 1 /\ n - 1 \in 1 .. n /\ n \in 1 .. n
      BY <1>1
    <3> QED BY <1>4, <2>7, <2>11, <3>1
  <2>14. FrameCall(f).addr = a
         /\ FrameCall(t[n - 1]) = [addr |-> FrameCall(f).addr, ops |-> FrameCall(f).ops,
                                   claims |-> FrameCall(f).claims \cup {place}]
    BY <2>8, <2>9 DEF FrameCall
  <2>15. PICK c \in [Runs -> Seq(NestedCall)] : c = CallsMap
    BY MapsMove
  <2>16. PICK d \in [Runs -> Seq(NestedCall)] : d = CallsMap'
    BY MapsMove
  <2>17. d = CallClaimed(c, r, n, place)
    <3>1. n = Len(c[r]) /\ Len(c[r]) > 1 /\ Len(d[r]) = Len(c[r]) - 1
      BY <1>1, <2>10, <2>11, <2>15, <2>16
    <3>2. \A i \in 1 .. Len(c[r]) - 2 : d[r][i] = c[r][i]
      BY <2>10, <2>12, <2>15, <2>16, <3>1
    <3>3. d[r][Len(c[r]) - 1] = Claimed(c[r][Len(c[r]) - 1], place)
      BY <2>10, <2>13, <2>14, <2>15, <2>16, <3>1 DEF Claimed
    <3>4. \A p \in Runs : p # r => d[p] = c[p]
      BY <2>15, <2>16, MapsMove
    <3> QED BY <3>1, <3>2, <3>3, <3>4, ReturnCalls
  <2> QED BY <2>10, <2>11, <2>13, <2>14, <2>15, <2>16, <2>17
<1>13. PhaseMap' = PhaseMap /\ PhaseMap[r] = "running"
  <2>1. PhaseMap[r] = "running" /\ PhaseMap'[r] = "running"
    BY <1>6 DEF PhaseMap
  <2> QED BY <2>1, MapsRest
<1>14. Transaction!Return(r, cost)
  <2> DEFINE m == Len(CallsMap[r])
  <2>1. m > 1 /\ call = CallsMap[r][m] /\ a = CallsMap[r][m - 1].addr
    BY <1>1, <1>12
  <2>2. CallsMap' = [CallsMap EXCEPT ![r] =
          Append(SubSeq(@, 1, m - 2), [CallsMap[r][m - 1] EXCEPT !.claims = @ \cup {place}])]
    BY <1>12, Zenon DEF CallClaimed
  <2>3. ViewMap' = [ViewMap EXCEPT ![r].trace = Append(@, CallsMap[r][m]),
                                   ![r].gas[CallsMap[r][m - 1].addr] = @ + cost]
    BY <1>9, <2>1, Zenon DEF ReturnSeen
  <2> QED BY <1>5, <1>10, <1>13, <2>1, <2>2, <2>3, Zenon
          DEF Transaction!Return, Transaction!Running, PhaseMap, CallsMap, ViewMap
<1> QED BY <1>14

(* A step changes the run's own entries at most.                            *)
LEMMA MapsChange ==
  ASSUME IInv, IInv', NEW r \in Runs, OthersRest(r), Keeps(heap', heap)
  PROVE  /\ \A x : PhaseMap'[r] = x => PhaseMap' = [PhaseMap EXCEPT ![r] = x]
         /\ \A x : CallsMap'[r] = x => CallsMap' = [CallsMap EXCEPT ![r] = x]
         /\ \A x : ViewMap'[r] = x => ViewMap' = [ViewMap EXCEPT ![r] = x]
<1>1. PICK c \in [Runs -> Seq(NestedCall)] : c = CallsMap
  BY MapsMove
<1>2. PICK d \in [Runs -> Seq(NestedCall)] : d = CallsMap'
  BY MapsMove
<1>3. PICK v \in [Runs -> View] : v = ViewMap
  BY MapsMove
<1>4. PICK w \in [Runs -> View] : w = ViewMap'
  BY MapsMove
<1>5. PICK p : p = PhaseMap
  OBVIOUS
<1>6. PICK o : o = PhaseMap'
  OBVIOUS
<1>7. p = [q \in Runs |-> p[q]] /\ o = [q \in Runs |-> o[q]]
  BY <1>5, <1>6, MapsMove
<1>8. \A q \in Runs : q # r => o[q] = p[q] /\ d[q] = c[q] /\ w[q] = v[q]
  BY <1>1, <1>2, <1>3, <1>4, <1>5, <1>6, MapsMove
<1>9. \A x : o[r] = x => o = [p EXCEPT ![r] = x]
  BY <1>7, <1>8
<1>10. \A x : d[r] = x => d = [c EXCEPT ![r] = x]
  BY <1>8
<1>11. \A x : w[r] = x => w = [v EXCEPT ![r] = x]
  BY <1>8
<1> QED BY <1>1, <1>2, <1>3, <1>4, <1>5, <1>6, <1>9, <1>10, <1>11

LEMMA FinishMapped ==
  ASSUME IInv, IInv', CInv, CInv', NEW r \in Runs, OthersRest(r), Keeps(heap', heap),
         Finishes(r)
  PROVE  Transaction!Commit(r)
<1>1. PICK x : x = ViewAt(heap, Top(r).ctx)
  OBVIOUS
<1>2. PICK call : call = FrameCall(Top(r))
  OBVIOUS
<1>3. ViewAt(heap', result'[r]) = CommitView(x, call)
  BY <1>1, <1>2, FinishViewed DEF FrameCall
<1>4. status[r] = "running" /\ status'[r] = "done" /\ Depth(r) = 1
  BY DEF Finishes
<1>5. ViewMap' = CommitSeen(ViewMap, r, call)
  <2>1. PICK v \in [Runs -> View] : v = ViewMap
    BY MapsMove
  <2>2. PICK w \in [Runs -> View] : w = ViewMap'
    BY MapsMove
  <2>3. v[r] = x /\ w[r] = ViewAt(heap', result'[r])
    BY <1>1, <1>4, <2>1, <2>2, MapsNow, MapsNext
  <2>4. w[r] = CommitView(v[r], call)
    BY <1>3, <2>3
  <2>5. \A q \in Runs : q # r => w[q] = v[q]
    BY <2>1, <2>2, MapsMove
  <2>6. w = CommitSeen(v, r, call)
    BY <2>4, <2>5, CommitShown
  <2> QED BY <2>1, <2>2, <2>6
<1>6. Len(CallsMap[r]) = 1 /\ CallsMap[r][1] = call
  <2>1. PICK s \in Seq(Frame) : s = stack[r]
    BY DEF IInv
  <2>2. Len(s) = 1 /\ s[1] = Top(r) /\ CallsMap[r] = FrameCalls(s)
    BY <1>4, <2>1, MapsNow DEF Top, Depth
  <2> QED BY <1>2, <2>2, FrameCallsTyped
<1>7. CallsMap' = [CallsMap EXCEPT ![r] = <<>>]
  <2>1. CallsMap'[r] = <<>>
    BY <1>4, MapsNext
  <2> QED BY <2>1, MapsChange, Zenon
<1>8. PhaseMap' = [PhaseMap EXCEPT ![r] = "done"] /\ PhaseMap[r] = "running"
  <2>1. PhaseMap[r] = "running" /\ PhaseMap'[r] = "done"
    BY <1>4 DEF PhaseMap
  <2> QED BY <2>1, MapsChange, Zenon
<1>9. ViewMap' = [ViewMap EXCEPT ![r].trace = Append(@, CallsMap[r][1])]
  BY <1>5, <1>6, Zenon DEF CommitSeen
<1> QED BY <1>6, <1>7, <1>8, <1>9, Zenon
        DEF Transaction!Commit, Transaction!Running, PhaseMap, CallsMap, ViewMap

(* The view the application creates, before and after.                      *)
LEMMA StartView ==
  ASSUME NEW h, h[1].data = 0
  PROVE  ViewAt(h, InitialContext) = Transaction!InitialView
<1>1. DataAt(h, InitialContext) = [a \in Addr |-> IF a = Entry THEN 0 ELSE -1]
  BY DEF DataAt, InitialContext, Known, NoRef, Absent
<1>2. CallsIn(InitialContext.trace) = <<>>
  <2>1. InitialContext.trace = <<>>
    BY DEF InitialContext
  <2> QED BY <2>1 DEF CallsIn
<1>3. /\ InitialContext.zswapLocalStates = [a \in Addr |-> IF a = Entry THEN 0 ELSE -1]
      /\ InitialContext.gasCosts = [a \in Addr |-> IF a = Entry THEN 0 ELSE -1]
      /\ InitialContext.events = <<>>
  BY DEF InitialContext, Absent
<1> QED BY <1>1, <1>2, <1>3
        DEF ViewAt, Transaction!InitialView, Transaction!AtStart, Transaction!Untouched

LEMMA FailMapped ==
  ASSUME IInv, IInv', WInv, WInv', NEW r \in Runs, OthersRest(r), Keeps(heap', heap),
         Fails(r)
  PROVE  Transaction!Abort(r) \/ UNCHANGED <<PhaseMap, CallsMap, ViewMap>>
<1>1. /\ status'[r] \in {"throwing", "failed"} /\ result'[r] = result[r]
      /\ status[r] \in {"running", "throwing"}
  BY DEF Fails, Goes
<1>2. CASE status[r] = "running"
  <2>1. result'[r] = InitialContext /\ heap'[1].data = 0
    BY <1>1 DEF WInv
  <2>2. ViewMap'[r] = Transaction!InitialView /\ CallsMap'[r] = <<>>
    BY <1>1, <2>1, MapsNext, StartView
  <2>3. PhaseMap[r] = "running" /\ PhaseMap'[r] = "failed"
    BY <1>1, <1>2 DEF PhaseMap
  <2>4. /\ PhaseMap' = [PhaseMap EXCEPT ![r] = "failed"]
        /\ CallsMap' = [CallsMap EXCEPT ![r] = <<>>]
        /\ ViewMap' = [ViewMap EXCEPT ![r] = Transaction!InitialView]
    BY <2>2, <2>3, MapsChange, Zenon
  <2> QED BY <2>3, <2>4, Zenon
          DEF Transaction!Abort, Transaction!Running, PhaseMap, CallsMap, ViewMap
<1>3. CASE status[r] = "throwing"
  <2>1. ViewAt(heap', result[r]) = ViewAt(heap, result[r])
    BY ViewKept DEF IInv
  <2>2. CallsMap'[r] = CallsMap[r] /\ ViewMap'[r] = ViewMap[r]
    BY <1>1, <1>3, <2>1, MapsNow, MapsNext
  <2>3. PhaseMap'[r] = PhaseMap[r]
    BY <1>1, <1>3 DEF PhaseMap
  <2> QED BY <2>2, <2>3, MapsRest
<1> QED BY <1>1, <1>2, <1>3

LEMMA StartMapped ==
  ASSUME IInv, IInv', CInv', WInv, NEW r \in Runs, OthersRest(r), Keeps(heap', heap),
         Starts(r)
  PROVE  Transaction!Begin(r)
<1>1. /\ status[r] = "idle" /\ status'[r] = "running" /\ heap' = heap
      /\ Len(stack'[r]) = 1 /\ stack'[r][1].ppd = EmptyProofData
      /\ stack'[r][1].ctx \in HeldContexts
  BY DEF Starts, Goes
<1>2. Top(r).ctx' \in HeldContexts
  BY <1>1 DEF Top, Depth
<1>3. PhaseMap' = [PhaseMap EXCEPT ![r] = "running"] /\ PhaseMap[r] = "idle"
  <2>1. PhaseMap[r] = "idle" /\ PhaseMap'[r] = "running"
    BY <1>1 DEF PhaseMap
  <2> QED BY <2>1, MapsChange, Zenon
<1>4. CallsMap' = [CallsMap EXCEPT ![r] = <<[addr |-> Entry, ops |-> 0, claims |-> {}]>>]
  <2>1. PICK t \in Seq(Frame) : t = stack'[r]
    BY DEF IInv
  <2>2. Home(t[1]) = Entry
    BY <1>1, <2>1 DEF CInv, CellsOK
  <2>3. Len(t) = 1 /\ t[1].ppd = EmptyProofData
    BY <1>1, <2>1
  <2>4. FrameCall(t[1]) = [addr |-> Entry, ops |-> 0, claims |-> {}]
    BY <2>2, <2>3 DEF FrameCall, EmptyProofData
  <2>5. PICK e : e = [addr |-> Entry, ops |-> 0, claims |-> {}]
    OBVIOUS
  <2>6. FrameCalls(t) = <<e>>
    <3>1. 1 .. 1 = {1}
      OBVIOUS
    <3>2. FrameCalls(t) \in Seq(NestedCall) /\ Len(FrameCalls(t)) = 1
          /\ FrameCalls(t)[1] = e
      <4>1. 1 \in 1 .. Len(t) /\ Len(FrameCalls(t)) = Len(t)
        BY <2>3, FrameCallsTyped
      <4>2. FrameCalls(t)[1] = FrameCall(t[1])
        BY <4>1, FrameCallsTyped
      <4> QED BY <2>3, <2>4, <2>5, <4>1, <4>2, FrameCallsTyped
    <3>3. e \in NestedCall
      BY <3>2, ElementOfSeq
    <3>4. <<e>> \in Seq(NestedCall) /\ Len(<<e>>) = 1 /\ <<e>>[1] = e
      BY <3>3
    <3> QED BY <3>2, <3>4, SeqEqual
  <2>7. CallsMap'[r] = <<e>>
    BY <1>1, <2>1, <2>6, MapsNext
  <2> QED BY <2>5, <2>7, MapsChange, Zenon
<1>5. \/ ViewMap' = ViewMap
      \/ /\ Reuse
         /\ \E q \in Runs : PhaseMap[q] = "done" /\ ViewMap' = [ViewMap EXCEPT ![r] = ViewMap[q]]
  <2>1. ViewMap'[r] = ViewAt(heap, Top(r).ctx')
    BY <1>1, MapsNext
  <2>2. CASE Top(r).ctx' = InitialContext
    <3>1. ViewMap[r] = ViewAt(heap, InitialContext)
      BY <1>1, MapsNow DEF WInv
    <3> QED BY <2>1, <2>2, <3>1, MapsRest
  <2>3. CASE Top(r).ctx' # InitialContext
    <3>1. PICK q \in Runs : Reuse /\ status[q] = "done" /\ Top(r).ctx' = result[q]
      BY <1>2, <2>3 DEF HeldContexts
    <3>2. PhaseMap[q] = "done" /\ ViewMap[q] = ViewAt(heap, result[q])
      BY <3>1, MapsNow DEF PhaseMap
    <3>3. ViewMap'[r] = ViewMap[q]
      BY <2>1, <3>1, <3>2
    <3>4. ViewMap' = [ViewMap EXCEPT ![r] = ViewMap[q]]
      BY <3>3, MapsChange, Zenon
    <3> QED BY <3>1, <3>2, <3>4, Zenon
  <2> QED BY <2>2, <2>3
<1> QED BY <1>3, <1>4, <1>5, Zenon
        DEF Transaction!Begin, Transaction!NewCall, PhaseMap, CallsMap, ViewMap

-----------------------------------------------------------------------------
(* The steps together                                                       *)

LEMMA InitMapped == Init => Transaction!Init
<1> SUFFICES ASSUME Init PROVE Transaction!Init
  OBVIOUS
<1>1. ASSUME NEW r \in Runs
      PROVE  /\ PhaseMap[r] = "idle" /\ CallsMap[r] = <<>>
             /\ ViewMap[r] = Transaction!InitialView
  <2>1. status[r] = "idle" /\ result[r] = InitialContext /\ heap[1].data = 0
    BY DEF Init
  <2> QED BY <2>1, MapsNow, StartView DEF PhaseMap
<1>2. /\ PhaseMap = [r \in Runs |-> PhaseMap[r]] /\ CallsMap = [r \in Runs |-> CallsMap[r]]
      /\ ViewMap = [r \in Runs |-> ViewMap[r]]
  BY DEF PhaseMap, CallsMap, ViewMap
<1>3. /\ PhaseMap = [r \in Runs |-> "idle"] /\ CallsMap = [r \in Runs |-> <<>>]
      /\ ViewMap = [r \in Runs |-> Transaction!InitialView]
  BY <1>1, <1>2
<1> QED BY <1>3, Zenon DEF Transaction!Init, PhaseMap, CallsMap, ViewMap

LEMMA StepMapped ==
  ASSUME IInv, IInv', AInv, CInv, CInv', WInv, WInv', NEW r \in Runs, Step(r)
  PROVE  Transaction!Next \/ UNCHANGED <<PhaseMap, CallsMap, ViewMap>>
<1>1. /\ OthersRest(r)
      /\ \/ Starts(r) \/ Finishes(r) \/ Fails(r)
         \/ Idles(r) \/ Queries(r) \/ Outputs(r) \/ Enters(r) \/ Returns(r)
  BY Shapes
<1>2. Keeps(heap', heap)
  BY <1>1, ShapesKeep
<1>3. CASE Starts(r)
  BY <1>1, <1>2, <1>3, StartMapped DEF Transaction!Next
<1>4. CASE Finishes(r)
  BY <1>1, <1>2, <1>4, FinishMapped DEF Transaction!Next
<1>5. CASE Fails(r)
  BY <1>1, <1>2, <1>5, FailMapped DEF Transaction!Next
<1>6. CASE Idles(r)
  BY <1>1, <1>2, <1>6, IdleMapped
<1>7. CASE Queries(r)
  BY <1>1, <1>2, <1>7, QueryMapped DEF Transaction!Next
<1>8. CASE Outputs(r)
  BY <1>1, <1>2, <1>8, OutputMapped DEF Transaction!Next
<1>9. CASE Enters(r)
  BY <1>1, <1>2, <1>9, EnterMapped DEF Transaction!Next
<1>10. CASE Returns(r)
  BY <1>1, <1>2, <1>10, ReturnMapped DEF Transaction!Next
<1> QED BY <1>1, <1>3, <1>4, <1>5, <1>6, <1>7, <1>8, <1>9, <1>10

LEMMA NextMapped ==
  IInv /\ AInv /\ CInv /\ WInv /\ [Next]_vars => [Transaction!Next]_(Transaction!vars)
<1> SUFFICES ASSUME IInv, AInv, CInv, WInv, [Next]_vars
             PROVE  Transaction!Next \/ UNCHANGED <<PhaseMap, CallsMap, ViewMap>>
  BY Zenon DEF Transaction!vars, PhaseMap, CallsMap, ViewMap
<1>1. CASE UNCHANGED vars
  BY <1>1 DEF vars, PhaseMap, CallsMap, ViewMap, ViewOf, Top, Depth, Home, Cells, Known
<1>2. CASE Next
  <2>1. IInv' /\ CInv' /\ WInv'
    BY NextIInv, NextCInv, NextWInv
  <2>2. PICK r \in Runs : Step(r)
    BY <1>2 DEF Next
  <2> QED BY <2>1, <2>2, StepMapped
<1> QED BY <1>1, <1>2

(* CrossContractCall implements CallTransaction: whatever the runtime does  *)
(* with contexts, copies and maps (contract.ts, circuit-context.ts), a run  *)
(* is one transaction over one store, also when runs overlap, resume from   *)
(* one another and catch.                                                   *)
THEOREM CallsAreTransactional == Spec => IsTransactional
<1>1. Spec => []IInv /\ []AInv /\ []CInv /\ []WInv
  BY InitIInv, NextIInv, InitAInv, NextAInv, InitCInv, NextCInv, InitWInv, NextWInv, PTL
     DEF Spec
<1> QED BY <1>1, InitMapped, NextMapped, PTL DEF Spec, IsTransactional, Transaction!Spec
=============================================================================
