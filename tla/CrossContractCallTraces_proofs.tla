-------------------- MODULE CrossContractCallTraces_proofs --------------------
(***************************************************************************)
(* What the traces of a run say.  The commitments and the outputs of a     *)
(* contract agree, every public transcript replays, and consecutive calls  *)
(* to one contract chain; the trace is the call tree in depth-first order, *)
(* and while no two runs overlap a circuit in flight sees the caller and   *)
(* the effects of its own call.                                            *)
(***************************************************************************)
EXTENDS CrossContractCall_proofs, FiniteSetTheorems

-----------------------------------------------------------------------------
(* The heap: the ledger data and the commitments of an object never change. *)

Keeps(new, old) ==
  /\ Len(new) >= Len(old)
  /\ \A k \in 1 .. Len(old) : new[k].data = old[k].data /\ new[k].com = old[k].com

LEMMA Allocated ==
  ASSUME heap \in Seq(Object), NEW object \in Object, Allocate(object)
  PROVE  /\ Fresh \in 1 .. Len(heap') /\ heap'[Fresh] = object
         /\ \A k \in 1 .. Len(heap) : heap'[k] = heap[k]
         /\ Keeps(heap', heap)
<1>1. heap' = Append(heap, object)
  BY DEF Allocate
<1>2. /\ Len(heap') = Len(heap) + 1 /\ heap'[Len(heap) + 1] = object
      /\ \A k \in 1 .. Len(heap) : heap'[k] = heap[k]
  BY <1>1, AppendProperties
<1>3. Len(heap) \in Nat
  BY LenProperties
<1> QED BY <1>2, <1>3 DEF Fresh, Keeps

LEMMA EnterHeapKeeps ==
  ASSUME heap \in Seq(Object), NEW ctx, ContextOK(ctx, Len(heap)), NEW callee \in Addr,
         EnterHeap(ctx, callee)
  PROVE  /\ Keeps(heap', heap)
         /\ ~Known(ctx, callee) => heap'[Fresh].com = 0 /\ heap'[Fresh].data = 0
<1>1. CASE Known(ctx, callee)
  <2> DEFINE ref == ctx.queryContexts[callee]
             object == [heap[ref] EXCEPT !.caller = ctx.cc.addr, !.effects = 0]
  <2>1. ref \in 1 .. Len(heap) /\ heap[ref] \in Object
    <3>1. ref \in 0 .. Len(heap) /\ ref # 0 /\ Len(heap) \in Nat
      BY <1>1, LenProperties DEF ContextOK, Known, NoRef
    <3>2. ref \in 1 .. Len(heap)
      BY <3>1
    <3> QED BY <3>2, ElementOfSeq
  <2>2. heap' = [heap EXCEPT ![ref] = object]
    BY <1>1 DEF EnterHeap
  <2>3. object.data = heap[ref].data /\ object.com = heap[ref].com
    BY <2>1 DEF Object
  <2> HIDE DEF ref, object
  <2>4. Len(heap') = Len(heap) /\ Len(heap) \in Nat
    BY <2>2, LenProperties
  <2>5. \A k \in 1 .. Len(heap) : heap'[k] = IF k = ref THEN object ELSE heap[k]
    BY <2>1, <2>2
  <2> QED BY <1>1, <2>3, <2>4, <2>5 DEF Keeps
<1>2. CASE ~Known(ctx, callee)
  <2> DEFINE object == [data |-> 0, com |-> 0, caller |-> ctx.cc.addr, effects |-> 0]
  <2>1. object \in Object
    BY CellsTyped, CallContextTyped DEF ContextOK, Object
  <2>2. Allocate(object)
    BY <1>2 DEF EnterHeap
  <2>3. object.com = 0 /\ object.data = 0
    OBVIOUS
  <2> HIDE DEF object
  <2> QED BY <2>1, <2>2, <2>3, Allocated
<1> QED BY <1>1, <1>2

(* The object a circuit's operation allocates.                              *)
LEMMA MovedObject ==
  ASSUME heap \in Seq(Object), NEW ref \in 1 .. Len(heap),
         NEW object, object \in {[heap[ref] EXCEPT !.data = @ + 1, !.effects = @ + 1],
                                 [heap[ref] EXCEPT !.com = @ + 1],
                                 [heap[ref] EXCEPT !.effects = @ + 1]}
  PROVE  /\ object \in Object /\ heap[ref].data \in Nat /\ heap[ref].com \in Nat
         /\ heap[ref].effects \in Nat /\ object.caller = heap[ref].caller
         /\ object = [heap[ref] EXCEPT !.data = @ + 1, !.effects = @ + 1] =>
              /\ object.data = heap[ref].data + 1 /\ object.com = heap[ref].com
              /\ object.effects = heap[ref].effects + 1
         /\ object = [heap[ref] EXCEPT !.com = @ + 1] =>
              /\ object.data = heap[ref].data /\ object.com = heap[ref].com + 1
              /\ object.effects = heap[ref].effects
         /\ object = [heap[ref] EXCEPT !.effects = @ + 1] =>
              /\ object.data = heap[ref].data /\ object.com = heap[ref].com
              /\ object.effects = heap[ref].effects + 1
<1> DEFINE o == heap[ref]
           d == o.data + 1
           c == o.com + 1
           e == o.effects + 1
<1>1. o \in Object
  BY ElementOfSeq
<1>2. o.data \in Nat /\ o.com \in Nat /\ o.effects \in Nat
  BY <1>1 DEF Object
<1>3. object \in {[o EXCEPT !.data = d, !.effects = e], [o EXCEPT !.com = c], [o EXCEPT !.effects = e]}
  OBVIOUS
<1>4. object \in Object
  BY <1>1, <1>3, ObjectTyped
<1> HIDE DEF o, d, c, e
<1>5. object.caller = o.caller
  BY <1>1, <1>3 DEF Object
<1>6. object = [o EXCEPT !.data = d, !.effects = e] =>
        object.data = d /\ object.com = o.com /\ object.effects = e
  BY <1>1 DEF Object
<1>7. object = [o EXCEPT !.com = c] =>
        object.data = o.data /\ object.com = c /\ object.effects = o.effects
  BY <1>1 DEF Object
<1>8. object = [o EXCEPT !.effects = e] =>
        object.data = o.data /\ object.com = o.com /\ object.effects = e
  BY <1>1 DEF Object
<1> QED BY <1>2, <1>4, <1>5, <1>6, <1>7, <1>8 DEF o, d, c, e

(* The refs a running stack works on.                                       *)
LEMMA RunningRefs ==
  ASSUME IInv, NEW r \in Runs, status[r] = "running"
  PROVE  /\ heap \in Seq(Object) /\ Len(heap) \in Nat
         /\ Top(r) \in Frame /\ FrameOK(Top(r), Len(heap))
         /\ ContextOK(Top(r).ctx, Len(heap))
         /\ Top(r).ctx.cc.cur \in 1 .. Len(heap)
         /\ Top(r).ppd \in ProofData
         /\ Top(r).pc \in Pending => Top(r).callee \in Addr
         /\ Depth(r) > 1 => stack[r][Depth(r) - 1].saved.cur \in 1 .. Len(heap)
<1>1. Depth(r) > 1 => stack[r][Depth(r) - 1].saved.cur \in 1 .. Len(heap)
  <2>1. Depth(r) > 1 => Depth(r) # 1
    BY TopFacts
  <2> QED BY <2>1, CallerFacts
<1> QED BY <1>1, TopFacts, FrameTyped DEF IInv, FrameOK, ContextOK

LEMMA ShapesKeep ==
  ASSUME IInv, NEW r \in Runs,
         \/ Starts(r) \/ Finishes(r) \/ Fails(r)
         \/ Idles(r) \/ Queries(r) \/ Outputs(r) \/ Enters(r) \/ Returns(r)
  PROVE  Keeps(heap', heap)
<1>1. CASE heap' = heap
  BY <1>1, LenProperties DEF Keeps, IInv
<1>2. CASE /\ status[r] = "running" /\ Top(r).pc = "module"
           /\ EnterHeap(Top(r).ctx, Top(r).callee)
  BY <1>2, RunningRefs, EnterHeapKeeps DEF Pending
<1>3. CASE status[r] = "running" /\ (Queries(r) \/ Outputs(r) \/ Returns(r))
  <2>1. PICK ref \in 1 .. Len(heap) :
          \/ Allocate([heap[ref] EXCEPT !.data = @ + 1, !.effects = @ + 1])
          \/ Allocate([heap[ref] EXCEPT !.com = @ + 1])
          \/ Allocate([heap[ref] EXCEPT !.effects = @ + 1])
    BY <1>3, RunningRefs DEF Queries, Outputs, Returns
  <2>2. heap \in Seq(Object)
    BY DEF IInv
  <2> QED BY <2>1, <2>2, ObjectTyped, Allocated
<1> QED BY <1>1, <1>2, <1>3
        DEF Starts, Finishes, Fails, Idles, Enters, Queries, Outputs, Returns, GoesOn, Goes

-----------------------------------------------------------------------------
(* Coins                                                                    *)

(* A contract is known to a context exactly when it has a Zswap local       *)
(* state, and that lists as many outputs as its ledger holds commitments.   *)
CoinsOK(h, ctx) ==
  \A a \in Addr :
    /\ Known(ctx, a) <=> ctx.zswapLocalStates[a] # Absent
    /\ Known(ctx, a) => h[ctx.queryContexts[a]].com = ctx.zswapLocalStates[a]

KInv ==
  /\ \A r \in Runs : status[r] = "running" => CoinsOK(heap, Top(r).ctx)
  /\ \A r \in Runs : CoinsOK(heap, result[r])
  /\ CoinsOK(heap, InitialContext)

LEMMA CoinsKept ==
  ASSUME NEW h, NEW g, Keeps(g, h), Len(h) \in Nat,
         NEW ctx, ContextOK(ctx, Len(h)), CoinsOK(h, ctx)
  PROVE  CoinsOK(g, ctx)
<1>1. \A a \in Addr : Known(ctx, a) => ctx.queryContexts[a] \in 1 .. Len(h)
  BY DEF ContextOK, Known, NoRef
<1> QED BY <1>1 DEF Keeps, CoinsOK

LEMMA CoinsSame ==
  ASSUME NEW h, NEW c, NEW d, SameMaps(c, d), CoinsOK(h, d)
  PROVE  CoinsOK(h, c)
BY DEF SameMaps, CoinsOK, Known

(* A query of the executing contract leaves its commitments alone.          *)
LEMMA CoinsQueried ==
  ASSUME NEW h, NEW ctx \in CircuitContext, CoinsOK(h, ctx), MapsHold(ctx, ctx.cc),
         Known(ctx, ctx.cc.addr), NEW ref \in Nat \ {0}, NEW cost, NEW logs, NEW old,
         CoinsOK(old, ctx), h[ref].com = old[ctx.cc.cur].com
  PROVE  CoinsOK(h, Queried(ctx, ref, cost, logs))
<1> DEFINE q == Queried(ctx, ref, cost, logs)
           a == ctx.cc.addr
<1>1. /\ \A b \in Addr : q.queryContexts[b] = IF b = a THEN ref ELSE ctx.queryContexts[b]
      /\ q.zswapLocalStates = ctx.zswapLocalStates
  BY QueriedFields
<1>2. a \in Addr /\ ctx.queryContexts[a] = ctx.cc.cur
  BY CellsTyped, CallContextTyped DEF MapsHold
<1>3. h[ref].com = ctx.zswapLocalStates[a] /\ ctx.zswapLocalStates[a] # Absent
  BY <1>2 DEF CoinsOK
<1> HIDE DEF q
<1>4. CoinsOK(h, q)
  BY <1>1, <1>2, <1>3 DEF CoinsOK, Known, NoRef
<1> QED BY <1>4 DEF q

LEMMA CoinsIdle ==
  ASSUME IInv, CInv, KInv, NEW r \in Runs, Idles(r)
  PROVE  CoinsOK(heap', Top(r).ctx')
<1>1. PICK ctx : SameMaps(ctx, Top(r).ctx) /\ GoesOn(r, ctx, Top(r).ppd)
  BY DEF Idles
<1>2. Top(r).ctx' = ctx
  BY <1>1 DEF GoesOn, Top, Depth
<1>3. CoinsOK(heap, ctx)
  BY <1>1, CoinsSame DEF KInv, GoesOn, Goes
<1> QED BY <1>2, <1>3 DEF Idles

LEMMA CoinsQuery ==
  ASSUME IInv, CInv, KInv, NEW r \in Runs, Queries(r)
  PROVE  CoinsOK(heap', Top(r).ctx')
<1> DEFINE old == Top(r).ctx
           ref == old.cc.cur
           object == [heap[ref] EXCEPT !.data = @ + 1, !.effects = @ + 1]
<1>1. PICK cost \in Nat, logs \in Seq(Addr) :
        GoesOn(r, Queried(old, Fresh, cost, logs), [Top(r).ppd EXCEPT !.ops = @ + 1])
  BY DEF Queries
<1>2. status[r] = "running" /\ Top(r).ctx' = Queried(old, Fresh, cost, logs)
  BY <1>1 DEF GoesOn, Goes, Top, Depth
<1>3. /\ heap \in Seq(Object) /\ Len(heap) \in Nat /\ ref \in 1 .. Len(heap)
      /\ ContextOK(old, Len(heap))
  BY <1>2, RunningRefs
<1>4. object \in Object /\ object.com = heap[ref].com
  BY <1>3, MovedObject
<1>5. Allocate(object)
  BY DEF Queries
<1> HIDE DEF object
<1>6. heap'[Fresh] = object /\ Keeps(heap', heap)
  BY <1>3, <1>4, <1>5, Allocated
<1>7. /\ MapsHold(old, old.cc) /\ old \in CircuitContext /\ Known(old, old.cc.addr)
  BY <1>2, TopHolds DEF CInv
<1>8. CoinsOK(heap, old) /\ CoinsOK(heap', old)
  BY <1>2, <1>3, <1>6, CoinsKept DEF KInv
<1>9. Fresh \in Nat \ {0}
  BY <1>3 DEF Fresh
<1> HIDE DEF old, ref
<1> QED BY <1>2, <1>4, <1>6, <1>7, <1>8, <1>9, CoinsQueried DEF ref

(* The commitment and the output are counted together.                      *)
LEMMA CoinsOutput ==
  ASSUME IInv, CInv, KInv, NEW r \in Runs, Outputs(r)
  PROVE  CoinsOK(heap', Top(r).ctx')
<1> DEFINE old == Top(r).ctx
           a == old.cc.addr
           ref == old.cc.cur
           object == [heap[ref] EXCEPT !.com = @ + 1]
           ctx == WithOutput(old, Fresh)
<1>1. status[r] = "running" /\ Top(r).ctx' = ctx
  BY DEF Outputs, GoesOn, Goes, Top, Depth
<1>2. /\ heap \in Seq(Object) /\ Len(heap) \in Nat /\ ref \in 1 .. Len(heap)
      /\ ContextOK(old, Len(heap))
  BY <1>1, RunningRefs
<1>3. object \in Object /\ object.com = heap[ref].com + 1
  BY <1>2, MovedObject
<1>4. Allocate(object)
  BY DEF Outputs
<1> HIDE DEF object
<1>5. heap'[Fresh] = object /\ Keeps(heap', heap)
  BY <1>2, <1>3, <1>4, Allocated
<1>6. /\ MapsHold(old, old.cc) /\ old \in CircuitContext /\ Known(old, a) /\ a \in Addr
  BY <1>1, TopHolds DEF CInv
<1>7. CoinsOK(heap, old) /\ CoinsOK(heap', old)
  BY <1>1, <1>2, <1>5, CoinsKept DEF KInv
<1>8. /\ \A b \in Addr : ctx.queryContexts[b] = IF b = a THEN Fresh ELSE old.queryContexts[b]
      /\ \A b \in Addr :
           ctx.zswapLocalStates[b] = IF b = a THEN old.cc.zs + 1 ELSE old.zswapLocalStates[b]
  BY <1>6, WithOutputFields
<1>9. Fresh \in Nat \ {0} /\ old.cc.zs \in Nat
  BY <1>2, <1>6, CellsTyped, CallContextTyped DEF Fresh
<1>10. heap[ref].com = old.cc.zs
  BY <1>6, <1>7 DEF CoinsOK, MapsHold
<1>11. heap'[Fresh].com = old.cc.zs + 1 /\ old.cc.zs + 1 # Absent
  BY <1>3, <1>5, <1>9, <1>10 DEF Absent
<1> HIDE DEF ctx, old, a
<1>12. CoinsOK(heap', ctx)
  BY <1>7, <1>8, <1>9, <1>11 DEF CoinsOK, Known, NoRef
<1> QED BY <1>1, <1>12

(* A callee met before brings its count back, a new one starts without.     *)
LEMMA CoinsEnter ==
  ASSUME IInv, CInv, KInv, NEW r \in Runs, Enters(r)
  PROVE  CoinsOK(heap', Top(r).ctx')
<1> DEFINE f == Top(r)
           old == f.ctx
           c == f.callee
           ctx == CalleeContext(f)
<1>1. /\ status[r] = "running" /\ f.pc \in Pending /\ EnterHeap(old, c)
      /\ Len(stack'[r]) = Depth(r) + 1 /\ stack'[r][Depth(r) + 1].ctx = ctx
  BY DEF Enters, Goes, Pending
<1>2. Top(r).ctx' = ctx
  BY <1>1 DEF Top, Depth
<1>3. /\ heap \in Seq(Object) /\ Len(heap) \in Nat /\ f \in Frame
      /\ ContextOK(old, Len(heap)) /\ c \in Addr /\ old \in CircuitContext
  BY <1>1, RunningRefs DEF ContextOK
<1>4. Keeps(heap', heap) /\ (~Known(old, c) => heap'[Fresh].com = 0)
  BY <1>1, <1>3, EnterHeapKeeps
<1>5. CoinsOK(heap, old) /\ CoinsOK(heap', old)
  BY <1>1, <1>3, <1>4, CoinsKept DEF KInv
<1>6. /\ ctx.cc.addr = c /\ MapsHold(ctx, ctx.cc)
      /\ ctx.cc.cur = EnteredRef(old, c)
      /\ ctx.cc.zs = IF old.zswapLocalStates[c] = Absent THEN 0 ELSE old.zswapLocalStates[c]
      /\ \A b \in Addr : b # c => AgreeOn(ctx, old, b)
  BY <1>3, CalleeContextHolds
<1> HIDE DEF ctx, old, c
<1>7. /\ ctx.queryContexts[c] = EnteredRef(old, c)
      /\ ctx.zswapLocalStates[c] =
           IF old.zswapLocalStates[c] = Absent THEN 0 ELSE old.zswapLocalStates[c]
  BY <1>6 DEF MapsHold
<1>8. /\ Known(ctx, c) /\ ctx.zswapLocalStates[c] # Absent
      /\ heap'[ctx.queryContexts[c]].com = ctx.zswapLocalStates[c]
  <2>1. CASE Known(old, c)
    BY <1>3, <1>5, <1>7, <2>1 DEF EnteredRef, CoinsOK, Known
  <2>2. CASE ~Known(old, c)
    <3>1. Fresh # NoRef
      BY <1>3 DEF Fresh, NoRef
    <3>2. old.zswapLocalStates[c] = Absent
      BY <1>3, <1>5, <2>2 DEF CoinsOK
    <3> QED BY <1>4, <1>7, <2>2, <3>1, <3>2 DEF EnteredRef, Known, Absent
  <2> QED BY <2>1, <2>2
<1>9. CoinsOK(heap', ctx)
  <2> SUFFICES ASSUME NEW a \in Addr
               PROVE  /\ Known(ctx, a) <=> ctx.zswapLocalStates[a] # Absent
                      /\ Known(ctx, a) =>
                           heap'[ctx.queryContexts[a]].com = ctx.zswapLocalStates[a]
    BY DEF CoinsOK
  <2>1. CASE a = c
    BY <1>8, <2>1
  <2>2. CASE a # c
    BY <1>5, <1>6, <2>2 DEF CoinsOK, AgreeOn, Known
  <2> QED BY <2>1, <2>2
<1> QED BY <1>2, <1>9

LEMMA CoinsReturn ==
  ASSUME IInv, CInv, KInv, NEW r \in Runs, Returns(r)
  PROVE  CoinsOK(heap', Top(r).ctx')
<1> DEFINE k == Depth(r) - 1
           f == stack[r][k]
           old == Top(r).ctx
           back == ReturnedContext(r, f)
           ref == f.saved.cur
           object == [heap[ref] EXCEPT !.effects = @ + 1]
<1>1. PICK cost \in Nat : stack'[r][k].ctx = Queried(back, Fresh, cost, <<>>)
  BY DEF Returns
<1>2. /\ status[r] = "running" /\ Depth(r) > 1 /\ Len(stack'[r]) = k
      /\ Allocate(object)
  BY DEF Returns, Goes
<1>3. Top(r).ctx' = Queried(back, Fresh, cost, <<>>)
  BY <1>1, <1>2 DEF Top, Depth
<1>4. /\ heap \in Seq(Object) /\ Len(heap) \in Nat /\ ref \in 1 .. Len(heap)
      /\ ContextOK(old, Len(heap)) /\ FrameOK(Top(r), Len(heap))
      /\ Depth(r) \in Nat
  BY <1>2, RunningRefs, TopFacts
<1>5. object \in Object /\ object.com = heap[ref].com
  BY <1>4, MovedObject
<1> HIDE DEF object
<1>6. heap'[Fresh] = object /\ Keeps(heap', heap)
  BY <1>2, <1>4, <1>5, Allocated
<1>7. back.cc = f.saved /\ SameMaps(back, old) /\ back \in CircuitContext
  BY <1>2, <1>4, ReturnedFields, ReturnedTyped
<1>8. CoinsOK(heap, back) /\ CoinsOK(heap', back)
  <2>1. CoinsOK(heap, old) /\ CoinsOK(heap', old)
    BY <1>2, <1>4, <1>6, CoinsKept DEF KInv
  <2> QED BY <1>7, <2>1, CoinsSame
<1>9. MapsHold(back, back.cc) /\ Known(back, back.cc.addr)
  <2>1. f.pc = "callee" /\ Known(old, f.saved.addr)
    BY <1>2, <1>4, CallerFacts
  <2>2. Cells(f) = f.saved
    BY <2>1 DEF Cells
  <2>3. k \in 1 .. Depth(r)
    BY <1>2, <1>4
  <2>4. MapsHold(old, f.saved)
    BY <1>2, <2>2, <2>3 DEF CInv, CellsOK, Top, Depth
  <2> QED BY <1>7, <2>1, <2>4 DEF MapsHold, SameMaps, Known
<1>10. Fresh \in Nat \ {0}
  BY <1>4 DEF Fresh
<1>11. heap'[Fresh].com = heap[back.cc.cur].com
  BY <1>5, <1>6, <1>7
<1> HIDE DEF back
<1> QED BY <1>3, <1>7, <1>8, <1>9, <1>10, <1>11, CoinsQueried

LEMMA InitKInv == Init => KInv
<1> SUFFICES ASSUME Init PROVE KInv
  OBVIOUS
<1>1. heap[1].com = 0
  BY DEF Init
<1>2. CoinsOK(heap, InitialContext)
  BY <1>1 DEF CoinsOK, Known, InitialContext, NoRef, Absent
<1> QED BY <1>2 DEF KInv, Init

LEMMA NextKInv == IInv /\ AInv /\ CInv /\ KInv /\ [Next]_vars => KInv'
<1> SUFFICES ASSUME IInv, AInv, CInv, KInv, [Next]_vars PROVE KInv'
  OBVIOUS
<1>1. CASE UNCHANGED vars
  BY <1>1 DEF vars, KInv, Top, Depth
<1>2. CASE Next
  <2>1. PICK r \in Runs : Step(r)
    BY <1>2 DEF Next
  <2>2. IInv' /\ Len(heap) \in Nat /\ Len(heap) > 0
    BY NextIInv, LenProperties DEF IInv
  <2>3. /\ OthersRest(r)
        /\ \/ Starts(r) \/ Finishes(r) \/ Fails(r)
           \/ Idles(r) \/ Queries(r) \/ Outputs(r) \/ Enters(r) \/ Returns(r)
    BY <2>1, <2>2, Shapes
  <2>4. Keeps(heap', heap)
    BY <2>3, ShapesKeep
  <2>5. CoinsOK(heap', InitialContext)
    <3>1. ContextOK(InitialContext, Len(heap))
      BY <2>2, InitialContextOK, ContextMonotonic
    <3> QED BY <2>2, <2>4, <3>1, CoinsKept DEF KInv
  <2>6. \A q \in Runs : CoinsOK(heap', result[q])
    BY <2>2, <2>4, CoinsKept DEF IInv, KInv
  <2>7. \A q \in Runs : status[q] = "running" => CoinsOK(heap', Top(q).ctx)
    BY <2>2, <2>4, CoinsKept, RunningRefs DEF KInv
  <2>8. CoinsOK(heap', result'[r])
    <3>1. CASE Finishes(r)
      <4>1. /\ status[r] = "running" /\ result'[r] = Finalize(Top(r).ctx, Top(r).ppd)
        BY <3>1 DEF Finishes
      <4>2. SameMaps(result'[r], Top(r).ctx)
        BY <4>1, RunningRefs, FinalizeFields DEF ContextOK
      <4> QED BY <2>7, <4>1, <4>2, CoinsSame
    <3>2. CASE result'[r] = result[r]
      BY <2>6, <3>2
    <3> QED BY <2>3, <3>1, <3>2
            DEF Starts, Fails, Idles, Queries, Outputs, Enters, Returns, GoesOn, Goes
  <2>9. status'[r] = "running" => CoinsOK(heap', Top(r).ctx')
    <3>1. CASE Starts(r)
      <4>1. Top(r).ctx' \in HeldContexts
        BY <3>1 DEF Starts, Top, Depth
      <4> QED BY <2>5, <2>6, <4>1 DEF HeldContexts
    <3>2. CASE Finishes(r) \/ Fails(r)
      BY <3>2 DEF Finishes, Fails, Goes
    <3> QED BY <2>3, <3>1, <3>2, CoinsIdle, CoinsQuery, CoinsOutput, CoinsEnter, CoinsReturn
  <2>10. \A q \in Runs : q # r => result'[q] = result[q] /\ status'[q] = status[q]
                                   /\ Top(q).ctx' = Top(q).ctx
    BY <2>3 DEF OthersRest, Top, Depth
  <2>11. \A q \in Runs : CoinsOK(heap', result'[q])
    BY <2>6, <2>8, <2>10
  <2>12. \A q \in Runs : status'[q] = "running" => CoinsOK(heap', Top(q).ctx')
    <3> SUFFICES ASSUME NEW q \in Runs, status'[q] = "running"
                 PROVE  CoinsOK(heap', Top(q).ctx')
      OBVIOUS
    <3>1. CASE q = r
      BY <2>9, <3>1
    <3>2. CASE q # r
      <4>1. CoinsOK(heap', Top(q).ctx)
        BY <2>7, <2>10, <3>2
      <4> QED BY <2>10, <3>2, <4>1
    <3> QED BY <3>1, <3>2
  <2> QED BY <2>5, <2>11, <2>12 DEF KInv
<1> QED BY <1>1, <1>2

(* In every run that has not failed, the coin commitments a known contract  *)
(* inserted and the outputs its Zswap local state lists are equal in        *)
(* number, over nested, repeated, returned and overlapping calls.           *)
THEOREM CoinsAgree == Spec => []CoinsFollowCommitments
<1>1. KInv => CoinsFollowCommitments
  BY DEF KInv, CoinsOK, CoinsFollowCommitments, Sound
<1> QED BY InitIInv, NextIInv, InitAInv, NextAInv, InitCInv, NextCInv, InitKInv, NextKInv,
           <1>1, PTL DEF Spec

-----------------------------------------------------------------------------
(* Public transcripts.  Runs start from the context the application         *)
(* created: a context an earlier run returned keeps that run's initial      *)
(* query context, so what follows would not replay on it.                   *)

TraceReplays(h, tr) ==
  \A k \in 1 .. Len(tr) :
    /\ tr[k].init \in 1 .. Len(h) /\ tr[k].final \in 1 .. Len(h)
    /\ h[tr[k].final].data = h[tr[k].init].data + tr[k].ops

CellsReplay(h, cells, ops) ==
  /\ cells.init \in 1 .. Len(h) /\ cells.cur \in 1 .. Len(h)
  /\ h[cells.cur].data = h[cells.init].data + ops

FrameReplays(h, f) == CellsReplay(h, Cells(f), f.ppd.ops)

RInv ==
  /\ \A r \in Runs : TraceReplays(heap, result[r].trace)
  /\ \A r \in Runs : \A i \in 1 .. Depth(r) : TraceReplays(heap, stack[r][i].ctx.trace)
  /\ \A r \in Runs : status[r] = "running" =>
       \A i \in 1 .. Depth(r) : FrameReplays(heap, stack[r][i])

LEMMA ReplaysKept ==
  ASSUME NEW h, NEW g, Keeps(g, h), Len(h) \in Nat, Len(g) \in Nat,
         NEW tr, TraceReplays(h, tr)
  PROVE  TraceReplays(g, tr)
<1> SUFFICES ASSUME NEW k \in 1 .. Len(tr)
             PROVE  /\ tr[k].init \in 1 .. Len(g) /\ tr[k].final \in 1 .. Len(g)
                    /\ g[tr[k].final].data = g[tr[k].init].data + tr[k].ops
  BY DEF TraceReplays
<1>1. /\ tr[k].init \in 1 .. Len(h) /\ tr[k].final \in 1 .. Len(h)
      /\ h[tr[k].final].data = h[tr[k].init].data + tr[k].ops
  BY DEF TraceReplays
<1>2. /\ g[tr[k].final].data = h[tr[k].final].data
      /\ g[tr[k].init].data = h[tr[k].init].data
  BY <1>1 DEF Keeps
<1>3. tr[k].init \in 1 .. Len(g) /\ tr[k].final \in 1 .. Len(g)
  BY <1>1 DEF Keeps
<1> QED BY <1>1, <1>2, <1>3

LEMMA CellsReplayKept ==
  ASSUME NEW h, NEW g, Keeps(g, h), Len(h) \in Nat, Len(g) \in Nat,
         NEW cells, NEW ops, CellsReplay(h, cells, ops)
  PROVE  CellsReplay(g, cells, ops)
<1>1. /\ cells.init \in 1 .. Len(h) /\ cells.cur \in 1 .. Len(h)
      /\ h[cells.cur].data = h[cells.init].data + ops
  BY DEF CellsReplay
<1>2. /\ cells.init \in 1 .. Len(g) /\ cells.cur \in 1 .. Len(g)
      /\ g[cells.cur].data = h[cells.cur].data
      /\ g[cells.init].data = h[cells.init].data
  BY <1>1 DEF Keeps
<1> QED BY <1>1, <1>2 DEF CellsReplay

(* The entry that ends a trace is the one the executing circuit proves.     *)
EndsWith(tr, old, ctx, ppd) ==
  LET k == Len(old) + 1
  IN /\ Len(tr) = k
     /\ \A j \in 1 .. Len(old) : tr[j] = old[j]
     /\ tr[k].addr = ctx.cc.addr /\ tr[k].init = ctx.cc.init /\ tr[k].final = ctx.cc.cur
     /\ tr[k].ops = ppd.ops /\ tr[k].claims = ppd.claims

LEMMA ReturnedEnds ==
  ASSUME IInv, NEW r \in Runs, status[r] = "running", NEW f
  PROVE  /\ EndsWith(ReturnedContext(r, f).trace, Top(r).ctx.trace, Top(r).ctx, Top(r).ppd)
         /\ ReturnedContext(r, f).trace[Len(Top(r).ctx.trace) + 1].comm = TRUE
<1>1. FrameOK(Top(r), Len(heap)) /\ Len(heap) \in Nat
  BY RunningRefs
<1> DEFINE e == Entered(Top(r).ctx, Top(r).ppd)
           m == [e EXCEPT !.comm = TRUE]
<1>2. /\ m.addr = e.addr /\ m.init = e.init /\ m.final = e.final /\ m.ops = e.ops
      /\ m.claims = e.claims /\ m.comm = TRUE
  BY DEF Entered
<1>3. /\ e.addr = Top(r).ctx.cc.addr /\ e.init = Top(r).ctx.cc.init
      /\ e.final = Top(r).ctx.cc.cur
      /\ e.ops = Top(r).ppd.ops /\ e.claims = Top(r).ppd.claims
  BY DEF Entered
<1> HIDE DEF e
<1> DEFINE q == ReturnedContext(r, f)
<1>4. /\ Len(q.trace) = Len(Top(r).ctx.trace) + 1
      /\ q.trace[Len(Top(r).ctx.trace) + 1] = m
      /\ \A j \in 1 .. Len(Top(r).ctx.trace) : q.trace[j] = Top(r).ctx.trace[j]
  BY <1>1, ReturnedFields DEF e
<1> HIDE DEF q, m
<1>5. /\ EndsWith(q.trace, Top(r).ctx.trace, Top(r).ctx, Top(r).ppd)
      /\ q.trace[Len(Top(r).ctx.trace) + 1].comm = TRUE
  BY <1>2, <1>3, <1>4 DEF EndsWith, m
<1> QED BY <1>5 DEF q

LEMMA FinishedEnds ==
  ASSUME IInv, NEW r \in Runs, status[r] = "running"
  PROVE  LET q == Finalize(Top(r).ctx, Top(r).ppd)
         IN /\ EndsWith(q.trace, Top(r).ctx.trace, Top(r).ctx, Top(r).ppd)
            /\ q.trace[Len(Top(r).ctx.trace) + 1].comm = FALSE
<1> DEFINE q == Finalize(Top(r).ctx, Top(r).ppd)
           e == Entered(Top(r).ctx, Top(r).ppd)
<1>1. Top(r).ctx \in CircuitContext
  BY RunningRefs DEF ContextOK
<1>2. /\ e.addr = Top(r).ctx.cc.addr /\ e.init = Top(r).ctx.cc.init
      /\ e.final = Top(r).ctx.cc.cur /\ e.comm = FALSE
      /\ e.ops = Top(r).ppd.ops /\ e.claims = Top(r).ppd.claims
  BY DEF Entered
<1>3. /\ Len(q.trace) = Len(Top(r).ctx.trace) + 1
      /\ q.trace[Len(Top(r).ctx.trace) + 1] = e
      /\ \A j \in 1 .. Len(Top(r).ctx.trace) : q.trace[j] = Top(r).ctx.trace[j]
  BY <1>1, FinalizeFields
<1> HIDE DEF q, e
<1>4. /\ EndsWith(q.trace, Top(r).ctx.trace, Top(r).ctx, Top(r).ppd)
      /\ q.trace[Len(Top(r).ctx.trace) + 1].comm = FALSE
  BY <1>2, <1>3 DEF EndsWith
<1> QED BY <1>4 DEF q

LEMMA ReplaysExtended ==
  ASSUME NEW h, NEW old, Len(old) \in Nat, TraceReplays(h, old),
         NEW ctx, NEW ppd, CellsReplay(h, ctx.cc, ppd.ops),
         NEW tr, EndsWith(tr, old, ctx, ppd)
  PROVE  TraceReplays(h, tr)
<1> SUFFICES ASSUME NEW k \in 1 .. Len(tr)
             PROVE  /\ tr[k].init \in 1 .. Len(h) /\ tr[k].final \in 1 .. Len(h)
                    /\ h[tr[k].final].data = h[tr[k].init].data + tr[k].ops
  BY DEF TraceReplays
<1>1. CASE k = Len(old) + 1
  BY <1>1 DEF EndsWith, CellsReplay
<1>2. CASE k # Len(old) + 1
  <2>1. k \in 1 .. Len(old) /\ tr[k] = old[k]
    BY <1>2 DEF EndsWith
  <2> QED BY <2>1 DEF TraceReplays
<1> QED BY <1>1, <1>2

(* The frames of a run that goes on, other than those its step made.        *)
LEMMA ReplaysGoOn ==
  ASSUME IInv, IInv', CInv, RInv, NEW r \in Runs, NEW ctx, NEW ppd, GoesOn(r, ctx, ppd),
         Keeps(heap', heap), ctx.trace = Top(r).ctx.trace,
         CellsReplay(heap', ctx.cc, ppd.ops)
  PROVE  \A i \in 1 .. Len(stack'[r]) :
           TraceReplays(heap', stack'[r][i].ctx.trace) /\ FrameReplays(heap', stack'[r][i])
<1> DEFINE t == stack'[r]
           s == stack[r]
           n == Depth(r)
<1>1. /\ status[r] = "running" /\ Len(t) = n
      /\ \A i \in 1 .. n - 1 : t[i] = s[i]
      /\ t[n].ctx = ctx /\ t[n].ppd = ppd /\ t[n].pc # "callee"
  BY DEF GoesOn, Goes
<1>2. n \in Nat \ {0} /\ s[n] = Top(r) /\ Len(heap) \in Nat /\ Len(heap') \in Nat
  BY <1>1, TopFacts, LenProperties DEF Top, IInv
<1>3. \A i \in 1 .. n : TraceReplays(heap, s[i].ctx.trace) /\ FrameReplays(heap, s[i])
  BY <1>1 DEF RInv
<1>4. FrameReplays(heap', t[n])
  BY <1>1 DEF Cells, FrameReplays
<1>5. \A i \in 1 .. n : t[i].ctx.trace = s[i].ctx.trace
  <2>1. \A i \in 1 .. n : i = n \/ i \in 1 .. n - 1
    BY <1>2
  <2> QED BY <1>1, <1>2, <2>1
<1> HIDE DEF t, s, n
<1>6. \A i \in 1 .. n : TraceReplays(heap', t[i].ctx.trace)
  BY <1>2, <1>3, <1>5, ReplaysKept
<1>7. \A i \in 1 .. n : FrameReplays(heap', t[i])
  <2> SUFFICES ASSUME NEW i \in 1 .. n PROVE FrameReplays(heap', t[i])
    OBVIOUS
  <2>1. CASE i = n
    BY <1>4, <2>1
  <2>2. CASE i # n
    <3>1. t[i] = s[i]
      BY <1>1, <1>2, <2>2
    <3> QED BY <1>2, <1>3, <3>1, CellsReplayKept DEF FrameReplays
  <2> QED BY <2>1, <2>2
<1> QED BY <1>1, <1>6, <1>7 DEF t

(* The cells of the executing circuit replay.                               *)
LEMMA TopReplays ==
  ASSUME IInv, CInv, RInv, NEW r \in Runs, status[r] = "running"
  PROVE  /\ CellsReplay(heap, Top(r).ctx.cc, Top(r).ppd.ops)
         /\ TraceReplays(heap, Top(r).ctx.trace)
         /\ Len(Top(r).ctx.trace) \in Nat /\ Top(r).ppd.ops \in Nat
<1>1. Depth(r) \in 1 .. Depth(r)
  BY TopFacts
<1>2. Cells(Top(r)) = Top(r).ctx.cc
  BY TopHolds DEF CInv
<1>3. Top(r).ctx \in CircuitContext /\ Top(r).ppd \in ProofData
  BY RunningRefs DEF ContextOK
<1> QED BY <1>1, <1>2, <1>3, CellsTyped, LenProperties
        DEF RInv, FrameReplays, Top, ProofData

(* A step that moves the cell to a fresh object with more of the ledger.    *)
LEMMA CellsReplayMoved ==
  ASSUME NEW cells, NEW ops \in Nat, CellsReplay(heap, cells, ops),
         Keeps(heap', heap), heap \in Seq(Object), heap' \in Seq(Object),
         NEW d \in {0, 1}, Fresh \in 1 .. Len(heap'),
         heap'[Fresh].data = heap[cells.cur].data + d,
         NEW moved, moved.init = cells.init, moved.cur = Fresh
  PROVE  CellsReplay(heap', moved, ops + d)
<1>1. /\ cells.init \in 1 .. Len(heap) /\ cells.cur \in 1 .. Len(heap)
      /\ heap[cells.cur].data = heap[cells.init].data + ops
  BY DEF CellsReplay
<1>2. heap[cells.init].data \in Nat
  <2>1. heap[cells.init] \in Object
    BY <1>1, ElementOfSeq
  <2> QED BY <2>1 DEF Object
<1>3. /\ heap'[cells.init].data = heap[cells.init].data
      /\ cells.init \in 1 .. Len(heap')
  BY <1>1, LenProperties DEF Keeps
<1>4. heap'[Fresh].data = heap'[cells.init].data + (ops + d)
  BY <1>1, <1>2, <1>3
<1> QED BY <1>3, <1>4 DEF CellsReplay

LEMMA ReplaysIdle ==
  ASSUME IInv, IInv', CInv, RInv, NEW r \in Runs, Idles(r)
  PROVE  \A i \in 1 .. Len(stack'[r]) :
           TraceReplays(heap', stack'[r][i].ctx.trace) /\ FrameReplays(heap', stack'[r][i])
<1>1. PICK ctx \in CircuitContext :
        /\ SameCells(ctx.cc, Top(r).ctx.cc) /\ ctx.trace = Top(r).ctx.trace
        /\ GoesOn(r, ctx, Top(r).ppd)
  BY DEF Idles
<1>2. heap' = heap /\ Keeps(heap', heap)
  BY ShapesKeep DEF Idles
<1>3. CellsReplay(heap, Top(r).ctx.cc, Top(r).ppd.ops)
  BY <1>1, TopReplays DEF GoesOn, Goes
<1>4. CellsReplay(heap', ctx.cc, Top(r).ppd.ops)
  BY <1>1, <1>2, <1>3 DEF CellsReplay, SameCells
<1> QED BY <1>1, <1>2, <1>4, ReplaysGoOn

LEMMA ReplaysQuery ==
  ASSUME IInv, IInv', CInv, RInv, NEW r \in Runs, Queries(r)
  PROVE  \A i \in 1 .. Len(stack'[r]) :
           TraceReplays(heap', stack'[r][i].ctx.trace) /\ FrameReplays(heap', stack'[r][i])
<1> DEFINE old == Top(r).ctx
           ref == old.cc.cur
           object == [heap[ref] EXCEPT !.data = @ + 1, !.effects = @ + 1]
           ppd == [Top(r).ppd EXCEPT !.ops = @ + 1]
<1>1. PICK cost \in Nat, logs \in Seq(Addr) : GoesOn(r, Queried(old, Fresh, cost, logs), ppd)
  BY DEF Queries
<1> DEFINE ctx == Queried(old, Fresh, cost, logs)
<1>2. status[r] = "running"
  BY <1>1 DEF GoesOn, Goes
<1>3. /\ heap \in Seq(Object) /\ heap' \in Seq(Object) /\ ref \in 1 .. Len(heap)
      /\ old \in CircuitContext /\ Top(r).ppd \in ProofData
  BY <1>2, RunningRefs DEF IInv, ContextOK
<1>4. object \in Object /\ object.data = heap[ref].data + 1
  BY <1>3, MovedObject
<1>5. Allocate(object)
  BY DEF Queries
<1> HIDE DEF object
<1>6. Fresh \in 1 .. Len(heap') /\ heap'[Fresh] = object /\ Keeps(heap', heap)
  BY <1>3, <1>4, <1>5, Allocated
<1>7. ctx.cc.init = old.cc.init /\ ctx.cc.cur = Fresh /\ ctx.trace = old.trace
  BY <1>3, QueriedFields
<1>8. CellsReplay(heap, old.cc, Top(r).ppd.ops) /\ Top(r).ppd.ops \in Nat
  BY <1>2, TopReplays
<1>9. ppd.ops = Top(r).ppd.ops + 1
  BY <1>3 DEF ProofData
<1> HIDE DEF ctx, ppd
<1>10. CellsReplay(heap', ctx.cc, ppd.ops)
  BY <1>3, <1>4, <1>6, <1>7, <1>8, <1>9, CellsReplayMoved
<1>11. GoesOn(r, ctx, ppd)
  BY <1>1 DEF ctx
<1> QED BY <1>6, <1>7, <1>10, <1>11, ReplaysGoOn

LEMMA ReplaysOutput ==
  ASSUME IInv, IInv', CInv, RInv, NEW r \in Runs, Outputs(r)
  PROVE  \A i \in 1 .. Len(stack'[r]) :
           TraceReplays(heap', stack'[r][i].ctx.trace) /\ FrameReplays(heap', stack'[r][i])
<1> DEFINE old == Top(r).ctx
           ref == old.cc.cur
           object == [heap[ref] EXCEPT !.com = @ + 1]
           ctx == WithOutput(old, Fresh)
           ops == Top(r).ppd.ops
<1>1. GoesOn(r, ctx, Top(r).ppd) /\ status[r] = "running" /\ Allocate(object)
  BY DEF Outputs, GoesOn, Goes
<1>2. /\ heap \in Seq(Object) /\ heap' \in Seq(Object) /\ ref \in 1 .. Len(heap)
      /\ old \in CircuitContext
  BY <1>1, RunningRefs DEF IInv, ContextOK
<1>3. object \in Object /\ object.data = heap[ref].data /\ heap[ref].data \in Nat
  BY <1>2, MovedObject
<1> HIDE DEF object
<1>4. Fresh \in 1 .. Len(heap') /\ heap'[Fresh] = object /\ Keeps(heap', heap)
  BY <1>1, <1>2, <1>3, Allocated
<1>5. ctx.cc.init = old.cc.init /\ ctx.cc.cur = Fresh /\ ctx.trace = old.trace
  BY <1>2, WithOutputFields
<1>6. CellsReplay(heap, old.cc, ops) /\ ops \in Nat
  BY <1>1, TopReplays
<1>7. heap'[Fresh].data = heap[ref].data + 0 /\ ops + 0 = ops
  BY <1>3, <1>4, <1>6
<1> HIDE DEF ctx, ops
<1>8. CellsReplay(heap', ctx.cc, ops)
  BY <1>2, <1>4, <1>5, <1>6, <1>7, CellsReplayMoved
<1> QED BY <1>1, <1>4, <1>5, <1>8, ReplaysGoOn DEF ops

(* The circuit a return goes back to was waiting, with typed proof data.    *)
LEMMA WaitingCaller ==
  ASSUME IInv, NEW r \in Runs, status[r] = "running", Depth(r) > 1
  PROVE  /\ stack[r][Depth(r) - 1].pc = "callee"
         /\ stack[r][Depth(r) - 1].ppd \in ProofData
<1> DEFINE f == stack[r][Depth(r) - 1]
<1>1. Depth(r) # 1
  BY TopFacts
<1>2. f \in Frame /\ f.pc = "callee"
  BY <1>1, CallerFacts
<1> QED BY <1>2, FrameTyped

(* The callee starts where its transcript starts.                           *)
LEMMA ReplaysEnter ==
  ASSUME IInv, IInv', CInv, RInv, NEW r \in Runs, Enters(r)
  PROVE  \A i \in 1 .. Len(stack'[r]) :
           TraceReplays(heap', stack'[r][i].ctx.trace) /\ FrameReplays(heap', stack'[r][i])
<1> DEFINE s == stack[r]
           t == stack'[r]
           n == Depth(r)
           f == Top(r)
           ctx == CalleeContext(f)
<1>1. /\ status[r] = "running" /\ f.pc \in Pending /\ Len(t) = n + 1
      /\ \A i \in 1 .. n - 1 : t[i] = s[i]
      /\ t[n].pc = "callee" /\ t[n].saved = f.ctx.cc /\ t[n].ppd = f.ppd /\ t[n].ctx = ctx
      /\ t[n + 1].pc = "run" /\ t[n + 1].ppd = EmptyProofData /\ t[n + 1].ctx = ctx
  BY DEF Enters, Goes, Pending
<1>2. /\ n \in Nat \ {0} /\ s[n] = f /\ Len(heap) \in Nat /\ Len(heap') \in Nat
      /\ f \in Frame /\ f.callee \in Addr /\ ContextOK(f.ctx, Len(heap))
      /\ Keeps(heap', heap)
  BY <1>1, TopFacts, RunningRefs, LenProperties, ShapesKeep DEF Top, IInv
<1>3. \A i \in 1 .. n : TraceReplays(heap, s[i].ctx.trace) /\ FrameReplays(heap, s[i])
  BY <1>1 DEF RInv
<1>4. /\ ctx.cc.init = ctx.cc.cur /\ ctx.trace = f.ctx.trace
  BY <1>2, CalleeContextHolds
<1>5. Cells(f) = f.ctx.cc
  BY <1>1, TopHolds DEF CInv
<1>6. Cells(t[n]) = Cells(f) /\ Cells(t[n + 1]) = ctx.cc
  BY <1>1, <1>5 DEF Cells
<1>7. ctx.cc.cur \in 1 .. Len(heap') /\ heap'[ctx.cc.cur].data \in Nat
  <2>1. FrameOK(t[n + 1], Len(heap')) /\ heap' \in Seq(Object)
    <3>1. n + 1 \in 1 .. Len(t)
      BY <1>1, <1>2
    <3> QED BY <3>1 DEF IInv, StackOK
  <2>2. ctx.cc.cur \in 1 .. Len(heap')
    BY <1>1, <2>1 DEF FrameOK, ContextOK
  <2>3. heap'[ctx.cc.cur] \in Object
    BY <2>1, <2>2, ElementOfSeq
  <2> QED BY <2>2, <2>3 DEF Object
<1> HIDE DEF t, s, n, ctx
<1>8. FrameReplays(heap', t[n + 1])
  BY <1>1, <1>4, <1>6, <1>7 DEF FrameReplays, CellsReplay, EmptyProofData
<1>9. TraceReplays(heap', ctx.trace)
  <2>1. n \in 1 .. n
    BY <1>2
  <2>2. TraceReplays(heap, f.ctx.trace)
    BY <1>2, <1>3, <2>1
  <2> QED BY <1>2, <1>4, <2>2, ReplaysKept
<1>10. ASSUME NEW i \in 1 .. n + 1
       PROVE  TraceReplays(heap', t[i].ctx.trace) /\ FrameReplays(heap', t[i])
  <2>1. CASE i = n + 1
    BY <1>1, <1>8, <1>9, <2>1
  <2>2. CASE i = n
    <3>1. FrameReplays(heap, f)
      BY <1>2, <1>3, <2>2
    <3>2. FrameReplays(heap', t[n])
      BY <1>1, <1>2, <1>6, <3>1, CellsReplayKept DEF FrameReplays
    <3> QED BY <1>1, <1>9, <2>2, <3>2
  <2>3. CASE i \in 1 .. n - 1
    <3>1. t[i] = s[i] /\ i \in 1 .. n
      BY <1>1, <1>2, <2>3
    <3> QED BY <1>2, <1>3, <3>1, ReplaysKept, CellsReplayKept DEF FrameReplays
  <2> QED BY <1>2, <2>1, <2>2, <2>3
<1> QED BY <1>1, <1>10 DEF t

LEMMA ReplaysReturn ==
  ASSUME IInv, IInv', CInv, RInv, NEW r \in Runs, Returns(r)
  PROVE  \A i \in 1 .. Len(stack'[r]) :
           TraceReplays(heap', stack'[r][i].ctx.trace) /\ FrameReplays(heap', stack'[r][i])
<1> DEFINE s == stack[r]
           t == stack'[r]
           n == Depth(r)
           k == n - 1
           f == s[k]
           back == ReturnedContext(r, f)
           ref == f.saved.cur
           object == [heap[ref] EXCEPT !.effects = @ + 1]
           ops == f.ppd.ops
<1>1. PICK cost \in Nat : t[k].ctx = Queried(back, Fresh, cost, <<>>)
  BY DEF Returns
<1> DEFINE ctx == Queried(back, Fresh, cost, <<>>)
<1>2. /\ status[r] = "running" /\ n > 1 /\ Len(t) = k
      /\ \A i \in 1 .. n - 2 : t[i] = s[i]
      /\ t[k].pc # "callee" /\ t[k].ctx = ctx
      /\ t[k].ppd = [f.ppd EXCEPT !.claims = @ \cup {Len(Top(r).ctx.trace) + 1}]
      /\ Allocate(object)
  BY <1>1 DEF Returns, Goes
<1>3. /\ n \in Nat /\ k \in Nat \ {0} /\ n - 2 = k - 1 /\ n = k + 1
      /\ heap \in Seq(Object) /\ heap' \in Seq(Object) /\ ref \in 1 .. Len(heap)
      /\ FrameOK(Top(r), Len(heap)) /\ Len(heap) \in Nat /\ Len(heap') \in Nat
  BY <1>2, TopFacts, RunningRefs, LenProperties, SMTT(20) DEF IInv
<1>4. f.pc = "callee" /\ f.ppd \in ProofData
  BY <1>2, WaitingCaller
<1>5. object \in Object /\ object.data = heap[ref].data /\ heap[ref].data \in Nat
  BY <1>3, MovedObject
<1> HIDE DEF object
<1>6. Fresh \in 1 .. Len(heap') /\ heap'[Fresh] = object /\ Keeps(heap', heap)
  BY <1>2, <1>3, <1>5, Allocated
<1>7. back.cc = f.saved /\ back \in CircuitContext
  BY <1>2, <1>3, ReturnedFields, ReturnedTyped
<1>8. /\ ctx.cc.init = f.saved.init /\ ctx.cc.cur = Fresh /\ ctx.trace = back.trace
  BY <1>7, QueriedFields
<1>9. TraceReplays(heap, back.trace)
  <2>1. EndsWith(back.trace, Top(r).ctx.trace, Top(r).ctx, Top(r).ppd)
    BY <1>2, ReturnedEnds
  <2>2. /\ CellsReplay(heap, Top(r).ctx.cc, Top(r).ppd.ops)
        /\ TraceReplays(heap, Top(r).ctx.trace) /\ Len(Top(r).ctx.trace) \in Nat
    BY <1>2, TopReplays
  <2> HIDE DEF back
  <2> QED BY <2>1, <2>2, ReplaysExtended
<1>10. t[k].ppd.ops = ops /\ ops \in Nat
  BY <1>2, <1>4 DEF ProofData
<1>11. \A i \in 1 .. n : TraceReplays(heap, s[i].ctx.trace) /\ FrameReplays(heap, s[i])
  BY <1>2 DEF RInv
<1>12. CellsReplay(heap, f.saved, ops)
  <2>1. k \in 1 .. n
    BY <1>3
  <2>2. FrameReplays(heap, f)
    BY <1>11, <2>1
  <2> QED BY <1>4, <2>2 DEF FrameReplays, Cells
<1>13. heap'[Fresh].data = heap[ref].data + 0 /\ ops + 0 = ops
  BY <1>5, <1>6, <1>10
<1> HIDE DEF ctx, ops, back
<1>14. CellsReplay(heap', ctx.cc, ops)
  <2>1. CellsReplay(heap', ctx.cc, ops + 0)
    BY <1>3, <1>6, <1>8, <1>10, <1>12, <1>13, CellsReplayMoved
  <2> QED BY <1>13, <2>1
<1>15. FrameReplays(heap', t[k])
  BY <1>2, <1>10, <1>14 DEF FrameReplays, Cells
<1>16. TraceReplays(heap', t[k].ctx.trace)
  BY <1>2, <1>3, <1>6, <1>8, <1>9, ReplaysKept
<1> HIDE DEF t, s, n, k, f
<1>17. ASSUME NEW i \in 1 .. k
       PROVE  TraceReplays(heap', t[i].ctx.trace) /\ FrameReplays(heap', t[i])
  <2>1. CASE i = k
    BY <1>15, <1>16, <2>1
  <2>2. CASE i # k
    <3>1. t[i] = s[i] /\ i \in 1 .. n
      BY <1>2, <1>3, <2>2
    <3> QED BY <1>3, <1>6, <1>11, <3>1, ReplaysKept, CellsReplayKept DEF FrameReplays
  <2> QED BY <2>1, <2>2
<1> QED BY <1>2, <1>17 DEF t

LEMMA ReplaysStart ==
  ASSUME ~Reuse, IInv, NEW r \in Runs, Starts(r)
  PROVE  \A i \in 1 .. Len(stack'[r]) :
           TraceReplays(heap', stack'[r][i].ctx.trace) /\ FrameReplays(heap', stack'[r][i])
<1> DEFINE f == stack'[r][1]
<1>1. /\ Len(stack'[r]) = 1 /\ f.ctx = InitialContext
      /\ f.ppd = EmptyProofData /\ f.pc = "run" /\ heap' = heap
  BY DEF Starts, HeldContexts
<1>2. TraceReplays(heap', f.ctx.trace)
  BY <1>1 DEF TraceReplays, InitialContext
<1>3. /\ Cells(f).init = 1 /\ Cells(f).cur = 1 /\ f.ppd.ops = 0
  BY <1>1 DEF Cells, InitialContext, EmptyProofData
<1>4. 1 \in 1 .. Len(heap) /\ heap[1].data \in Nat
  <2>1. 1 \in 1 .. Len(heap)
    BY LenProperties DEF IInv
  <2>2. heap[1] \in Object
    BY <2>1, ElementOfSeq DEF IInv
  <2> QED BY <2>1, <2>2 DEF Object
<1> HIDE DEF f
<1>5. FrameReplays(heap', f)
  BY <1>1, <1>3, <1>4 DEF FrameReplays, CellsReplay
<1> QED BY <1>1, <1>2, <1>5 DEF f

(* Of a run that fails only the traces are left.                            *)
LEMMA ReplaysFail ==
  ASSUME IInv, CInv, RInv, NEW r \in Runs, Fails(r)
  PROVE  \A i \in 1 .. Len(stack'[r]) : TraceReplays(heap, stack'[r][i].ctx.trace)
<1> SUFFICES ASSUME NEW i \in 1 .. Len(stack'[r])
             PROVE  TraceReplays(heap, stack'[r][i].ctx.trace)
  OBVIOUS
<1>1. CASE stack'[r][i].ctx.trace = stack[r][i].ctx.trace
  <2>1. Depth(r) \in Nat
    BY LenProperties DEF Depth, IInv
  <2>2. i \in 1 .. Depth(r)
    BY <2>1 DEF Fails
  <2> QED BY <1>1, <2>2 DEF RInv
<1>2. CASE /\ status[r] = "running"
           /\ stack'[r][i].ctx.trace = ReturnedContext(r, stack[r][i]).trace
  <2> DEFINE back == ReturnedContext(r, stack[r][i])
  <2>1. EndsWith(back.trace, Top(r).ctx.trace, Top(r).ctx, Top(r).ppd)
    BY <1>2, ReturnedEnds
  <2>2. /\ CellsReplay(heap, Top(r).ctx.cc, Top(r).ppd.ops)
        /\ TraceReplays(heap, Top(r).ctx.trace) /\ Len(Top(r).ctx.trace) \in Nat
    BY <1>2, TopReplays
  <2> HIDE DEF back
  <2>3. TraceReplays(heap, back.trace)
    BY <2>1, <2>2, ReplaysExtended
  <2> QED BY <1>2, <2>3 DEF back
<1> QED BY <1>1, <1>2 DEF Fails

LEMMA ReplaysFinish ==
  ASSUME IInv, CInv, RInv, NEW r \in Runs, Finishes(r)
  PROVE  TraceReplays(heap, result'[r].trace)
<1> DEFINE q == Finalize(Top(r).ctx, Top(r).ppd)
<1>1. status[r] = "running" /\ result'[r] = q
  BY DEF Finishes
<1>2. EndsWith(q.trace, Top(r).ctx.trace, Top(r).ctx, Top(r).ppd)
  BY <1>1, FinishedEnds
<1>3. /\ CellsReplay(heap, Top(r).ctx.cc, Top(r).ppd.ops)
      /\ TraceReplays(heap, Top(r).ctx.trace) /\ Len(Top(r).ctx.trace) \in Nat
  BY <1>1, TopReplays
<1> HIDE DEF q
<1>4. TraceReplays(heap, q.trace)
  BY <1>2, <1>3, ReplaysExtended
<1> QED BY <1>1, <1>4

LEMMA InitRInv == Init => RInv
<1> SUFFICES ASSUME Init PROVE RInv
  OBVIOUS
<1>1. \A r \in Runs : Depth(r) = 0 /\ result[r].trace = <<>> /\ status[r] = "idle"
  BY DEF Init, Depth, InitialContext
<1>2. \A h : TraceReplays(h, <<>>)
  BY DEF TraceReplays
<1>3. \A i : i \notin 1 .. 0
  OBVIOUS
<1>4. \A r \in Runs : TraceReplays(heap, result[r].trace)
  BY <1>1, <1>2
<1> QED BY <1>1, <1>3, <1>4 DEF RInv

LEMMA NextRInv == ~Reuse /\ IInv /\ AInv /\ CInv /\ RInv /\ [Next]_vars => RInv'
<1> SUFFICES ASSUME ~Reuse, IInv, AInv, CInv, RInv, [Next]_vars PROVE RInv'
  OBVIOUS
<1>1. CASE UNCHANGED vars
  BY <1>1 DEF vars, RInv, Depth
<1>2. CASE Next
  <2>1. PICK r \in Runs : Step(r)
    BY <1>2 DEF Next
  <2>2. IInv' /\ Len(heap) \in Nat /\ Len(heap') \in Nat
    BY NextIInv, LenProperties DEF IInv
  <2>3. /\ OthersRest(r)
        /\ \/ Starts(r) \/ Finishes(r) \/ Fails(r)
           \/ Idles(r) \/ Queries(r) \/ Outputs(r) \/ Enters(r) \/ Returns(r)
    BY <2>1, <2>2, Shapes
  <2>4. Keeps(heap', heap)
    BY <2>3, ShapesKeep
  <2>5. \A q \in Runs : TraceReplays(heap', result[q].trace)
    BY <2>2, <2>4, ReplaysKept DEF RInv
  <2>6. TraceReplays(heap', result'[r].trace)
    <3>1. CASE Finishes(r)
      BY <2>2, <2>4, <3>1, ReplaysFinish, ReplaysKept
    <3>2. CASE result'[r] = result[r]
      BY <2>5, <3>2
    <3> QED BY <2>3, <3>1, <3>2
            DEF Starts, Fails, Idles, Queries, Outputs, Enters, Returns, GoesOn, Goes
  <2>7. \A i \in 1 .. Len(stack'[r]) :
          /\ TraceReplays(heap', stack'[r][i].ctx.trace)
          /\ status'[r] = "running" => FrameReplays(heap', stack'[r][i])
    <3>1. CASE Finishes(r)
      BY <3>1 DEF Finishes
    <3>2. CASE Fails(r)
      <4>1. status'[r] # "running"
        BY <3>2 DEF Fails, Goes
      <4>2. \A i \in 1 .. Len(stack'[r]) : TraceReplays(heap, stack'[r][i].ctx.trace)
        BY <3>2, ReplaysFail
      <4> QED BY <2>2, <2>4, <4>1, <4>2, ReplaysKept
    <3> QED BY <2>2, <2>3, <3>1, <3>2, ReplaysStart, ReplaysIdle, ReplaysQuery, ReplaysOutput,
               ReplaysEnter, ReplaysReturn
  <2>8. ASSUME NEW q \in Runs, q # r
        PROVE  /\ TraceReplays(heap', result'[q].trace)
               /\ \A i \in 1 .. Len(stack'[q]) :
                    /\ TraceReplays(heap', stack'[q][i].ctx.trace)
                    /\ status'[q] = "running" => FrameReplays(heap', stack'[q][i])
    <3>1. stack'[q] = stack[q] /\ status'[q] = status[q] /\ result'[q] = result[q]
      BY <2>3, <2>8 DEF OthersRest
    <3>2. \A i \in 1 .. Len(stack[q]) :
            /\ TraceReplays(heap, stack[q][i].ctx.trace)
            /\ status[q] = "running" => FrameReplays(heap, stack[q][i])
      BY DEF RInv, Depth
    <3>3. \A i \in 1 .. Len(stack[q]) :
            /\ TraceReplays(heap', stack[q][i].ctx.trace)
            /\ status[q] = "running" => FrameReplays(heap', stack[q][i])
      BY <2>2, <2>4, <3>2, ReplaysKept, CellsReplayKept DEF FrameReplays
    <3> QED BY <2>5, <3>1, <3>3
  <2>9. \A q \in Runs :
          /\ TraceReplays(heap', result'[q].trace)
          /\ \A i \in 1 .. Len(stack'[q]) :
               /\ TraceReplays(heap', stack'[q][i].ctx.trace)
               /\ status'[q] = "running" => FrameReplays(heap', stack'[q][i])
    BY <2>6, <2>7, <2>8
  <2>10. RInv'
    BY <2>9 DEF RInv, Depth
  <2> QED BY <2>10
<1> QED BY <1>1, <1>2

(* Replaying the public transcript of any call a run has proved on the      *)
(* initial query context of its entry gives the ledger data of its final    *)
(* one: no query was counted that the cells did not take, or the other way  *)
(* round, in any nesting and on any run.                                    *)
THEOREM TranscriptsReplay ==
  ASSUME ~Reuse
  PROVE  Spec => []LedgerReplays
<1>1. IInv /\ RInv => LedgerReplays
  <2> SUFFICES ASSUME IInv, RInv, NEW tr \in Traces
               PROVE  TraceReplays(heap, tr)
    BY DEF LedgerReplays, TraceReplays
  <2>1. CASE \E r \in Runs : tr = result[r].trace
    BY <2>1 DEF RInv
  <2>2. CASE \E r \in Started : tr = Top(r).ctx.trace
    <3>1. PICK r \in Started : tr = Top(r).ctx.trace
      BY <2>2
    <3>2. r \in Runs /\ Depth(r) \in 1 .. Depth(r)
      BY <3>1, TopFacts DEF Started
    <3> QED BY <3>1, <3>2 DEF RInv, Top
  <2> QED BY <2>1, <2>2 DEF Traces
<1>2. IInv /\ AInv /\ CInv /\ RInv /\ [Next]_vars => RInv'
  BY NextRInv
<1> QED BY InitIInv, NextIInv, InitAInv, NextAInv, InitCInv, NextCInv, InitRInv, <1>1, <1>2,
           PTL DEF Spec

-----------------------------------------------------------------------------
(* Consecutive calls to one contract.                                       *)

TraceChained(h, tr) ==
  \A j, k \in 1 .. Len(tr) :
    /\ j < k
    /\ tr[j].addr = tr[k].addr
    /\ \A m \in j + 1 .. k - 1 : tr[m].addr # tr[j].addr
    => h[tr[j].final].data = h[tr[k].init].data

(* The last call to a that the trace holds left the ledger data d.          *)
Left(h, tr, a, d) ==
  \A j \in 1 .. Len(tr) :
    tr[j].addr = a /\ (\A m \in j + 1 .. Len(tr) : tr[m].addr # a) => h[tr[j].final].data = d

(* The circuit of a contract on the stack started from what the last call   *)
(* to it left; any other contract the context knows is as that left it.     *)
StackChained(h, s) ==
  LET ctx == s[Len(s)].ctx
      tr == ctx.trace
  IN /\ \A k \in 1 .. Len(tr) : Known(ctx, tr[k].addr)
     /\ \A i \in 1 .. Len(s) : Left(h, tr, Home(s[i]), h[Cells(s[i]).init].data)
     /\ \A a \in Addr : (\A i \in 1 .. Len(s) : Home(s[i]) # a) /\ Known(ctx, a) =>
          Left(h, tr, a, h[ctx.queryContexts[a]].data)

SInv ==
  /\ \A r \in Runs : TraceChained(heap, result[r].trace)
  /\ \A r \in Runs : \A i \in 1 .. Depth(r) : TraceChained(heap, stack[r][i].ctx.trace)
  /\ \A r \in Runs : status[r] = "running" => StackChained(heap, stack[r])

LEMMA ChainedKept ==
  ASSUME NEW h, NEW g, Keeps(g, h), NEW tr, TraceReplays(h, tr), TraceChained(h, tr)
  PROVE  TraceChained(g, tr)
<1>1. \A k \in 1 .. Len(tr) :
        g[tr[k].final].data = h[tr[k].final].data /\ g[tr[k].init].data = h[tr[k].init].data
  BY DEF TraceReplays, Keeps
<1> QED BY <1>1 DEF TraceChained

LEMMA LeftKept ==
  ASSUME NEW h, NEW g, Keeps(g, h), NEW tr, TraceReplays(h, tr),
         NEW a, NEW ref \in 1 .. Len(h), Left(h, tr, a, h[ref].data)
  PROVE  Left(g, tr, a, g[ref].data)
<1>1. \A k \in 1 .. Len(tr) : g[tr[k].final].data = h[tr[k].final].data
  BY DEF TraceReplays, Keeps
<1>2. g[ref].data = h[ref].data
  BY DEF Keeps
<1> QED BY <1>1, <1>2 DEF Left

(* What the entry that ends a trace says of its own contract and leaves to  *)
(* say of the others.                                                       *)
LEMMA LeftOther ==
  ASSUME NEW h, NEW old, Len(old) \in Nat, NEW ctx, NEW ppd, NEW tr, EndsWith(tr, old, ctx, ppd),
         NEW a, a # ctx.cc.addr, NEW d, Left(h, old, a, d)
  PROVE  Left(h, tr, a, d)
<1> SUFFICES ASSUME NEW j \in 1 .. Len(tr), tr[j].addr = a,
                    \A m \in j + 1 .. Len(tr) : tr[m].addr # a
             PROVE  h[tr[j].final].data = d
  BY DEF Left
<1>1. j \in 1 .. Len(old)
  BY DEF EndsWith
<1>2. tr[j] = old[j] /\ \A m \in j + 1 .. Len(old) : tr[m] = old[m] /\ m \in j + 1 .. Len(tr)
  BY <1>1 DEF EndsWith
<1> QED BY <1>1, <1>2 DEF Left

LEMMA LeftNew ==
  ASSUME NEW h, NEW old, Len(old) \in Nat, NEW ctx, NEW ppd, NEW tr, EndsWith(tr, old, ctx, ppd)
  PROVE  Left(h, tr, ctx.cc.addr, h[ctx.cc.cur].data)
<1> DEFINE n == Len(old) + 1
<1>1. Len(tr) = n /\ n \in Nat /\ tr[n].addr = ctx.cc.addr /\ tr[n].final = ctx.cc.cur
  BY DEF EndsWith
<1> HIDE DEF n
<1> SUFFICES ASSUME NEW j \in 1 .. n, \A m \in j + 1 .. n : tr[m].addr # ctx.cc.addr
             PROVE  h[tr[j].final].data = h[ctx.cc.cur].data
  BY <1>1 DEF Left
<1>2. j = n
  <2>1. j # n => n \in j + 1 .. n
    BY <1>1
  <2> QED BY <1>1, <2>1
<1> QED BY <1>1, <1>2

LEMMA ChainedExtended ==
  ASSUME NEW h, NEW old, Len(old) \in Nat, NEW ctx, NEW ppd, NEW tr, EndsWith(tr, old, ctx, ppd),
         TraceChained(h, old), Left(h, old, ctx.cc.addr, h[ctx.cc.init].data)
  PROVE  TraceChained(h, tr)
<1> SUFFICES ASSUME NEW j \in 1 .. Len(tr), NEW k \in 1 .. Len(tr), j < k,
                    tr[j].addr = tr[k].addr,
                    \A m \in j + 1 .. k - 1 : tr[m].addr # tr[j].addr
             PROVE  h[tr[j].final].data = h[tr[k].init].data
  BY DEF TraceChained
<1>1. j \in 1 .. Len(old) /\ tr[j] = old[j]
  BY DEF EndsWith
<1>2. \A m \in j + 1 .. k - 1 : m \in 1 .. Len(old) /\ tr[m] = old[m]
  BY DEF EndsWith
<1>3. CASE k = Len(old) + 1
  <2>1. tr[k].addr = ctx.cc.addr /\ tr[k].init = ctx.cc.init
    BY <1>3 DEF EndsWith
  <2>2. \A m \in j + 1 .. Len(old) : old[m].addr # ctx.cc.addr
    <3>1. k - 1 = Len(old)
      BY <1>3
    <3> QED BY <1>2, <2>1, <3>1
  <2> QED BY <1>1, <2>1, <2>2 DEF Left
<1>4. CASE k # Len(old) + 1
  <2>1. Len(tr) = Len(old) + 1 /\ \A m \in 1 .. Len(old) : tr[m] = old[m]
    BY DEF EndsWith
  <2>2. k \in 1 .. Len(old)
    BY <1>4, <2>1
  <2>3. tr[k] = old[k]
    BY <2>1, <2>2
  <2>4. \A m \in j + 1 .. k - 1 : old[m].addr # old[j].addr
    BY <1>1, <1>2
  <2>5. old[j].addr = old[k].addr
    BY <1>1, <2>3
  <2> QED BY <1>1, <2>2, <2>3, <2>4, <2>5 DEF TraceChained
<1> QED BY <1>3, <1>4

(* The refs a running stack works on, frame by frame.                       *)
LEMMA StackRefs ==
  ASSUME IInv, RInv, NEW r \in Runs, status[r] = "running"
  PROVE  /\ Depth(r) \in Nat \ {0} /\ Depth(r) = Len(stack[r])
         /\ stack[r][Depth(r)] = Top(r)
         /\ TraceReplays(heap, Top(r).ctx.trace) /\ Len(Top(r).ctx.trace) \in Nat
         /\ \A i \in 1 .. Depth(r) : Cells(stack[r][i]).init \in 1 .. Len(heap)
         /\ \A a \in Addr : Known(Top(r).ctx, a) => Top(r).ctx.queryContexts[a] \in 1 .. Len(heap)
<1>1. Depth(r) \in Nat \ {0} /\ Depth(r) = Len(stack[r]) /\ stack[r][Depth(r)] = Top(r)
  BY TopFacts DEF Depth, Top
<1>2. Depth(r) \in 1 .. Depth(r)
  BY <1>1
<1>3. TraceReplays(heap, Top(r).ctx.trace)
  BY <1>1, <1>2 DEF RInv
<1>4. \A i \in 1 .. Depth(r) : Cells(stack[r][i]).init \in 1 .. Len(heap)
  BY DEF RInv, FrameReplays, CellsReplay
<1>5. ContextOK(Top(r).ctx, Len(heap)) /\ Len(heap) \in Nat
  BY RunningRefs
<1>6. Top(r).ctx.trace \in Seq(CallProofData)
  BY <1>5, CellsTyped DEF ContextOK
<1>7. Len(Top(r).ctx.trace) \in Nat
  BY <1>6, LenProperties
<1>8. \A a \in Addr : Known(Top(r).ctx, a) => Top(r).ctx.queryContexts[a] \in 1 .. Len(heap)
  BY <1>5 DEF ContextOK, Known, NoRef
<1> QED BY <1>1, <1>3, <1>4, <1>7, <1>8

LEMMA StackChainedKept ==
  ASSUME IInv, RInv, NEW r \in Runs, status[r] = "running", StackChained(heap, stack[r]),
         NEW g, Keeps(g, heap)
  PROVE  StackChained(g, stack[r])
<1> DEFINE s == stack[r]
           ctx == s[Len(s)].ctx
           tr == ctx.trace
<1>1. /\ TraceReplays(heap, tr)
      /\ \A i \in 1 .. Len(s) : Cells(s[i]).init \in 1 .. Len(heap)
      /\ \A a \in Addr : Known(ctx, a) => ctx.queryContexts[a] \in 1 .. Len(heap)
  BY StackRefs
<1> HIDE DEF s
<1>2. /\ \A k \in 1 .. Len(tr) : Known(ctx, tr[k].addr)
      /\ \A i \in 1 .. Len(s) : Left(heap, tr, Home(s[i]), heap[Cells(s[i]).init].data)
      /\ \A a \in Addr : (\A i \in 1 .. Len(s) : Home(s[i]) # a) /\ Known(ctx, a) =>
           Left(heap, tr, a, heap[ctx.queryContexts[a]].data)
  BY DEF StackChained, s
<1> HIDE DEF ctx, tr
<1>3. \A i \in 1 .. Len(s) : Left(g, tr, Home(s[i]), g[Cells(s[i]).init].data)
  BY <1>1, <1>2, LeftKept
<1>4. \A a \in Addr : (\A i \in 1 .. Len(s) : Home(s[i]) # a) /\ Known(ctx, a) =>
        Left(g, tr, a, g[ctx.queryContexts[a]].data)
  BY <1>1, <1>2, LeftKept
<1>5. StackChained(g, s)
  BY <1>2, <1>3, <1>4 DEF StackChained, ctx, tr
<1> QED BY <1>5 DEF s

(* A circuit that goes on: only what its own contract holds may change, and *)
(* that is not asked of a contract on the stack.                            *)
LEMMA ChainsGoOn ==
  ASSUME IInv, CInv, RInv, NEW r \in Runs, StackChained(heap, stack[r]),
         NEW ctx, NEW ppd, GoesOn(r, ctx, ppd), Keeps(heap', heap),
         ctx.trace = Top(r).ctx.trace, ctx.cc.addr = Top(r).ctx.cc.addr,
         ctx.cc.init = Top(r).ctx.cc.init, Known(ctx, ctx.cc.addr),
         \A b \in Addr : b # ctx.cc.addr => AgreeOn(ctx, Top(r).ctx, b)
  PROVE  StackChained(heap', stack'[r])
<1> DEFINE s == stack[r]
           t == stack'[r]
           n == Depth(r)
           old == Top(r).ctx
           tr == old.trace
<1>1. /\ status[r] = "running" /\ Len(t) = n
      /\ \A i \in 1 .. n - 1 : t[i] = s[i]
      /\ t[n].ctx = ctx /\ t[n].pc # "callee"
  BY DEF GoesOn, Goes
<1>2. n \in Nat \ {0} /\ n = Len(s) /\ s[n] = Top(r)
  BY <1>1, StackRefs
<1>3. Cells(s[n]) = old.cc
  BY <1>1, <1>2, TopHolds DEF CInv
<1>4. Cells(t[n]) = ctx.cc
  BY <1>1 DEF Cells
<1>5. StackChained(heap', s)
  BY <1>1, StackChainedKept
<1>6. /\ \A k \in 1 .. Len(tr) : Known(old, tr[k].addr)
      /\ \A i \in 1 .. n : Left(heap', tr, Home(s[i]), heap'[Cells(s[i]).init].data)
      /\ \A a \in Addr : (\A i \in 1 .. n : Home(s[i]) # a) /\ Known(old, a) =>
           Left(heap', tr, a, heap'[old.queryContexts[a]].data)
  BY <1>2, <1>5 DEF StackChained
<1>7. \A k \in 1 .. Len(tr) : tr[k].addr \in Addr
  <2>1. tr \in Seq(CallProofData)
    BY <1>1, RunningRefs, CellsTyped DEF ContextOK
  <2>2. \A k \in 1 .. Len(tr) : tr[k] \in CallProofData
    BY <2>1, ElementOfSeq
  <2> QED BY <2>2 DEF CallProofData
<1> HIDE DEF s, t, n, old, tr
<1>8. \A i \in 1 .. n : Home(t[i]) = Home(s[i]) /\ Cells(t[i]).init = Cells(s[i]).init
  <2> SUFFICES ASSUME NEW i \in 1 .. n
               PROVE  Home(t[i]) = Home(s[i]) /\ Cells(t[i]).init = Cells(s[i]).init
    OBVIOUS
  <2>1. CASE i = n
    BY <1>3, <1>4, <2>1 DEF Home, old
  <2>2. CASE i # n
    BY <1>1, <1>2, <2>2
  <2> QED BY <2>1, <2>2
<1>9. \A b \in Addr : b # ctx.cc.addr => (Known(ctx, b) <=> Known(old, b))
                                          /\ ctx.queryContexts[b] = old.queryContexts[b]
  BY DEF AgreeOn, Known, old
<1>10. \A k \in 1 .. Len(tr) : Known(ctx, tr[k].addr)
  BY <1>6, <1>7, <1>9
<1>11. \A i \in 1 .. n : Left(heap', tr, Home(t[i]), heap'[Cells(t[i]).init].data)
  BY <1>6, <1>8
<1>12. ASSUME NEW a \in Addr, \A i \in 1 .. n : Home(t[i]) # a, Known(ctx, a)
       PROVE  Left(heap', tr, a, heap'[ctx.queryContexts[a]].data)
  <2>1. n \in 1 .. n /\ Home(t[n]) = ctx.cc.addr
    BY <1>2, <1>4 DEF Home
  <2>2. a # ctx.cc.addr
    BY <1>12, <2>1
  <2>3. \A i \in 1 .. n : Home(s[i]) # a
    BY <1>8, <1>12
  <2> QED BY <1>6, <1>9, <1>12, <2>2, <2>3
<1>13. ctx.trace = tr /\ t[Len(t)].ctx = ctx
  BY <1>1 DEF tr, old
<1>14. StackChained(heap', t)
  BY <1>1, <1>10, <1>11, <1>12, <1>13 DEF StackChained
<1> QED BY <1>14 DEF t

LEMMA ChainsIdle ==
  ASSUME IInv, AInv, CInv, RInv, NEW r \in Runs, StackChained(heap, stack[r]), Idles(r)
  PROVE  StackChained(heap', stack'[r])
<1>1. PICK ctx \in CircuitContext :
        /\ SameCells(ctx.cc, Top(r).ctx.cc) /\ SameMaps(ctx, Top(r).ctx)
        /\ ctx.trace = Top(r).ctx.trace /\ GoesOn(r, ctx, Top(r).ppd)
  BY DEF Idles
<1>2. Keeps(heap', heap)
  BY ShapesKeep
<1>3. Known(Top(r).ctx, Top(r).ctx.cc.addr)
  BY <1>1, TopHolds DEF CInv, GoesOn, Goes
<1>4. /\ ctx.cc.addr = Top(r).ctx.cc.addr /\ ctx.cc.init = Top(r).ctx.cc.init
      /\ Known(ctx, ctx.cc.addr) /\ \A b \in Addr : AgreeOn(ctx, Top(r).ctx, b)
  BY <1>1, <1>3 DEF SameCells, SameMaps, AgreeOn, Known
<1> QED BY <1>1, <1>2, <1>4, ChainsGoOn

LEMMA ChainsQuery ==
  ASSUME IInv, AInv, CInv, RInv, NEW r \in Runs, StackChained(heap, stack[r]), Queries(r)
  PROVE  StackChained(heap', stack'[r])
<1> DEFINE old == Top(r).ctx
           ppd == [Top(r).ppd EXCEPT !.ops = @ + 1]
<1>1. PICK cost \in Nat, logs \in Seq(Addr) : GoesOn(r, Queried(old, Fresh, cost, logs), ppd)
  BY DEF Queries
<1> DEFINE ctx == Queried(old, Fresh, cost, logs)
<1>2. Keeps(heap', heap)
  BY ShapesKeep
<1>3. /\ old \in CircuitContext /\ old.cc.addr \in Addr /\ MapsHold(old, old.cc)
      /\ old.gasCosts[old.cc.addr] # Absent
  BY <1>1, TopHolds DEF CInv, GoesOn, Goes
<1>4. /\ ctx.trace = old.trace /\ ctx.cc.addr = old.cc.addr /\ ctx.cc.init = old.cc.init
      /\ ctx.queryContexts[old.cc.addr] = Fresh
      /\ \A b \in Addr : b # old.cc.addr => AgreeOn(ctx, old, b)
  BY <1>3, QueriedFields, QueriedHolds
<1>5. Fresh # NoRef
  BY LenProperties DEF IInv, Fresh, NoRef
<1>6. Known(ctx, ctx.cc.addr)
  BY <1>4, <1>5 DEF Known
<1>7. GoesOn(r, ctx, ppd)
  BY <1>1
<1> HIDE DEF ctx, ppd
<1> QED BY <1>2, <1>4, <1>6, <1>7, ChainsGoOn

LEMMA ChainsOutput ==
  ASSUME IInv, AInv, CInv, RInv, NEW r \in Runs, StackChained(heap, stack[r]), Outputs(r)
  PROVE  StackChained(heap', stack'[r])
<1> DEFINE old == Top(r).ctx
           ctx == WithOutput(old, Fresh)
<1>1. Keeps(heap', heap) /\ GoesOn(r, ctx, Top(r).ppd)
  BY ShapesKeep DEF Outputs
<1>2. old \in CircuitContext /\ old.cc.addr \in Addr
  BY <1>1, TopHolds DEF CInv, GoesOn, Goes
<1>3. /\ ctx.trace = old.trace /\ ctx.cc.addr = old.cc.addr /\ ctx.cc.init = old.cc.init
      /\ \A b \in Addr :
           ctx.queryContexts[b] = IF b = old.cc.addr THEN Fresh ELSE old.queryContexts[b]
      /\ \A b \in Addr :
           ctx.zswapLocalStates[b] =
             IF b = old.cc.addr THEN old.cc.zs + 1 ELSE old.zswapLocalStates[b]
      /\ ctx.gasCosts = old.gasCosts
  BY <1>2, WithOutputFields
<1>4. Fresh # NoRef
  BY LenProperties DEF IInv, Fresh, NoRef
<1> HIDE DEF ctx
<1>5. Known(ctx, ctx.cc.addr) /\ \A b \in Addr : b # ctx.cc.addr => AgreeOn(ctx, old, b)
  BY <1>2, <1>3, <1>4 DEF Known, AgreeOn
<1> QED BY <1>1, <1>3, <1>5, ChainsGoOn

(* A callee starts from what the last call to it left, or was never called. *)
LEMMA ChainsEnter ==
  ASSUME IInv, AInv, CInv, RInv, NEW r \in Runs, StackChained(heap, stack[r]), Enters(r)
  PROVE  StackChained(heap', stack'[r])
<1> DEFINE s == stack[r]
           t == stack'[r]
           n == Depth(r)
           f == Top(r)
           c == f.callee
           old == f.ctx
           tr == old.trace
           ctx == CalleeContext(f)
<1>1. /\ status[r] = "running" /\ f.pc \in Pending /\ Len(t) = n + 1
      /\ \A i \in 1 .. n - 1 : t[i] = s[i]
      /\ t[n].pc = "callee" /\ t[n].saved = old.cc
      /\ t[n + 1].pc = "run" /\ t[n + 1].ctx = ctx
  BY DEF Enters, Goes, Pending
<1>2. /\ n \in Nat \ {0} /\ n = Len(s) /\ s[n] = f
      /\ \A a \in Addr : Known(old, a) => old.queryContexts[a] \in 1 .. Len(heap)
  BY <1>1, StackRefs
<1>3. Keeps(heap', heap) /\ Len(heap) \in Nat
  BY ShapesKeep, LenProperties DEF IInv
<1>4. f \in Frame /\ c \in Addr /\ ContextOK(old, Len(heap))
  BY <1>1, RunningRefs
<1>5. /\ ctx.cc.addr = c /\ ctx.cc.init = EnteredRef(old, c) /\ ctx.trace = tr
      /\ ctx.queryContexts[c] = EnteredRef(old, c)
      /\ \A b \in Addr : b # c => AgreeOn(ctx, old, b)
  BY <1>3, <1>4, CalleeContextHolds DEF MapsHold
<1>6. Cells(f) = old.cc
  BY <1>1, TopHolds DEF CInv
<1>7. Cells(t[n]) = Cells(f) /\ Cells(t[n + 1]) = ctx.cc
  BY <1>1, <1>6 DEF Cells
<1>8. \A i \in 1 .. n : Home(s[i]) # c
  BY <1>1, HomesApart DEF CInv
<1>9. StackChained(heap', s)
  BY <1>1, <1>3, StackChainedKept
<1>10. /\ \A k \in 1 .. Len(tr) : Known(old, tr[k].addr)
       /\ \A i \in 1 .. n : Left(heap', tr, Home(s[i]), heap'[Cells(s[i]).init].data)
       /\ \A a \in Addr : (\A i \in 1 .. n : Home(s[i]) # a) /\ Known(old, a) =>
            Left(heap', tr, a, heap'[old.queryContexts[a]].data)
  BY <1>2, <1>9 DEF StackChained
<1>11. \A k \in 1 .. Len(tr) : tr[k].addr \in Addr
  <2>1. tr \in Seq(CallProofData)
    BY <1>4, CellsTyped DEF ContextOK
  <2>2. \A k \in 1 .. Len(tr) : tr[k] \in CallProofData
    BY <2>1, ElementOfSeq
  <2> QED BY <2>2 DEF CallProofData
<1> HIDE DEF s, t, n, old, tr, c, ctx, f
<1>12. \A i \in 1 .. n : Cells(t[i]) = Cells(s[i])
  <2> SUFFICES ASSUME NEW i \in 1 .. n PROVE Cells(t[i]) = Cells(s[i])
    OBVIOUS
  <2>1. CASE i = n
    BY <1>2, <1>7, <2>1
  <2>2. CASE i # n
    BY <1>1, <1>2, <2>2
  <2> QED BY <2>1, <2>2
<1>13. \A b \in Addr : b # c => (Known(ctx, b) <=> Known(old, b))
                                 /\ ctx.queryContexts[b] = old.queryContexts[b]
  BY <1>5 DEF AgreeOn, Known
<1>14. Known(ctx, c)
  <2>1. Fresh # NoRef
    BY <1>3 DEF Fresh, NoRef
  <2> QED BY <1>5, <2>1 DEF Known, EnteredRef
<1>15. \A k \in 1 .. Len(tr) : Known(ctx, tr[k].addr)
  BY <1>10, <1>11, <1>13, <1>14
<1>16. Left(heap', tr, c, heap'[ctx.cc.init].data)
  <2>1. CASE Known(old, c)
    <3>1. Left(heap', tr, c, heap'[old.queryContexts[c]].data)
      BY <1>4, <1>8, <1>10, <2>1
    <3> QED BY <1>5, <2>1, <3>1 DEF EnteredRef
  <2>2. CASE ~Known(old, c)
    <3>1. \A k \in 1 .. Len(tr) : tr[k].addr # c
      BY <1>10, <2>2
    <3> QED BY <3>1 DEF Left
  <2> QED BY <2>1, <2>2
<1>17. \A i \in 1 .. n + 1 : Left(heap', tr, Home(t[i]), heap'[Cells(t[i]).init].data)
  <2> SUFFICES ASSUME NEW i \in 1 .. n + 1
               PROVE  Left(heap', tr, Home(t[i]), heap'[Cells(t[i]).init].data)
    OBVIOUS
  <2>1. CASE i = n + 1
    BY <1>5, <1>7, <1>16, <2>1 DEF Home
  <2>2. CASE i # n + 1
    <3>1. i \in 1 .. n
      BY <1>2, <2>2
    <3>2. Home(t[i]) = Home(s[i])
      BY <1>12, <3>1 DEF Home
    <3> QED BY <1>10, <1>12, <3>1, <3>2
  <2> QED BY <2>1, <2>2
<1>18. ASSUME NEW a \in Addr, \A i \in 1 .. n + 1 : Home(t[i]) # a, Known(ctx, a)
       PROVE  Left(heap', tr, a, heap'[ctx.queryContexts[a]].data)
  <2>1. n + 1 \in 1 .. n + 1 /\ \A i \in 1 .. n : i \in 1 .. n + 1
    BY <1>2
  <2>2. a # c
    BY <1>5, <1>7, <1>18, <2>1 DEF Home
  <2>3. \A i \in 1 .. n : Home(s[i]) # a
    BY <1>12, <1>18, <2>1 DEF Home
  <2> QED BY <1>10, <1>13, <1>18, <2>2, <2>3
<1>19. ctx.trace = tr /\ t[Len(t)].ctx = ctx
  BY <1>1, <1>5
<1>20. StackChained(heap', t)
  BY <1>1, <1>15, <1>17, <1>18, <1>19 DEF StackChained
<1> QED BY <1>20 DEF t

(* The entry the callee leaves follows the last one of its contract, and    *)
(* what the maps hold for it then is what that entry ends with.             *)
LEMMA ChainsReturn ==
  ASSUME IInv, AInv, CInv, RInv, NEW r \in Runs, StackChained(heap, stack[r]), Returns(r)
  PROVE  StackChained(heap', stack'[r])
<1> DEFINE s == stack[r]
           t == stack'[r]
           n == Depth(r)
           k == n - 1
           f == s[k]
           old == Top(r).ctx
           h == old.cc.addr
           back == ReturnedContext(r, f)
           tr == back.trace
<1>1. PICK cost \in Nat : t[k].ctx = Queried(back, Fresh, cost, <<>>)
  BY DEF Returns
<1> DEFINE ctx == Queried(back, Fresh, cost, <<>>)
<1>2. /\ status[r] = "running" /\ n > 1 /\ Len(t) = k
      /\ \A i \in 1 .. n - 2 : t[i] = s[i]
      /\ t[k].pc # "callee" /\ t[k].ctx = ctx
  BY <1>1 DEF Returns, Goes
<1>3. /\ n \in Nat /\ n = Len(s) /\ s[n] = Top(r) /\ Len(old.trace) \in Nat
      /\ k \in Nat \ {0} /\ n - 2 = k - 1 /\ n = k + 1
      /\ Keeps(heap', heap) /\ Len(heap) \in Nat
  BY <1>2, StackRefs, RunningRefs, ShapesKeep
<1>4. /\ f.pc = "callee" /\ f.saved.addr \in Addr /\ Known(old, f.saved.addr)
  BY <1>2, <1>3, CallerFacts
<1>5. Cells(f) = f.saved
  BY <1>4 DEF Cells
<1>6. /\ back.cc = f.saved /\ SameMaps(back, old) /\ back \in CircuitContext
  BY <1>2, <1>3, RunningRefs, ReturnedFields, ReturnedTyped
<1>7. EndsWith(tr, old.trace, old, Top(r).ppd)
  BY <1>2, ReturnedEnds
<1>8. /\ Cells(Top(r)) = old.cc /\ Home(s[n]) = h /\ h \in Addr /\ Known(old, h)
      /\ old.queryContexts[h] = old.cc.cur
  BY <1>2, <1>3, TopHolds DEF CInv, MapsHold
<1>9. /\ \A i \in 1 .. n : Home(s[i]) \in Addr
      /\ \A i, j \in 1 .. n : i # j => Home(s[i]) # Home(s[j])
  BY <1>2, HomesApart DEF CInv
<1>10. StackChained(heap', s)
  BY <1>2, <1>3, StackChainedKept
<1>11. /\ \A j \in 1 .. Len(old.trace) : Known(old, old.trace[j].addr)
       /\ \A i \in 1 .. n : Left(heap', old.trace, Home(s[i]), heap'[Cells(s[i]).init].data)
       /\ \A a \in Addr : (\A i \in 1 .. n : Home(s[i]) # a) /\ Known(old, a) =>
            Left(heap', old.trace, a, heap'[old.queryContexts[a]].data)
  BY <1>3, <1>10 DEF StackChained
<1>12. \A j \in 1 .. Len(old.trace) : old.trace[j].addr \in Addr
  <2>1. old.trace \in Seq(CallProofData)
    BY <1>2, RunningRefs, CellsTyped DEF ContextOK
  <2>2. \A j \in 1 .. Len(old.trace) : old.trace[j] \in CallProofData
    BY <2>1, ElementOfSeq
  <2> QED BY <2>2 DEF CallProofData
<1>13. /\ ctx.cc.addr = f.saved.addr /\ ctx.cc.init = f.saved.init /\ ctx.trace = tr
       /\ \A b \in Addr :
            ctx.queryContexts[b] = IF b = f.saved.addr THEN Fresh ELSE back.queryContexts[b]
  BY <1>6, QueriedFields
<1> HIDE DEF ctx, back, tr, s, t, n, k, old, h
<1>14. Cells(t[k]) = ctx.cc
  BY <1>2 DEF Cells
<1>15. \A i \in 1 .. k : Home(t[i]) = Home(s[i]) /\ Cells(t[i]).init = Cells(s[i]).init
  <2> SUFFICES ASSUME NEW i \in 1 .. k
               PROVE  Home(t[i]) = Home(s[i]) /\ Cells(t[i]).init = Cells(s[i]).init
    OBVIOUS
  <2>1. CASE i = k
    BY <1>5, <1>13, <1>14, <2>1 DEF Home
  <2>2. CASE i # k
    BY <1>2, <1>3, <2>2
  <2> QED BY <2>1, <2>2
<1>16. \A a \in Addr : Known(old, a) => Known(ctx, a)
  <2>1. Fresh # NoRef
    BY <1>3 DEF Fresh, NoRef
  <2> QED BY <1>6, <1>13, <2>1 DEF Known, SameMaps
<1>17. \A j \in 1 .. Len(tr) : Known(ctx, tr[j].addr)
  <2> SUFFICES ASSUME NEW j \in 1 .. Len(tr) PROVE Known(ctx, tr[j].addr)
    OBVIOUS
  <2>1. CASE j = Len(old.trace) + 1
    BY <1>7, <1>8, <1>16, <2>1 DEF EndsWith, h
  <2>2. CASE j # Len(old.trace) + 1
    <3>1. j \in 1 .. Len(old.trace) /\ tr[j] = old.trace[j]
      BY <1>3, <1>7, <2>2 DEF EndsWith
    <3> QED BY <1>11, <1>12, <1>16, <3>1
  <2> QED BY <2>1, <2>2
<1>18. \A i \in 1 .. k : Left(heap', tr, Home(t[i]), heap'[Cells(t[i]).init].data)
  <2> SUFFICES ASSUME NEW i \in 1 .. k
               PROVE  Left(heap', tr, Home(s[i]), heap'[Cells(s[i]).init].data)
    BY <1>15
  <2>1. i \in 1 .. n /\ n \in 1 .. n /\ i # n
    BY <1>3
  <2>2. Home(s[i]) # old.cc.addr
    BY <1>8, <1>9, <2>1 DEF h
  <2> QED BY <1>3, <1>7, <1>11, <2>1, <2>2, LeftOther
<1>19. ASSUME NEW a \in Addr, \A i \in 1 .. k : Home(t[i]) # a, Known(ctx, a)
       PROVE  Left(heap', tr, a, heap'[ctx.queryContexts[a]].data)
  <2>1. a # f.saved.addr /\ \A i \in 1 .. k : Home(s[i]) # a
    <3>1. k \in 1 .. k
      BY <1>3
    <3> QED BY <1>13, <1>14, <1>15, <1>19, <3>1 DEF Home
  <2>2. ctx.queryContexts[a] = old.queryContexts[a] /\ Known(old, a)
    BY <1>6, <1>13, <1>19, <2>1 DEF SameMaps, Known
  <2>3. CASE a = h
    <3>1. Left(heap', tr, old.cc.addr, heap'[old.cc.cur].data)
      BY <1>3, <1>7, LeftNew
    <3> QED BY <1>8, <2>2, <2>3, <3>1 DEF h
  <2>4. CASE a # h
    <3>1. \A i \in 1 .. n : Home(s[i]) # a
      <4>1. \A i \in 1 .. n : i = n \/ i \in 1 .. k
        BY <1>3
      <4> QED BY <1>8, <2>1, <2>4, <4>1
    <3>2. Left(heap', old.trace, a, heap'[old.queryContexts[a]].data)
      BY <1>11, <2>2, <3>1
    <3>3. a # old.cc.addr
      BY <2>4 DEF h
    <3>4. Left(heap', tr, a, heap'[old.queryContexts[a]].data)
      BY <1>3, <1>7, <3>2, <3>3, LeftOther
    <3> QED BY <2>2, <3>4
  <2> QED BY <2>3, <2>4
<1>20. t[Len(t)].ctx = ctx
  BY <1>2
<1>21. StackChained(heap', t)
  BY <1>2, <1>13, <1>17, <1>18, <1>19, <1>20 DEF StackChained
<1> QED BY <1>21 DEF t

LEMMA ChainsStart ==
  ASSUME ~Reuse, NEW r \in Runs, Starts(r)
  PROVE  StackChained(heap', stack'[r])
<1> DEFINE t == stack'[r]
<1>1. Len(t) = 1 /\ t[1].ctx = InitialContext
  BY DEF Starts, HeldContexts
<1>2. Len(t[1].ctx.trace) = 0
  BY <1>1 DEF InitialContext
<1> HIDE DEF t
<1>3. StackChained(heap', t)
  BY <1>1, <1>2 DEF StackChained, Left
<1> QED BY <1>3 DEF t

(* The trace with the entry of the executing circuit is chained too.        *)
LEMMA ChainedWithTop ==
  ASSUME IInv, CInv, RInv, SInv, NEW r \in Runs, status[r] = "running",
         NEW tr, EndsWith(tr, Top(r).ctx.trace, Top(r).ctx, Top(r).ppd)
  PROVE  TraceChained(heap, tr)
<1>1. /\ Depth(r) \in Nat \ {0} /\ Depth(r) = Len(stack[r]) /\ stack[r][Depth(r)] = Top(r)
      /\ Len(Top(r).ctx.trace) \in Nat
  BY StackRefs
<1>2. Depth(r) \in 1 .. Depth(r)
  BY <1>1
<1>3. Cells(Top(r)) = Top(r).ctx.cc /\ Home(Top(r)) = Top(r).ctx.cc.addr
  BY TopHolds DEF CInv
<1>4. Left(heap, Top(r).ctx.trace, Top(r).ctx.cc.addr, heap[Top(r).ctx.cc.init].data)
  <2>1. StackChained(heap, stack[r])
    BY DEF SInv
  <2> QED BY <1>1, <1>2, <1>3, <2>1 DEF StackChained
<1>5. TraceChained(heap, Top(r).ctx.trace)
  BY <1>1, <1>2 DEF SInv
<1> QED BY <1>1, <1>4, <1>5, ChainedExtended

(* The traces in the frames of the run that moves.                          *)
LEMMA TracesChain ==
  ASSUME ~Reuse, IInv, CInv, RInv, SInv, NEW r \in Runs,
         \/ Starts(r) \/ Finishes(r) \/ Fails(r)
         \/ Idles(r) \/ Queries(r) \/ Outputs(r) \/ Enters(r) \/ Returns(r),
         NEW i \in 1 .. Len(stack'[r])
  PROVE  TraceReplays(heap, stack'[r][i].ctx.trace) /\ TraceChained(heap, stack'[r][i].ctx.trace)
<1> DEFINE n == Depth(r)
           t == stack'[r]
<1>1. n \in Nat
  BY LenProperties DEF Depth, IInv
<1>2. ASSUME NEW j \in 1 .. n, t[i].ctx.trace = stack[r][j].ctx.trace
      PROVE  TraceReplays(heap, t[i].ctx.trace) /\ TraceChained(heap, t[i].ctx.trace)
  BY <1>2 DEF SInv, RInv
<1>3. ASSUME status[r] = "running", NEW f, t[i].ctx.trace = ReturnedContext(r, f).trace
      PROVE  TraceReplays(heap, t[i].ctx.trace) /\ TraceChained(heap, t[i].ctx.trace)
  BY <1>3, ReturnedEnds, ChainedWithTop, TopReplays, ReplaysExtended
<1>4. status[r] = "running" => n \in 1 .. n /\ stack[r][n] = Top(r)
  BY TopFacts DEF Top
<1>5. CASE Starts(r)
  <2>1. t[i].ctx = InitialContext
    BY <1>5 DEF Starts, HeldContexts
  <2>2. t[i].ctx.trace = <<>>
    BY <2>1 DEF InitialContext
  <2> QED BY <2>2 DEF TraceReplays, TraceChained
<1>6. CASE Finishes(r)
  BY <1>6 DEF Finishes
<1>7. CASE Fails(r)
  <2>1. i \in 1 .. n
    BY <1>1, <1>7 DEF Fails
  <2> QED BY <1>2, <1>3, <1>7, <2>1 DEF Fails
<1>8. CASE \E ctx, ppd : GoesOn(r, ctx, ppd) /\ ctx.trace = Top(r).ctx.trace
  <2>1. /\ status[r] = "running" /\ Len(t) = n /\ \A j \in 1 .. n - 1 : t[j] = stack[r][j]
        /\ t[n].ctx.trace = Top(r).ctx.trace
    BY <1>8 DEF GoesOn, Goes
  <2>2. i \in 1 .. n /\ t[i].ctx.trace = stack[r][i].ctx.trace
    <3>1. i = n \/ i \in 1 .. n - 1
      BY <1>1, <2>1
    <3> QED BY <1>4, <2>1, <3>1
  <2> QED BY <1>2, <2>2
<1>9. CASE Idles(r) \/ Queries(r) \/ Outputs(r)
  <2>1. status[r] = "running"
    BY <1>9 DEF Idles, Queries, Outputs, GoesOn, Goes
  <2>2. Top(r).ctx \in CircuitContext
    BY <2>1, RunningRefs DEF ContextOK
  <2>3. \E ctx, ppd : GoesOn(r, ctx, ppd) /\ ctx.trace = Top(r).ctx.trace
    <3>1. CASE Idles(r)
      BY <3>1 DEF Idles
    <3>2. CASE Queries(r)
      <4>1. PICK cost, logs, ppd : GoesOn(r, Queried(Top(r).ctx, Fresh, cost, logs), ppd)
        BY <3>2 DEF Queries
      <4>2. Queried(Top(r).ctx, Fresh, cost, logs).trace = Top(r).ctx.trace
        BY <2>2, QueriedFields
      <4> QED BY <4>1, <4>2
    <3>3. CASE Outputs(r)
      <4>1. WithOutput(Top(r).ctx, Fresh).trace = Top(r).ctx.trace
        BY <2>2, WithOutputFields
      <4> QED BY <3>3, <4>1 DEF Outputs
    <3> QED BY <1>9, <3>1, <3>2, <3>3
  <2> QED BY <1>8, <2>3
<1>10. CASE Enters(r)
  <2>1. /\ status[r] = "running" /\ Top(r).pc \in Pending /\ Len(t) = n + 1
        /\ \A j \in 1 .. n - 1 : t[j] = stack[r][j]
        /\ t[n].ctx = CalleeContext(Top(r)) /\ t[n + 1].ctx = CalleeContext(Top(r))
    BY <1>10 DEF Enters, Goes, Pending
  <2>2. CalleeContext(Top(r)).trace = Top(r).ctx.trace
    BY <2>1, RunningRefs, CalleeContextHolds
  <2>3. i = n + 1 \/ i = n \/ i \in 1 .. n - 1
    BY <1>1, <2>1
  <2>4. \E j \in 1 .. n : t[i].ctx.trace = stack[r][j].ctx.trace
    <3>1. CASE i \in 1 .. n - 1
      <4>1. i \in 1 .. n
        BY <1>1, <3>1
      <4> QED BY <2>1, <3>1, <4>1
    <3>2. CASE i = n + 1 \/ i = n
      BY <1>4, <2>1, <2>2, <3>2
    <3> QED BY <2>3, <3>1, <3>2
  <2> QED BY <1>2, <2>4
<1>11. CASE Returns(r)
  <2> DEFINE back == ReturnedContext(r, stack[r][n - 1])
  <2>1. PICK cost \in Nat : t[n - 1].ctx = Queried(back, Fresh, cost, <<>>)
    BY <1>11 DEF Returns
  <2>2. /\ status[r] = "running" /\ n > 1 /\ Len(t) = n - 1
        /\ \A j \in 1 .. n - 2 : t[j] = stack[r][j]
    BY <1>11 DEF Returns, Goes
  <2>3. back \in CircuitContext
    BY <2>2, ReturnedTyped
  <2>4. t[n - 1].ctx.trace = back.trace
    BY <2>1, <2>3, QueriedFields
  <2>5. CASE i = n - 1
    BY <1>3, <2>2, <2>4, <2>5
  <2>6. CASE i # n - 1
    <3>1. i \in 1 .. n - 2 /\ i \in 1 .. n
      BY <1>1, <2>2, <2>6
    <3> QED BY <1>2, <2>2, <3>1
  <2> QED BY <2>5, <2>6
<1> QED BY <1>5, <1>6, <1>7, <1>9, <1>10, <1>11

LEMMA InitSInv == Init => SInv
<1> SUFFICES ASSUME Init PROVE SInv
  OBVIOUS
<1>1. \A r \in Runs : Depth(r) = 0 /\ result[r].trace = <<>> /\ status[r] = "idle"
  BY DEF Init, Depth, InitialContext
<1>2. \A h : TraceChained(h, <<>>)
  BY DEF TraceChained
<1>3. \A i : i \notin 1 .. 0
  OBVIOUS
<1>4. \A r \in Runs : TraceChained(heap, result[r].trace)
  BY <1>1, <1>2
<1>5. \A r \in Runs : status[r] # "running"
  BY <1>1
<1> QED BY <1>1, <1>3, <1>4, <1>5 DEF SInv

LEMMA NextSInv ==
  ~Reuse /\ IInv /\ AInv /\ CInv /\ RInv /\ SInv /\ [Next]_vars => SInv'
<1> SUFFICES ASSUME ~Reuse, IInv, AInv, CInv, RInv, SInv, [Next]_vars PROVE SInv'
  OBVIOUS
<1>1. CASE UNCHANGED vars
  BY <1>1 DEF vars, SInv, Depth
<1>2. CASE Next
  <2>1. PICK r \in Runs : Step(r)
    BY <1>2 DEF Next
  <2>2. IInv' /\ Len(heap) \in Nat
    BY NextIInv, LenProperties DEF IInv
  <2>3. /\ OthersRest(r)
        /\ \/ Starts(r) \/ Finishes(r) \/ Fails(r)
           \/ Idles(r) \/ Queries(r) \/ Outputs(r) \/ Enters(r) \/ Returns(r)
    BY <2>1, <2>2, Shapes
  <2>4. Keeps(heap', heap)
    BY <2>3, ShapesKeep
  <2>5. \A q \in Runs : TraceChained(heap', result[q].trace)
    BY <2>4, ChainedKept DEF RInv, SInv
  <2>6. TraceChained(heap', result'[r].trace)
    <3>1. CASE Finishes(r)
      <4>1. /\ status[r] = "running"
            /\ EndsWith(result'[r].trace, Top(r).ctx.trace, Top(r).ctx, Top(r).ppd)
        BY <3>1, FinishedEnds DEF Finishes
      <4>2. TraceReplays(heap, result'[r].trace)
        BY <3>1, ReplaysFinish
      <4>3. TraceChained(heap, result'[r].trace)
        BY <4>1, ChainedWithTop
      <4> QED BY <2>4, <4>2, <4>3, ChainedKept
    <3>2. CASE result'[r] = result[r]
      BY <2>5, <3>2
    <3> QED BY <2>3, <3>1, <3>2
            DEF Starts, Fails, Idles, Queries, Outputs, Enters, Returns, GoesOn, Goes
  <2>7. \A i \in 1 .. Len(stack'[r]) : TraceChained(heap', stack'[r][i].ctx.trace)
    BY <2>3, <2>4, TracesChain, ChainedKept
  <2>8. status'[r] = "running" => StackChained(heap', stack'[r])
    <3>1. CASE Starts(r)
      BY <3>1, ChainsStart
    <3>2. CASE Finishes(r) \/ Fails(r)
      BY <3>2 DEF Finishes, Fails, Goes
    <3>3. CASE Idles(r) \/ Queries(r) \/ Outputs(r) \/ Enters(r) \/ Returns(r)
      <4>1. StackChained(heap, stack[r])
        BY <3>3 DEF SInv, Idles, Queries, Outputs, Enters, Returns, GoesOn, Goes
      <4> QED BY <3>3, <4>1, ChainsIdle, ChainsQuery, ChainsOutput, ChainsEnter, ChainsReturn
    <3> QED BY <2>3, <3>1, <3>2, <3>3
  <2>9. ASSUME NEW q \in Runs, q # r
        PROVE  /\ TraceChained(heap', result'[q].trace)
               /\ \A i \in 1 .. Len(stack'[q]) : TraceChained(heap', stack'[q][i].ctx.trace)
               /\ status'[q] = "running" => StackChained(heap', stack'[q])
    <3>1. stack'[q] = stack[q] /\ status'[q] = status[q] /\ result'[q] = result[q]
      BY <2>3, <2>9 DEF OthersRest
    <3>2. \A i \in 1 .. Len(stack[q]) : TraceChained(heap', stack[q][i].ctx.trace)
      BY <2>4, ChainedKept DEF RInv, SInv, Depth
    <3>3. status[q] = "running" => StackChained(heap', stack[q])
      BY <2>4, StackChainedKept DEF SInv
    <3> QED BY <2>5, <3>1, <3>2, <3>3
  <2>10. \A q \in Runs :
           /\ TraceChained(heap', result'[q].trace)
           /\ \A i \in 1 .. Len(stack'[q]) : TraceChained(heap', stack'[q][i].ctx.trace)
           /\ status'[q] = "running" => StackChained(heap', stack'[q])
    BY <2>6, <2>7, <2>8, <2>9
  <2>11. SInv'
    BY <2>10 DEF SInv, Depth
  <2> QED BY <2>11
<1> QED BY <1>1, <1>2

(* Of two consecutive calls to one contract in a trace the second starts    *)
(* from the ledger data the first left, over any calls to other contracts   *)
(* between them (contract.ts, enterQueryContext: "the second call has to    *)
(* see what the first left behind").                                        *)
THEOREM CallsChain ==
  ASSUME ~Reuse
  PROVE  Spec => []SequentialCallsChain
<1>1. IInv /\ SInv => SequentialCallsChain
  <2> SUFFICES ASSUME IInv, SInv, NEW tr \in Traces
               PROVE  TraceChained(heap, tr)
    BY DEF SequentialCallsChain, TraceChained
  <2>1. CASE \E r \in Runs : tr = result[r].trace
    BY <2>1 DEF SInv
  <2>2. CASE \E r \in Started : tr = Top(r).ctx.trace
    <3>1. PICK r \in Started : tr = Top(r).ctx.trace
      BY <2>2
    <3>2. r \in Runs /\ Depth(r) \in 1 .. Depth(r)
      BY <3>1, TopFacts DEF Started
    <3> QED BY <3>1, <3>2 DEF SInv, Top
  <2> QED BY <2>1, <2>2 DEF Traces
<1>2. IInv /\ AInv /\ CInv /\ RInv /\ [Next]_vars => RInv'
  BY NextRInv
<1>3. IInv /\ AInv /\ CInv /\ RInv /\ SInv /\ [Next]_vars => SInv'
  BY NextSInv
<1> QED BY InitIInv, NextIInv, InitAInv, NextAInv, InitCInv, NextCInv, InitRInv, InitSInv,
           <1>1, <1>2, <1>3, PTL DEF Spec

-----------------------------------------------------------------------------
(* Claims.  Every entry claims entries before it, no two claim the same,    *)
(* and every call but a root one carries its commitment.                    *)

Tree(tr) ==
  /\ \A j \in 1 .. Len(tr) : \A k \in tr[j].claims : k \in 1 .. j - 1
  /\ \A i, j \in 1 .. Len(tr) : \A k \in tr[i].claims : k \in tr[j].claims => i = j
  /\ \A k \in 1 .. Len(tr) : tr[k].comm <=> tr[k].addr # Entry

ClaimedIn(tr, k) == \E j \in 1 .. Len(tr) : k \in tr[j].claims

InFlight(s, k) == \E i \in 1 .. Len(s) : k \in s[i].ppd.claims

Settled(tr) == \A k \in 1 .. Len(tr) : ClaimedIn(tr, k) <=> tr[k].addr # Entry

(* While the run goes on, an entry may be claimed by a circuit on the stack. *)
StackTree(s) ==
  LET tr == s[Len(s)].ctx.trace
  IN /\ Tree(tr)
     /\ \A i \in 1 .. Len(s) : s[i].ppd.claims \subseteq 1 .. Len(tr)
     /\ \A k \in 1 .. Len(tr) :
          /\ tr[k].addr # Entry <=> ClaimedIn(tr, k) \/ InFlight(s, k)
          /\ ~(ClaimedIn(tr, k) /\ InFlight(s, k))
     /\ \A i, j \in 1 .. Len(s) : \A k \in s[i].ppd.claims : k \in s[j].ppd.claims => i = j

TInv ==
  /\ \A r \in Runs : Tree(result[r].trace) /\ Settled(result[r].trace)
  /\ \A r \in Runs : status[r] = "running" => StackTree(stack[r])

LEMMA TreeExtended ==
  ASSUME NEW old, Len(old) \in Nat, Tree(old), NEW ctx, NEW ppd, NEW tr, EndsWith(tr, old, ctx, ppd),
         ppd.claims \subseteq 1 .. Len(old), \A k \in ppd.claims : ~ClaimedIn(old, k),
         tr[Len(old) + 1].comm <=> ctx.cc.addr # Entry
  PROVE  /\ Tree(tr)
         /\ \A k : ClaimedIn(tr, k) <=> ClaimedIn(old, k) \/ k \in ppd.claims
         /\ ~ClaimedIn(tr, Len(old) + 1)
<1> DEFINE n == Len(old)
<1>1. /\ n \in Nat /\ Len(tr) = n + 1
      /\ \A j \in 1 .. n : tr[j] = old[j]
      /\ tr[n + 1].addr = ctx.cc.addr /\ tr[n + 1].claims = ppd.claims
      /\ \A j \in 1 .. n + 1 : j = n + 1 \/ j \in 1 .. n
  BY DEF EndsWith
<1>2. /\ \A j \in 1 .. n : \A k \in old[j].claims : k \in 1 .. j - 1
      /\ \A i, j \in 1 .. n : \A k \in old[i].claims : k \in old[j].claims => i = j
      /\ \A k \in 1 .. n : old[k].comm <=> old[k].addr # Entry
  BY DEF Tree
<1>3. /\ ppd.claims \subseteq 1 .. n
      /\ \A k \in ppd.claims : \A j \in 1 .. n : k \notin old[j].claims
      /\ tr[n + 1].comm <=> ctx.cc.addr # Entry
  BY DEF ClaimedIn
<1>4. \A k : ClaimedIn(tr, k) <=> ClaimedIn(old, k) \/ k \in ppd.claims
  <2>1. n + 1 \in 1 .. n + 1 /\ \A j \in 1 .. n : j \in 1 .. n + 1
    BY <1>1
  <2> QED BY <1>1, <2>1 DEF ClaimedIn
<1> HIDE DEF n
<1>5. \A j \in 1 .. n + 1 : \A k \in tr[j].claims : k \in 1 .. j - 1
  <2> SUFFICES ASSUME NEW j \in 1 .. n + 1, NEW k \in tr[j].claims
               PROVE  k \in 1 .. j - 1
    OBVIOUS
  <2>1. CASE j = n + 1
    <3>1. k \in 1 .. n /\ j - 1 = n
      BY <1>1, <1>3, <2>1
    <3> QED BY <3>1
  <2>2. CASE j \in 1 .. n
    BY <1>1, <1>2, <2>2
  <2> QED BY <1>1, <2>1, <2>2
<1>6. \A i, j \in 1 .. n + 1 : \A k \in tr[i].claims : k \in tr[j].claims => i = j
  <2> SUFFICES ASSUME NEW i \in 1 .. n + 1, NEW j \in 1 .. n + 1,
                      NEW k, k \in tr[i].claims, k \in tr[j].claims, i # j
               PROVE  FALSE
    OBVIOUS
  <2>1. CASE i = n + 1
    BY <1>1, <1>3, <2>1
  <2>2. CASE j = n + 1
    BY <1>1, <1>3, <2>2
  <2>3. CASE i \in 1 .. n /\ j \in 1 .. n
    BY <1>1, <1>2, <2>3
  <2> QED BY <1>1, <2>1, <2>2, <2>3
<1>7. \A k \in 1 .. n + 1 : tr[k].comm <=> tr[k].addr # Entry
  BY <1>1, <1>2, <1>3
<1>8. ~ClaimedIn(tr, n + 1)
  <2> SUFFICES ASSUME NEW j \in 1 .. n + 1, n + 1 \in tr[j].claims PROVE FALSE
    BY <1>1 DEF ClaimedIn
  <2>1. n + 1 \in 1 .. j - 1
    BY <1>5
  <2> QED BY <1>1, <2>1
<1> QED BY <1>1, <1>4, <1>5, <1>6, <1>7, <1>8 DEF Tree, n

(* A circuit goes on: the trace and the claims stay.                        *)
LEMMA TreeGoesOn ==
  ASSUME IInv, NEW r \in Runs, StackTree(stack[r]),
         NEW ctx, NEW ppd, GoesOn(r, ctx, ppd),
         ctx.trace = Top(r).ctx.trace, ppd.claims = Top(r).ppd.claims
  PROVE  StackTree(stack'[r])
<1> DEFINE s == stack[r]
           t == stack'[r]
           n == Depth(r)
<1>1. /\ status[r] = "running" /\ Len(t) = n
      /\ \A i \in 1 .. n - 1 : t[i] = s[i]
      /\ t[n].ctx = ctx /\ t[n].ppd = ppd
  BY DEF GoesOn, Goes
<1>2. n \in Nat \ {0} /\ n = Len(s) /\ s[n] = Top(r)
  BY <1>1, TopFacts DEF Top, Depth
<1>3. \A i \in 1 .. n : t[i].ppd.claims = s[i].ppd.claims
  <2>1. \A i \in 1 .. n : i = n \/ i \in 1 .. n - 1
    BY <1>2
  <2> QED BY <1>1, <1>2, <2>1
<1>4. t[Len(t)].ctx.trace = s[Len(s)].ctx.trace
  BY <1>1, <1>2
<1>5. Len(t) = Len(s)
  BY <1>1, <1>2
<1> HIDE DEF s, t, n
<1>6. \A k : InFlight(t, k) <=> InFlight(s, k)
  BY <1>2, <1>3, <1>5 DEF InFlight
<1>7. StackTree(s)
  BY DEF s
<1>8. StackTree(t)
  BY <1>2, <1>3, <1>4, <1>5, <1>6, <1>7 DEF StackTree
<1> QED BY <1>8 DEF t

LEMMA TreeStays ==
  ASSUME IInv, NEW r \in Runs, StackTree(stack[r]), Idles(r) \/ Queries(r) \/ Outputs(r)
  PROVE  StackTree(stack'[r])
<1>1. status[r] = "running"
  BY DEF Idles, Queries, Outputs, GoesOn, Goes
<1>2. Top(r).ctx \in CircuitContext /\ Top(r).ppd \in ProofData
  BY <1>1, RunningRefs DEF ContextOK
<1>3. CASE Idles(r)
  BY <1>3, TreeGoesOn DEF Idles
<1>4. CASE Queries(r)
  <2>1. PICK cost \in Nat, logs \in Seq(Addr) :
          GoesOn(r, Queried(Top(r).ctx, Fresh, cost, logs), [Top(r).ppd EXCEPT !.ops = @ + 1])
    BY <1>4 DEF Queries
  <2>2. Queried(Top(r).ctx, Fresh, cost, logs).trace = Top(r).ctx.trace
    BY <1>2, QueriedFields
  <2>3. [Top(r).ppd EXCEPT !.ops = @ + 1].claims = Top(r).ppd.claims
    BY <1>2 DEF ProofData
  <2> QED BY <2>1, <2>2, <2>3, TreeGoesOn
<1>5. CASE Outputs(r)
  <2>1. WithOutput(Top(r).ctx, Fresh).trace = Top(r).ctx.trace
    BY <1>2, WithOutputFields
  <2> QED BY <1>5, <2>1, TreeGoesOn DEF Outputs
<1> QED BY <1>3, <1>4, <1>5

(* The callee has claimed nothing yet.                                      *)
LEMMA TreeEnters ==
  ASSUME IInv, NEW r \in Runs, StackTree(stack[r]), Enters(r)
  PROVE  StackTree(stack'[r])
<1> DEFINE s == stack[r]
           t == stack'[r]
           n == Depth(r)
           f == Top(r)
           tr == f.ctx.trace
<1>1. /\ status[r] = "running" /\ f.pc \in Pending /\ Len(t) = n + 1
      /\ \A i \in 1 .. n - 1 : t[i] = s[i]
      /\ t[n].ppd = f.ppd /\ t[n + 1].ppd = EmptyProofData
      /\ t[n + 1].ctx = CalleeContext(f)
  BY DEF Enters, Goes, Pending
<1>2. n \in Nat \ {0} /\ n = Len(s) /\ s[n] = f
  BY <1>1, TopFacts DEF Top, Depth
<1>3. t[n + 1].ctx.trace = tr
  BY <1>1, RunningRefs, CalleeContextHolds
<1>4. t[n + 1].ppd.claims = {} /\ \A i \in 1 .. n : t[i].ppd.claims = s[i].ppd.claims
  <2>1. \A i \in 1 .. n : i = n \/ i \in 1 .. n - 1
    BY <1>2
  <2> QED BY <1>1, <1>2, <2>1, SMTT(20) DEF EmptyProofData
<1>5. /\ Tree(tr)
      /\ \A i \in 1 .. n : s[i].ppd.claims \subseteq 1 .. Len(tr)
      /\ \A k \in 1 .. Len(tr) :
           /\ tr[k].addr # Entry <=> ClaimedIn(tr, k) \/ InFlight(s, k)
           /\ ~(ClaimedIn(tr, k) /\ InFlight(s, k))
      /\ \A i, j \in 1 .. n : \A k \in s[i].ppd.claims : k \in s[j].ppd.claims => i = j
  BY <1>2 DEF StackTree
<1> HIDE DEF s, t, n, f, tr
<1>6. \A i \in 1 .. n + 1 : i = n + 1 \/ i \in 1 .. n
  BY <1>2
<1>7. \A k : InFlight(t, k) <=> InFlight(s, k)
  <2>1. \A i \in 1 .. n : i \in 1 .. n + 1
    BY <1>2
  <2> QED BY <1>1, <1>2, <1>4, <1>6, <2>1 DEF InFlight
<1>8. \A i \in 1 .. n + 1 : t[i].ppd.claims \subseteq 1 .. Len(tr)
  BY <1>4, <1>5, <1>6
<1>9. \A i, j \in 1 .. n + 1 : \A k \in t[i].ppd.claims : k \in t[j].ppd.claims => i = j
  BY <1>4, <1>5, <1>6
<1>10. t[Len(t)].ctx.trace = tr
  BY <1>1, <1>3
<1>11. StackTree(t)
  BY <1>1, <1>5, <1>7, <1>8, <1>9, <1>10 DEF StackTree
<1> QED BY <1>11 DEF t

(* The callee's claims go into its entry, and the caller claims the entry.  *)
LEMMA TreeReturns ==
  ASSUME IInv, AInv, CInv, NEW r \in Runs, StackTree(stack[r]), Returns(r)
  PROVE  StackTree(stack'[r])
<1> DEFINE s == stack[r]
           t == stack'[r]
           n == Depth(r)
           k == n - 1
           f == s[k]
           old == Top(r).ctx.trace
           m == Len(old)
           ppd == Top(r).ppd
           back == ReturnedContext(r, f)
           tr == back.trace
<1>1. PICK cost \in Nat : t[k].ctx = Queried(back, Fresh, cost, <<>>)
  BY DEF Returns
<1>2. /\ status[r] = "running" /\ n > 1 /\ Len(t) = k
      /\ \A i \in 1 .. n - 2 : t[i] = s[i]
      /\ t[k].ppd = [f.ppd EXCEPT !.claims = @ \cup {m + 1}]
  BY DEF Returns, Goes
<1>3. /\ n \in Nat /\ n = Len(s) /\ s[n] = Top(r)
      /\ k \in Nat \ {0} /\ n - 2 = k - 1 /\ n = k + 1
  BY <1>2, TopFacts DEF Top, Depth
<1>4. t[k].ppd.claims = f.ppd.claims \cup {m + 1}
  <2>1. f.ppd \in ProofData
    BY <1>2, WaitingCaller
  <2> QED BY <1>2, <2>1 DEF ProofData
<1>5. t[k].ctx.trace = tr
  <2>1. back \in CircuitContext
    BY <1>2, ReturnedTyped
  <2> QED BY <1>1, <2>1, QueriedFields
<1>6. EndsWith(tr, old, Top(r).ctx, ppd) /\ tr[m + 1].comm = TRUE
  BY <1>2, ReturnedEnds
<1>7. Top(r).ctx.cc.addr # Entry
  <2>1. Home(Top(r)) = Top(r).ctx.cc.addr
    BY <1>2, TopHolds DEF CInv
  <2>2. n \in 1 .. n /\ 1 \in 1 .. n /\ n # 1
    BY <1>2, <1>3
  <2>3. Home(s[n]) # Home(s[1])
    BY <1>2, <2>2, HomesApart DEF CInv
  <2>4. Home(s[1]) = Entry
    BY <1>2 DEF CInv, CellsOK
  <2> QED BY <1>3, <2>1, <2>3, <2>4
<1>8. m \in Nat
  <2>1. old \in Seq(CallProofData)
    BY <1>2, RunningRefs, CellsTyped DEF ContextOK
  <2> QED BY <2>1, LenProperties
<1>9. /\ Tree(old)
      /\ \A i \in 1 .. n : s[i].ppd.claims \subseteq 1 .. m
      /\ \A c \in 1 .. m :
           /\ old[c].addr # Entry <=> ClaimedIn(old, c) \/ InFlight(s, c)
           /\ ~(ClaimedIn(old, c) /\ InFlight(s, c))
      /\ \A i, j \in 1 .. n : \A c \in s[i].ppd.claims : c \in s[j].ppd.claims => i = j
  <2>1. StackTree(s) /\ Len(s) = n /\ s[Len(s)].ctx.trace = old
    BY <1>3
  <2> HIDE DEF s, n, old, ppd, back, f, k
  <2>2. Tree(s[Len(s)].ctx.trace)
    BY <2>1 DEF StackTree
  <2>3. \A i \in 1 .. Len(s) : s[i].ppd.claims \subseteq 1 .. Len(s[Len(s)].ctx.trace)
    BY <2>1 DEF StackTree
  <2>4. \A i, j \in 1 .. Len(s) : \A c \in s[i].ppd.claims : c \in s[j].ppd.claims => i = j
    BY <2>1 DEF StackTree
  <2>5. \A c \in 1 .. Len(s[Len(s)].ctx.trace) :
          /\ s[Len(s)].ctx.trace[c].addr # Entry <=>
               ClaimedIn(s[Len(s)].ctx.trace, c) \/ InFlight(s, c)
          /\ ~(ClaimedIn(s[Len(s)].ctx.trace, c) /\ InFlight(s, c))
    BY <2>1 DEF StackTree
  <2> QED BY <2>1, <2>2, <2>3, <2>4, <2>5
<1> HIDE DEF s, t, n, k
<1>10. n \in 1 .. n /\ k \in 1 .. n /\ \A i \in 1 .. k : i \in 1 .. n /\ i # n
  BY <1>3
<1>11. /\ ppd.claims \subseteq 1 .. m
       /\ \A c \in ppd.claims : InFlight(s, c) /\ ~ClaimedIn(old, c)
  <2>1. ppd.claims \subseteq 1 .. m
    BY <1>3, <1>9, <1>10
  <2>2. \A c \in ppd.claims : InFlight(s, c)
    BY <1>3, <1>10 DEF InFlight
  <2> QED BY <1>9, <2>1, <2>2
<1> HIDE DEF ppd, back, tr, old
<1>12. /\ Tree(tr)
       /\ \A c : ClaimedIn(tr, c) <=> ClaimedIn(old, c) \/ c \in ppd.claims
       /\ ~ClaimedIn(tr, m + 1)
  BY <1>6, <1>7, <1>8, <1>9, <1>11, TreeExtended
<1>13. /\ Len(tr) = m + 1 /\ \A j \in 1 .. m : tr[j] = old[j]
       /\ tr[m + 1].addr # Entry
  BY <1>6, <1>7 DEF EndsWith
<1> HIDE DEF m, f
<1>14. \A i \in 1 .. k : t[i].ppd.claims = IF i = k THEN s[k].ppd.claims \cup {m + 1}
                                           ELSE s[i].ppd.claims
  <2>1. \A i \in 1 .. k : i = k \/ i \in 1 .. n - 2
    BY <1>3
  <2> QED BY <1>2, <1>4, <2>1 DEF f
<1>15. \A i \in 1 .. k : m + 1 \notin s[i].ppd.claims
  BY <1>8, <1>9, <1>10
<1>16. \A i \in 1 .. k : t[i].ppd.claims \subseteq 1 .. m + 1
  <2>1. \A c \in 1 .. m : c \in 1 .. m + 1
    BY <1>8
  <2>2. m + 1 \in 1 .. m + 1
    BY <1>8
  <2> QED BY <1>9, <1>10, <1>14, <2>1, <2>2
<1>17. \A i, j \in 1 .. k : \A c \in t[i].ppd.claims : c \in t[j].ppd.claims => i = j
  <2> SUFFICES ASSUME NEW i \in 1 .. k, NEW j \in 1 .. k, NEW c,
                      c \in t[i].ppd.claims, c \in t[j].ppd.claims
               PROVE  i = j
    OBVIOUS
  <2>1. CASE c = m + 1
    BY <1>14, <1>15, <2>1
  <2>2. CASE c # m + 1
    <3>1. c \in s[i].ppd.claims /\ c \in s[j].ppd.claims
      BY <1>14, <2>2
    <3> QED BY <1>9, <1>10, <3>1
  <2> QED BY <2>1, <2>2
<1>18. \A c \in 1 .. m : InFlight(s, c) <=> InFlight(t, c) \/ c \in ppd.claims
  <2> SUFFICES ASSUME NEW c \in 1 .. m
               PROVE  InFlight(s, c) <=> InFlight(t, c) \/ c \in ppd.claims
    OBVIOUS
  <2>1. c # m + 1
    BY <1>8
  <2>2. \A i \in 1 .. k : c \in t[i].ppd.claims <=> c \in s[i].ppd.claims
    BY <1>14, <2>1
  <2>3. \A i \in 1 .. n : i = n \/ i \in 1 .. k
    BY <1>3
  <2>4. s[n].ppd = ppd
    BY <1>3 DEF ppd
  <2> QED BY <1>2, <1>3, <1>10, <2>2, <2>3, <2>4 DEF InFlight
<1>19. \A c \in ppd.claims : ~InFlight(t, c)
  <2> SUFFICES ASSUME NEW c \in ppd.claims, NEW i \in 1 .. k, c \in t[i].ppd.claims PROVE FALSE
    BY <1>2 DEF InFlight
  <2>1. c # m + 1
    BY <1>8, <1>11
  <2>2. c \in s[i].ppd.claims
    BY <1>14, <2>1
  <2>3. c \in s[n].ppd.claims
    BY <1>3 DEF ppd
  <2> QED BY <1>9, <1>10, <2>2, <2>3
<1>20. ASSUME NEW c \in 1 .. m + 1
       PROVE  /\ tr[c].addr # Entry <=> ClaimedIn(tr, c) \/ InFlight(t, c)
              /\ ~(ClaimedIn(tr, c) /\ InFlight(t, c))
  <2>1. CASE c = m + 1
    <3>1. InFlight(t, m + 1)
      <4>1. k \in 1 .. Len(t)
        BY <1>2, <1>3
      <4> QED BY <1>4, <4>1 DEF InFlight
    <3> QED BY <1>12, <1>13, <2>1, <3>1
  <2>2. CASE c # m + 1
    <3>1. c \in 1 .. m
      BY <1>8, <2>2
    <3> QED BY <1>9, <1>11, <1>12, <1>13, <1>18, <1>19, <3>1
  <2> QED BY <2>1, <2>2
<1>21. t[Len(t)].ctx.trace = tr
  BY <1>2, <1>5
<1>22. StackTree(t)
  BY <1>2, <1>12, <1>13, <1>16, <1>17, <1>20, <1>21 DEF StackTree
<1> QED BY <1>22 DEF t

LEMMA TreeStarts ==
  ASSUME TInv, NEW r \in Runs, Starts(r)
  PROVE  StackTree(stack'[r])
<1> DEFINE t == stack'[r]
<1>1. Len(t) = 1 /\ t[1].ctx \in HeldContexts /\ t[1].ppd.claims = {}
  BY DEF Starts, EmptyProofData
<1>2. Tree(t[1].ctx.trace) /\ Settled(t[1].ctx.trace)
  <2>1. CASE t[1].ctx = InitialContext
    <3>1. t[1].ctx.trace = <<>>
      BY <2>1 DEF InitialContext
    <3> QED BY <3>1 DEF Tree, Settled
  <2>2. CASE \E q \in Runs : t[1].ctx = result[q]
    BY <2>2 DEF TInv
  <2> QED BY <1>1, <2>1, <2>2 DEF HeldContexts
<1> HIDE DEF t
<1>3. \A k : ~InFlight(t, k)
  BY <1>1 DEF InFlight
<1>4. StackTree(t)
  BY <1>1, <1>2, <1>3 DEF StackTree, Settled
<1> QED BY <1>4 DEF t

(* A run that is done leaves no call unclaimed.                             *)
LEMMA TreeFinishes ==
  ASSUME IInv, CInv, NEW r \in Runs, StackTree(stack[r]), Finishes(r)
  PROVE  Tree(result'[r].trace) /\ Settled(result'[r].trace)
<1> DEFINE s == stack[r]
           old == Top(r).ctx.trace
           m == Len(old)
           ppd == Top(r).ppd
           tr == result'[r].trace
<1>1. status[r] = "running" /\ Depth(r) = 1
      /\ result'[r] = Finalize(Top(r).ctx, Top(r).ppd)
  BY DEF Finishes
<1>2. EndsWith(tr, old, Top(r).ctx, ppd) /\ tr[m + 1].comm = FALSE
  BY <1>1, FinishedEnds
<1>3. Len(s) = 1 /\ s[1] = Top(r)
  BY <1>1 DEF Depth, Top
<1>4. Top(r).ctx.cc.addr = Entry
  <2>1. Home(Top(r)) = Top(r).ctx.cc.addr
    BY <1>1, TopHolds DEF CInv
  <2> QED BY <1>1, <1>3, <2>1 DEF CInv, CellsOK
<1>5. m \in Nat
  <2>1. old \in Seq(CallProofData)
    BY <1>1, RunningRefs, CellsTyped DEF ContextOK
  <2> QED BY <2>1, LenProperties
<1>6. /\ Tree(old) /\ ppd.claims \subseteq 1 .. m
      /\ \A c \in 1 .. m :
           /\ old[c].addr # Entry <=> ClaimedIn(old, c) \/ c \in ppd.claims
           /\ ~(ClaimedIn(old, c) /\ c \in ppd.claims)
  <2>1. \A c : InFlight(s, c) <=> c \in ppd.claims
    BY <1>3 DEF InFlight
  <2> QED BY <1>3, <2>1 DEF StackTree
<1> HIDE DEF s, old, ppd, tr
<1>7. /\ Tree(tr)
      /\ \A c : ClaimedIn(tr, c) <=> ClaimedIn(old, c) \/ c \in ppd.claims
      /\ ~ClaimedIn(tr, m + 1)
  BY <1>2, <1>4, <1>5, <1>6, TreeExtended
<1>8. /\ Len(tr) = m + 1 /\ \A j \in 1 .. m : tr[j] = old[j]
      /\ tr[m + 1].addr = Entry
  BY <1>2, <1>4 DEF EndsWith
<1> HIDE DEF m
<1>9. Settled(tr)
  <2> SUFFICES ASSUME NEW c \in 1 .. m + 1 PROVE ClaimedIn(tr, c) <=> tr[c].addr # Entry
    BY <1>8 DEF Settled
  <2>1. CASE c = m + 1
    BY <1>7, <1>8, <2>1
  <2>2. CASE c # m + 1
    <3>1. c \in 1 .. m
      BY <1>5, <2>2
    <3> QED BY <1>6, <1>7, <1>8, <3>1
  <2> QED BY <2>1, <2>2
<1> QED BY <1>7, <1>9 DEF tr

LEMMA InitTInv == Init => TInv
<1> SUFFICES ASSUME Init PROVE TInv
  OBVIOUS
<1>1. \A r \in Runs : result[r].trace = <<>> /\ status[r] = "idle"
  BY DEF Init, InitialContext
<1> QED BY <1>1 DEF TInv, Tree, Settled

LEMMA NextTInv == IInv /\ AInv /\ CInv /\ TInv /\ [Next]_vars => TInv'
<1> SUFFICES ASSUME IInv, AInv, CInv, TInv, [Next]_vars PROVE TInv'
  OBVIOUS
<1>1. CASE UNCHANGED vars
  BY <1>1 DEF vars, TInv
<1>2. CASE Next
  <2>1. PICK r \in Runs : Step(r)
    BY <1>2 DEF Next
  <2>2. /\ OthersRest(r)
        /\ \/ Starts(r) \/ Finishes(r) \/ Fails(r)
           \/ Idles(r) \/ Queries(r) \/ Outputs(r) \/ Enters(r) \/ Returns(r)
    BY <2>1, NextIInv, Shapes
  <2>3. status'[r] = "running" => StackTree(stack'[r])
    <3>1. CASE Starts(r)
      BY <3>1, TreeStarts
    <3>2. CASE Finishes(r) \/ Fails(r)
      BY <3>2 DEF Finishes, Fails, Goes
    <3>3. CASE Idles(r) \/ Queries(r) \/ Outputs(r) \/ Enters(r) \/ Returns(r)
      <4>1. StackTree(stack[r])
        BY <3>3 DEF TInv, Idles, Queries, Outputs, Enters, Returns, GoesOn, Goes
      <4> QED BY <3>3, <4>1, TreeStays, TreeEnters, TreeReturns
    <3> QED BY <2>2, <3>1, <3>2, <3>3
  <2>4. Tree(result'[r].trace) /\ Settled(result'[r].trace)
    <3>1. CASE Finishes(r)
      <4>1. StackTree(stack[r])
        BY <3>1 DEF TInv, Finishes
      <4> QED BY <3>1, <4>1, TreeFinishes
    <3>2. CASE result'[r] = result[r]
      BY <3>2 DEF TInv
    <3> QED BY <2>2, <3>1, <3>2
            DEF Starts, Fails, Idles, Queries, Outputs, Enters, Returns, GoesOn, Goes
  <2>5. \A q \in Runs : q # r =>
          /\ Tree(result'[q].trace) /\ Settled(result'[q].trace)
          /\ status'[q] = "running" => StackTree(stack'[q])
    BY <2>2 DEF OthersRest, TInv
  <2>6. \A q \in Runs :
          /\ Tree(result'[q].trace) /\ Settled(result'[q].trace)
          /\ status'[q] = "running" => StackTree(stack'[q])
    BY <2>3, <2>4, <2>5
  <2> QED BY <2>6 DEF TInv
<1> QED BY <1>1, <1>2

(* Every call of a run that has not failed, but the root ones, is claimed   *)
(* by exactly one call, which completed after it or is still executing, and *)
(* carries its communication commitment; a root call is claimed by none.    *)
THEOREM TraceIsTheCallTree == Spec => []CallTreeTrace
<1>1. IInv /\ TInv => CallTreeTrace
  <2> SUFFICES ASSUME IInv, TInv, NEW r \in Runs, status[r] = "running",
                      NEW k \in 1 .. Len(Top(r).ctx.trace)
               PROVE  LET e == Top(r).ctx.trace[k]
                      IN IF e.addr = Entry
                         THEN ClaimsOf(r, k) = {} /\ ~e.comm
                         ELSE /\ Cardinality(ClaimsOf(r, k)) = 1
                              /\ \A j \in ClaimsOf(r, k) : j > k
                              /\ e.comm
    BY DEF CallTreeTrace, Sound
  <2> DEFINE s == stack[r]
             tr == Top(r).ctx.trace
             n == Len(tr)
             done == {j \in 1 .. n : k \in tr[j].claims}
             live == {i \in 1 .. Len(s) : k \in s[i].ppd.claims}
  <2>1. n \in Nat /\ Len(s) \in Nat
    <3>1. tr \in Seq(CallProofData) /\ stack[r] \in Seq(Frame)
      BY RunningRefs, CellsTyped DEF ContextOK, IInv
    <3> QED BY <3>1, LenProperties
  <2>2. ClaimsOf(r, k) = done \cup {n + i : i \in live}
    BY DEF ClaimsOf, Depth
  <2>3. /\ Tree(tr)
        /\ \A i \in 1 .. Len(s) : s[i].ppd.claims \subseteq 1 .. n
        /\ tr[k].addr # Entry <=> ClaimedIn(tr, k) \/ InFlight(s, k)
        /\ ~(ClaimedIn(tr, k) /\ InFlight(s, k))
        /\ \A i, j \in 1 .. Len(s) : k \in s[i].ppd.claims /\ k \in s[j].ppd.claims => i = j
    BY DEF TInv, StackTree, Top, Depth
  <2>4. /\ tr[k].comm <=> tr[k].addr # Entry
        /\ \A j \in done : k \in 1 .. j - 1
        /\ \A i, j \in done : i = j
    BY <2>3 DEF Tree
  <2>5. (ClaimedIn(tr, k) <=> done # {}) /\ (InFlight(s, k) <=> live # {})
    BY DEF ClaimedIn, InFlight
  <2>6. \A i, j \in live : i = j
    BY <2>3
  <2>7. done \subseteq Nat /\ live \subseteq Nat \ {0} /\ k \in 1 .. n
    BY <2>1
  <2> HIDE DEF s, tr, n, done, live
  <2>8. CASE tr[k].addr = Entry
    <3>1. done = {} /\ live = {}
      BY <2>3, <2>5, <2>8
    <3>2. ClaimsOf(r, k) = {}
      BY <2>2, <3>1
    <3> QED BY <2>4, <2>8, <3>2 DEF tr
  <2>9. CASE tr[k].addr # Entry
    <3>1. \E j \in Nat : ClaimsOf(r, k) = {j} /\ j > k
      <4>1. CASE done # {}
        <5>1. PICK j \in done : done = {j}
          BY <2>4, <4>1
        <5>2. live = {}
          BY <2>3, <2>5, <4>1
        <5>3. j \in Nat /\ j > k
          BY <2>1, <2>4, <2>7
        <5> QED BY <2>2, <5>1, <5>2, <5>3
      <4>2. CASE done = {}
        <5>1. PICK i \in live : live = {i}
          BY <2>3, <2>5, <2>6, <2>9, <4>2
        <5>2. n + i \in Nat /\ n + i > k
          BY <2>1, <2>7
        <5>3. ClaimsOf(r, k) = {n + i}
          BY <2>2, <4>2, <5>1
        <5> QED BY <5>2, <5>3
      <4> QED BY <4>1, <4>2
    <3>2. PICK j \in Nat : ClaimsOf(r, k) = {j} /\ j > k
      BY <3>1
    <3>3. Cardinality(ClaimsOf(r, k)) = 1
      BY <3>2, FS_Singleton
    <3> QED BY <2>4, <2>9, <3>2, <3>3 DEF tr
  <2> QED BY <2>8, <2>9
<1> QED BY InitIInv, NextIInv, InitAInv, NextAInv, InitCInv, NextCInv, InitTInv, NextTInv,
           <1>1, PTL DEF Spec

-----------------------------------------------------------------------------
(* Callers and effects.  enterQueryContext overwrites the object of a       *)
(* callee met before in place, so nothing a circuit in flight starts from   *)
(* or works on may be that object.  One run executes at a time: another one *)
(* would call the same contract and overwrite the object under it.          *)

(* Two contracts never share a query context.                               *)
Injective(ctx) ==
  \A a, b \in Addr : Known(ctx, a) /\ ctx.queryContexts[a] = ctx.queryContexts[b] => a = b

(* The context a circuit started from is no other contract's.               *)
Apart(h, ctx, cells) ==
  /\ cells.init \in 1 .. Len(h)
  /\ \A a \in Addr : a # cells.addr => ctx.queryContexts[a] # cells.init

OwnEffects(h, f, caller) ==
  /\ h[Cells(f).init].caller = caller
  /\ h[Cells(f).cur].caller = caller
  /\ h[Cells(f).cur].effects = f.ppd.ops + Cardinality(f.ppd.claims)

StackOwn(h, s) ==
  LET ctx == s[Len(s)].ctx
  IN /\ Injective(ctx)
     /\ \A i \in 1 .. Len(s) : Apart(h, ctx, Cells(s[i]))
     /\ \A i \in 2 .. Len(s) : OwnEffects(h, s[i], Home(s[i - 1]))

OInv == \A r, q \in Started : r = q

EInv ==
  /\ \A r \in Runs : status[r] = "running" => StackOwn(heap, stack[r])
  /\ \A r \in Runs : Injective(result[r]) /\ Apart(heap, result[r], result[r].cc)
  /\ Apart(heap, InitialContext, InitialContext.cc)

LEMMA OnlyStartsFromIdle ==
  ASSUME NEW r \in Runs, Step(r), status[r] = "idle"
  PROVE  StartRun(r)
BY DEF Step, LedgerOp, CreateZswapOutput, CallWitness, CircuitThrows, BeginCall, StateArrives,
       ModuleRefused, NoProvableCircuit, EnterCallee, FinishRun, ReturnToCaller, Unwind, Executing

LEMMA NextOInv == ~Overlap /\ IInv /\ OInv /\ [Next]_vars => OInv'
<1> SUFFICES ASSUME ~Overlap, IInv, OInv, [Next]_vars PROVE OInv'
  OBVIOUS
<1>1. CASE UNCHANGED vars
  BY <1>1 DEF vars, OInv, Started
<1>2. CASE Next
  <2>1. PICK r \in Runs : Step(r)
    BY <1>2 DEF Next
  <2>2. /\ OthersRest(r)
        /\ \/ Starts(r) \/ Finishes(r) \/ Fails(r)
           \/ Idles(r) \/ Queries(r) \/ Outputs(r) \/ Enters(r) \/ Returns(r)
    BY <2>1, NextIInv, Shapes
  <2>3. CASE status[r] \in {"running", "throwing"}
    <3>1. \A q \in Runs : q # r => status[q] \notin {"running", "throwing"}
      BY <2>3 DEF OInv, Started
    <3> QED BY <2>2, <3>1 DEF OthersRest, OInv, Started
  <2>4. CASE status[r] = "idle"
    <3>1. \A q \in Runs : status[q] \in {"idle", "done", "failed"}
      BY <2>1, <2>4, OnlyStartsFromIdle DEF StartRun
    <3> QED BY <2>2, <3>1 DEF OthersRest, OInv, Started
  <2>5. status[r] \in {"running", "throwing"} \/ status[r] = "idle"
    BY <2>2 DEF Starts, Finishes, Fails, Idles, Queries, Outputs, Enters, Returns, GoesOn, Goes
  <2> QED BY <2>3, <2>4, <2>5
<1> QED BY <1>1, <1>2

(* The frames of a running stack, and what the maps hold for them.          *)
LEMMA FramesHeld ==
  ASSUME IInv, AInv, CInv, NEW r \in Runs, status[r] = "running"
  PROVE  /\ Depth(r) \in Nat \ {0} /\ Depth(r) = Len(stack[r]) /\ stack[r][Depth(r)] = Top(r)
         /\ \A i \in 1 .. Depth(r) :
              /\ Home(stack[r][i]) \in Addr
              /\ Known(Top(r).ctx, Home(stack[r][i]))
              /\ Cells(stack[r][i]).cur \in 1 .. Len(heap)
              /\ Top(r).ctx.queryContexts[Home(stack[r][i])] = Cells(stack[r][i]).cur
<1> DEFINE s == stack[r]
           n == Depth(r)
<1>1. /\ n \in Nat \ {0} /\ n = Len(s) /\ s[n] = Top(r) /\ StackOK(s, "running", Len(heap))
  BY TopFacts DEF Depth, Top
<1>2. \A i \in 1 .. n : Home(s[i]) \in Addr
  BY HomesApart DEF CInv
<1>3. ASSUME NEW i \in 1 .. n
      PROVE  /\ Cells(s[i]).cur \in 1 .. Len(heap)
             /\ Top(r).ctx.queryContexts[Home(s[i])] = Cells(s[i]).cur
  <2>1. FrameOK(s[i], Len(heap))
    BY <1>1 DEF StackOK
  <2>2. s[i].ctx.cc.cur \in 1 .. Len(heap) /\ s[i].saved.cur \in 1 .. Len(heap)
    BY <2>1 DEF FrameOK, ContextOK
  <2>3. MapsHold(Top(r).ctx, Cells(s[i]))
    BY <1>1 DEF CInv, CellsOK
  <2> QED BY <2>2, <2>3 DEF Cells, MapsHold, Home
<1>4. ASSUME NEW i \in 1 .. n
      PROVE  Known(Top(r).ctx, Home(s[i]))
  <2>1. CASE i = n
    BY <1>1, <2>1, TopHolds DEF CInv
  <2>2. CASE i # n
    <3>1. i \in 1 .. Len(s) - 1
      BY <1>1, <2>2
    <3>2. s[i].pc = "callee" /\ Known(Top(r).ctx, s[i].saved.addr)
      BY <1>1, <3>1 DEF StackOK
    <3> QED BY <3>2 DEF Home, Cells
  <2> QED BY <2>1, <2>2
<1> QED BY <1>1, <1>2, <1>3, <1>4

(* A circuit whose cell moves to a fresh object, in place or as the caller  *)
(* its callee returns to.                                                   *)
LEMMA OwnMoves ==
  ASSUME IInv, AInv, CInv, NEW r \in Runs, status[r] = "running", StackOwn(heap, stack[r]),
         NEW k \in 1 .. Depth(r), NEW t, Len(t) = k, \A i \in 1 .. k - 1 : t[i] = stack[r][i],
         NEW ctx, t[k].ctx = ctx, t[k].pc # "callee",
         ctx.cc.addr = Home(stack[r][k]), ctx.cc.init = Cells(stack[r][k]).init,
         ctx.cc.cur = Fresh,
         \A b \in Addr : ctx.queryContexts[b] =
           IF b = Home(stack[r][k]) THEN Fresh ELSE Top(r).ctx.queryContexts[b],
         NEW object \in Object, Allocate(object),
         object.caller = heap[Cells(stack[r][k]).cur].caller,
         k # 1 => object.effects = t[k].ppd.ops + Cardinality(t[k].ppd.claims)
  PROVE  StackOwn(heap', t)
<1> DEFINE s == stack[r]
           n == Depth(r)
           old == Top(r).ctx
           a == Home(s[k])
<1>1. /\ n \in Nat \ {0} /\ n = Len(s) /\ s[n] = Top(r) /\ k \in Nat
      /\ \A i \in 1 .. n : /\ Home(s[i]) \in Addr
                           /\ Cells(s[i]).cur \in 1 .. Len(heap)
  BY FramesHeld
<1>2. /\ Fresh \in 1 .. Len(heap') /\ heap'[Fresh] = object
      /\ \A i \in 1 .. Len(heap) : heap'[i] = heap[i]
      /\ Len(heap') >= Len(heap) /\ Len(heap) \in Nat /\ Fresh \notin 0 .. Len(heap)
  <2>1. heap \in Seq(Object) /\ Len(heap) \in Nat
    BY LenProperties DEF IInv
  <2>2. Fresh \notin 0 .. Len(heap)
    BY <2>1 DEF Fresh
  <2> QED BY <2>1, <2>2, Allocated DEF Keeps
<1>3. \A b \in Addr : old.queryContexts[b] \in 0 .. Len(heap)
  BY RunningRefs DEF ContextOK
<1>4. /\ Injective(old)
      /\ \A i \in 1 .. n : Apart(heap, old, Cells(s[i]))
      /\ \A i \in 2 .. n : OwnEffects(heap, s[i], Home(s[i - 1]))
  BY <1>1 DEF StackOwn
<1>5. \A i, j \in 1 .. n : i # j => Home(s[i]) # Home(s[j])
  BY HomesApart DEF CInv
<1>6. Cells(t[k]) = ctx.cc
  BY DEF Cells
<1>7. \A b \in Addr : ctx.queryContexts[b] = IF b = a THEN Fresh ELSE old.queryContexts[b]
  OBVIOUS
<1>8. \A i \in 1 .. k : i \in 1 .. n /\ (i = k \/ i \in 1 .. k - 1)
  BY <1>1
<1>9. \A i \in 1 .. k : Cells(t[i]).addr = Home(s[i]) /\ Cells(t[i]).init = Cells(s[i]).init
  BY <1>6, <1>8 DEF Home
<1>10. a \in Addr /\ ctx.cc.cur = Fresh /\ Home(t[k]) = a
  BY <1>1, <1>6 DEF Home
<1> HIDE DEF s, n, old, a
<1>11. Injective(ctx)
  <2> SUFFICES ASSUME NEW b \in Addr, NEW c \in Addr, Known(ctx, b),
                      ctx.queryContexts[b] = ctx.queryContexts[c], b # c
               PROVE  FALSE
    BY DEF Injective
  <2>1. CASE b = a \/ c = a
    BY <1>2, <1>3, <1>7, <2>1
  <2>2. CASE b # a /\ c # a
    BY <1>4, <1>7, <2>2 DEF Injective, Known
  <2> QED BY <2>1, <2>2
<1>12. \A i \in 1 .. k : Apart(heap', ctx, Cells(t[i]))
  <2> SUFFICES ASSUME NEW i \in 1 .. k PROVE Apart(heap', ctx, Cells(t[i]))
    OBVIOUS
  <2>1. /\ Cells(t[i]).init \in 1 .. Len(heap)
        /\ \A b \in Addr : b # Cells(t[i]).addr => old.queryContexts[b] # Cells(t[i]).init
    <3>1. i \in 1 .. n
      BY <1>8
    <3>2. Apart(heap, old, Cells(s[i]))
      BY <1>4, <3>1
    <3>3. Cells(t[i]).addr = Cells(s[i]).addr /\ Cells(t[i]).init = Cells(s[i]).init
      BY <1>9 DEF Home
    <3> QED BY <3>2, <3>3 DEF Apart
  <2>2. Cells(t[i]).init \in 1 .. Len(heap') /\ Cells(t[i]).init # Fresh
    BY <1>2, <2>1
  <2>3. \A b \in Addr : b # Cells(t[i]).addr => ctx.queryContexts[b] # Cells(t[i]).init
    BY <1>7, <2>1, <2>2
  <2> QED BY <2>2, <2>3 DEF Apart
<1>13. \A i \in 2 .. k : OwnEffects(heap', t[i], Home(t[i - 1]))
  <2> SUFFICES ASSUME NEW i \in 2 .. k PROVE OwnEffects(heap', t[i], Home(t[i - 1]))
    OBVIOUS
  <2>1. i \in 1 .. k /\ i - 1 \in 1 .. k /\ i - 1 # k /\ i \in 2 .. n /\ i \in 1 .. n
    BY <1>1, <1>8
  <2>2. Home(t[i - 1]) = Home(s[i - 1])
    BY <1>9, <2>1 DEF Home
  <2>3. OwnEffects(heap, s[i], Home(s[i - 1]))
    BY <1>4, <2>1
  <2>4. /\ Cells(s[i]).init \in 1 .. Len(heap) /\ Cells(s[i]).cur \in 1 .. Len(heap)
    BY <1>1, <1>4, <2>1 DEF Apart
  <2>5. CASE i = k
    <3>1. Cells(t[i]).init = Cells(s[i]).init /\ Cells(t[i]).cur = Fresh
      BY <1>6, <1>9, <1>10, <2>1, <2>5
    <3>2. k # 1 /\ object.caller = heap[Cells(s[i]).cur].caller
      BY <2>5 DEF s
    <3>3. object.effects = t[i].ppd.ops + Cardinality(t[i].ppd.claims)
      BY <2>5, <3>2
    <3> QED BY <1>2, <2>2, <2>3, <2>4, <3>1, <3>2, <3>3 DEF OwnEffects
  <2>6. CASE i # k
    <3>1. t[i] = s[i]
      <4>1. i \in 1 .. k - 1
        BY <1>8, <2>1, <2>6
      <4> QED BY <4>1 DEF s
    <3> QED BY <1>2, <2>2, <2>3, <2>4, <3>1, SMTT(20) DEF OwnEffects
  <2> QED BY <2>5, <2>6
<1>14. t[Len(t)].ctx = ctx
  OBVIOUS
<1> QED BY <1>11, <1>12, <1>13, <1>14 DEF StackOwn

LEMMA OwnIdle ==
  ASSUME IInv, CInv, NEW r \in Runs, StackOwn(heap, stack[r]), Idles(r)
  PROVE  StackOwn(heap', stack'[r])
<1> DEFINE s == stack[r]
           t == stack'[r]
           n == Depth(r)
<1>1. PICK ctx \in CircuitContext :
        /\ SameCells(ctx.cc, Top(r).ctx.cc) /\ SameMaps(ctx, Top(r).ctx)
        /\ GoesOn(r, ctx, Top(r).ppd)
  BY DEF Idles
<1>2. /\ status[r] = "running" /\ Len(t) = n /\ heap' = heap
      /\ \A i \in 1 .. n - 1 : t[i] = s[i]
      /\ t[n].ctx = ctx /\ t[n].ppd = Top(r).ppd /\ t[n].pc # "callee"
  BY <1>1 DEF GoesOn, Goes, Idles
<1>3. n \in Nat \ {0} /\ n = Len(s) /\ s[n] = Top(r)
  BY <1>2, TopFacts DEF Top, Depth
<1>4. Cells(s[n]) = Top(r).ctx.cc /\ Cells(t[n]) = ctx.cc
  BY <1>2, <1>3, TopHolds DEF CInv, Cells
<1> HIDE DEF s, t, n
<1>5. \A i \in 1 .. n : i = n \/ i \in 1 .. n - 1
  BY <1>3
<1>6. \A i \in 1 .. n :
        /\ Cells(t[i]).addr = Cells(s[i]).addr /\ Cells(t[i]).init = Cells(s[i]).init
        /\ Cells(t[i]).cur = Cells(s[i]).cur /\ t[i].ppd = s[i].ppd
  BY <1>1, <1>2, <1>3, <1>4, <1>5 DEF SameCells
<1>7. /\ Injective(Top(r).ctx)
      /\ \A i \in 1 .. n : Apart(heap, Top(r).ctx, Cells(s[i]))
      /\ \A i \in 2 .. n : OwnEffects(heap, s[i], Home(s[i - 1]))
  BY <1>3 DEF StackOwn, s
<1>8. ctx.queryContexts = Top(r).ctx.queryContexts
  BY <1>1 DEF SameMaps
<1>9. Injective(ctx)
  BY <1>7, <1>8 DEF Injective, Known
<1>10. \A i \in 1 .. n : Apart(heap', ctx, Cells(t[i]))
  BY <1>2, <1>6, <1>7, <1>8 DEF Apart
<1>11. \A i \in 2 .. n : OwnEffects(heap', t[i], Home(t[i - 1]))
  <2> SUFFICES ASSUME NEW i \in 2 .. n PROVE OwnEffects(heap', t[i], Home(t[i - 1]))
    OBVIOUS
  <2>1. i \in 1 .. n /\ i - 1 \in 1 .. n
    BY <1>3
  <2> QED BY <1>2, <1>6, <1>7, <2>1 DEF OwnEffects, Home
<1>12. StackOwn(heap', t)
  BY <1>2, <1>9, <1>10, <1>11 DEF StackOwn
<1> QED BY <1>12 DEF t

(* What the effects of the object the executing circuit works on count.     *)
LEMMA OwnCount ==
  ASSUME IInv, AInv, CInv, TInv, NEW r \in Runs, status[r] = "running",
         StackOwn(heap, stack[r]), NEW k \in 1 .. Depth(r)
  PROVE  /\ stack[r][k].ppd.ops \in Nat /\ IsFiniteSet(stack[r][k].ppd.claims)
         /\ Cardinality(stack[r][k].ppd.claims) \in Nat
         /\ stack[r][k].ppd.claims \subseteq 1 .. Len(Top(r).ctx.trace)
         /\ Len(Top(r).ctx.trace) \in Nat
         /\ k # 1 => heap[Cells(stack[r][k]).cur].effects =
                       stack[r][k].ppd.ops + Cardinality(stack[r][k].ppd.claims)
<1> DEFINE s == stack[r]
           m == Len(Top(r).ctx.trace)
<1>1. /\ Depth(r) \in Nat /\ Depth(r) = Len(s) /\ s[Depth(r)] = Top(r)
      /\ StackOK(s, "running", Len(heap))
  BY TopFacts DEF Depth, Top
<1>2. m \in Nat
  <2>1. Top(r).ctx.trace \in Seq(CallProofData)
    BY RunningRefs, CellsTyped DEF ContextOK
  <2> QED BY <2>1, LenProperties
<1>3. s[k].ppd.ops \in Nat
  <2>1. s[k] \in Frame
    BY <1>1 DEF StackOK, FrameOK
  <2> QED BY <2>1, FrameTyped DEF ProofData
<1>4. s[k].ppd.claims \subseteq 1 .. m
  BY <1>1 DEF TInv, StackTree
<1> HIDE DEF m
<1>5. IsFiniteSet(s[k].ppd.claims)
  <2>1. 1 \in Int /\ m \in Int
    BY <1>2
  <2>2. IsFiniteSet(1 .. m)
    BY <2>1, FS_Interval
  <2> QED BY <1>4, <2>2, FS_Subset
<1>6. Cardinality(s[k].ppd.claims) \in Nat
  BY <1>5, FS_CardinalityType
<1>7. k # 1 => OwnEffects(heap, s[k], Home(s[k - 1]))
  <2>1. k # 1 => k \in 2 .. Len(s)
    BY <1>1
  <2> QED BY <2>1 DEF StackOwn
<1> QED BY <1>2, <1>3, <1>4, <1>5, <1>6, <1>7 DEF OwnEffects, m

LEMMA OwnQuery ==
  ASSUME IInv, AInv, CInv, TInv, NEW r \in Runs, StackOwn(heap, stack[r]), Queries(r)
  PROVE  StackOwn(heap', stack'[r])
<1> DEFINE n == Depth(r)
           t == stack'[r]
           f == Top(r)
           old == f.ctx
           ref == old.cc.cur
           object == [heap[ref] EXCEPT !.data = @ + 1, !.effects = @ + 1]
           ppd == [f.ppd EXCEPT !.ops = @ + 1]
<1>1. PICK cost \in Nat, logs \in Seq(Addr) : GoesOn(r, Queried(old, Fresh, cost, logs), ppd)
  BY DEF Queries
<1> DEFINE ctx == Queried(old, Fresh, cost, logs)
<1>2. /\ status[r] = "running" /\ Len(t) = n
      /\ \A i \in 1 .. n - 1 : t[i] = stack[r][i]
      /\ t[n].ctx = ctx /\ t[n].ppd = ppd /\ t[n].pc # "callee"
  BY <1>1 DEF GoesOn, Goes
<1>3. /\ n \in 1 .. n /\ stack[r][n] = f
      /\ heap \in Seq(Object) /\ ref \in 1 .. Len(heap) /\ old \in CircuitContext
      /\ f.ppd \in ProofData
  BY <1>2, FramesHeld, RunningRefs DEF ContextOK
<1>4. Cells(f) = old.cc /\ Home(f) = old.cc.addr
  BY <1>2, TopHolds DEF CInv
<1>5. /\ ctx.cc.addr = old.cc.addr /\ ctx.cc.init = old.cc.init /\ ctx.cc.cur = Fresh
      /\ \A b \in Addr :
           ctx.queryContexts[b] = IF b = old.cc.addr THEN Fresh ELSE old.queryContexts[b]
  BY <1>3, QueriedFields
<1>6. /\ object \in Object /\ object.caller = heap[ref].caller
      /\ object.effects = heap[ref].effects + 1
  BY <1>3, MovedObject
<1>7. Allocate(object)
  BY DEF Queries
<1>8. ppd.ops = f.ppd.ops + 1 /\ ppd.claims = f.ppd.claims
  BY <1>3 DEF ProofData
<1> HIDE DEF object, ctx, ppd, t, f
<1>9. n # 1 => object.effects = ppd.ops + Cardinality(ppd.claims)
  <2>1. /\ f.ppd.ops \in Nat /\ Cardinality(f.ppd.claims) \in Nat
        /\ n # 1 => heap[ref].effects = f.ppd.ops + Cardinality(f.ppd.claims)
    BY <1>2, <1>3, <1>4, OwnCount
  <2> QED BY <1>6, <1>8, <2>1
<1>10. StackOwn(heap', t)
  <2>1. /\ n \in 1 .. Depth(r) /\ f = stack[r][n] /\ Top(r).ctx = old
        /\ object.caller = heap[Cells(f).cur].caller
    BY <1>3, <1>4, <1>6 DEF f
  <2> HIDE DEF n, old, ref
  <2> QED BY <1>2, <1>4, <1>5, <1>6, <1>7, <1>9, <2>1, OwnMoves
<1> QED BY <1>10 DEF t

LEMMA OwnOutput ==
  ASSUME IInv, AInv, CInv, TInv, NEW r \in Runs, StackOwn(heap, stack[r]), Outputs(r)
  PROVE  StackOwn(heap', stack'[r])
<1> DEFINE n == Depth(r)
           t == stack'[r]
           f == Top(r)
           old == f.ctx
           ref == old.cc.cur
           object == [heap[ref] EXCEPT !.com = @ + 1]
           ctx == WithOutput(old, Fresh)
<1>1. /\ status[r] = "running" /\ Len(t) = n
      /\ \A i \in 1 .. n - 1 : t[i] = stack[r][i]
      /\ t[n].ctx = ctx /\ t[n].ppd = f.ppd /\ t[n].pc # "callee"
  BY DEF Outputs, GoesOn, Goes
<1>2. /\ n \in 1 .. n /\ stack[r][n] = f
      /\ heap \in Seq(Object) /\ ref \in 1 .. Len(heap) /\ old \in CircuitContext
  BY <1>1, FramesHeld, RunningRefs DEF ContextOK
<1>3. Cells(f) = old.cc /\ Home(f) = old.cc.addr
  BY <1>1, TopHolds DEF CInv
<1>4. /\ ctx.cc.addr = old.cc.addr /\ ctx.cc.init = old.cc.init /\ ctx.cc.cur = Fresh
      /\ \A b \in Addr :
           ctx.queryContexts[b] = IF b = old.cc.addr THEN Fresh ELSE old.queryContexts[b]
  BY <1>2, WithOutputFields
<1>5. /\ object \in Object /\ object.caller = heap[ref].caller
      /\ object.effects = heap[ref].effects
  BY <1>2, MovedObject
<1>6. Allocate(object)
  BY DEF Outputs
<1> HIDE DEF object, ctx, t, f
<1>7. n # 1 => object.effects = f.ppd.ops + Cardinality(f.ppd.claims)
  BY <1>1, <1>2, <1>3, <1>5, OwnCount
<1>8. StackOwn(heap', t)
  <2>1. /\ n \in 1 .. Depth(r) /\ f = stack[r][n] /\ Top(r).ctx = old
        /\ object.caller = heap[Cells(f).cur].caller
    BY <1>2, <1>3, <1>5 DEF f
  <2> HIDE DEF n, old, ref
  <2> QED BY <1>1, <1>3, <1>4, <1>5, <1>6, <1>7, <2>1, OwnMoves
<1> QED BY <1>8 DEF t

(* The claim is a query of the caller: one more effect, one more claim.     *)
LEMMA OwnReturn ==
  ASSUME IInv, AInv, CInv, TInv, NEW r \in Runs, StackOwn(heap, stack[r]), Returns(r)
  PROVE  StackOwn(heap', stack'[r])
<1> DEFINE n == Depth(r)
           k == n - 1
           t == stack'[r]
           f == stack[r][k]
           old == Top(r).ctx
           m == Len(old.trace)
           ref == f.saved.cur
           object == [heap[ref] EXCEPT !.effects = @ + 1]
           ppd == [f.ppd EXCEPT !.claims = @ \cup {m + 1}]
           back == ReturnedContext(r, f)
<1>1. PICK cost \in Nat : t[k].ctx = Queried(back, Fresh, cost, <<>>)
  BY DEF Returns
<1> DEFINE ctx == Queried(back, Fresh, cost, <<>>)
<1>2. /\ status[r] = "running" /\ n > 1 /\ Len(t) = k
      /\ \A i \in 1 .. n - 2 : t[i] = stack[r][i]
      /\ t[k].ctx = ctx /\ t[k].ppd = ppd /\ t[k].pc # "callee"
      /\ Allocate(object)
  BY <1>1 DEF Returns, Goes
<1>3. /\ n \in Nat /\ k \in 1 .. n /\ n - 2 = k - 1
      /\ heap \in Seq(Object) /\ ref \in 1 .. Len(heap)
      /\ FrameOK(Top(r), Len(heap)) /\ Len(heap) \in Nat
  <2>1. n \in Nat /\ FrameOK(Top(r), Len(heap)) /\ Len(heap) \in Nat
    BY <1>2, TopFacts
  <2>2. heap \in Seq(Object) /\ ref \in 1 .. Len(heap)
    BY <1>2, RunningRefs
  <2> QED BY <1>2, <2>1, <2>2
<1>4. f.pc = "callee" /\ f.ppd \in ProofData
  BY <1>2, WaitingCaller
<1>5. Cells(f) = f.saved /\ Home(f) = f.saved.addr
  BY <1>4 DEF Cells, Home
<1>6. back.cc = f.saved /\ SameMaps(back, old) /\ back \in CircuitContext
  BY <1>2, <1>3, ReturnedFields, ReturnedTyped
<1>7. /\ ctx.cc.addr = f.saved.addr /\ ctx.cc.init = f.saved.init /\ ctx.cc.cur = Fresh
      /\ \A b \in Addr :
           ctx.queryContexts[b] = IF b = f.saved.addr THEN Fresh ELSE old.queryContexts[b]
  BY <1>6, QueriedFields DEF SameMaps
<1>8. /\ object \in Object /\ object.caller = heap[ref].caller
      /\ object.effects = heap[ref].effects + 1
  BY <1>3, MovedObject
<1>9. ppd.ops = f.ppd.ops /\ ppd.claims = f.ppd.claims \cup {m + 1}
  BY <1>4 DEF ProofData
<1>10. /\ f.ppd.ops \in Nat /\ IsFiniteSet(f.ppd.claims) /\ Cardinality(f.ppd.claims) \in Nat
       /\ f.ppd.claims \subseteq 1 .. m /\ m \in Nat
       /\ k # 1 => heap[Cells(f).cur].effects = f.ppd.ops + Cardinality(f.ppd.claims)
  BY <1>2, <1>3, OwnCount
<1> HIDE DEF object, ctx, ppd, t, back, m
<1>11. k # 1 => object.effects = ppd.ops + Cardinality(ppd.claims)
  <2>1. m + 1 \notin f.ppd.claims
    BY <1>10
  <2>2. Cardinality(ppd.claims) = Cardinality(f.ppd.claims) + 1
    <3>1. PICK claims : claims = f.ppd.claims
      OBVIOUS
    <3>2. IsFiniteSet(claims) /\ m + 1 \notin claims /\ ppd.claims = claims \cup {m + 1}
      BY <1>9, <1>10, <2>1, <3>1
    <3>3. Cardinality(claims \cup {m + 1}) = Cardinality(claims) + 1
      BY <3>2, FS_AddElement
    <3> QED BY <3>1, <3>2, <3>3
  <2>3. PICK x, y \in Nat : x = f.ppd.ops /\ y = Cardinality(f.ppd.claims)
    BY <1>10
  <2>4. k # 1 => object.effects = (x + y) + 1
    BY <1>5, <1>8, <1>10, <2>3
  <2>5. ppd.ops = x /\ Cardinality(ppd.claims) = y + 1
    BY <1>9, <2>2, <2>3
  <2> QED BY <2>3, <2>4, <2>5
<1>12. /\ t[k].ctx = ctx /\ t[k].pc # "callee" /\ Len(t) = k
       /\ \A i \in 1 .. k - 1 : t[i] = stack[r][i]
       /\ k # 1 => object.effects = t[k].ppd.ops + Cardinality(t[k].ppd.claims)
  BY <1>2, <1>3, <1>11
<1>13. StackOwn(heap', t)
  <2>1. k \in 1 .. Depth(r) /\ f = stack[r][k]
    BY <1>3
  <2>2. /\ ctx.cc.addr = Home(stack[r][k]) /\ ctx.cc.init = Cells(stack[r][k]).init
        /\ \A b \in Addr : ctx.queryContexts[b] =
             IF b = Home(stack[r][k]) THEN Fresh ELSE Top(r).ctx.queryContexts[b]
    BY <1>5, <1>7, <2>1 DEF old
  <2>3. object.caller = heap[Cells(stack[r][k]).cur].caller
    BY <1>5, <1>8, <2>1 DEF ref
  <2>4. ctx.cc.cur = Fresh /\ object \in Object
    BY <1>7, <1>8
  <2> HIDE DEF k, f, n, ref, old
  <2> QED BY <1>2, <1>12, <2>1, <2>2, <2>3, <2>4, OwnMoves
<1> QED BY <1>13 DEF t

(* What entering a callee leaves of the heap: all but the object the callee *)
(* had before, which gets the caller's address and no effects.              *)
LEMMA EnteredHeap ==
  ASSUME heap \in Seq(Object), NEW ctx, ContextOK(ctx, Len(heap)), NEW callee \in Addr,
         EnterHeap(ctx, callee)
  PROVE  LET ref == EnteredRef(ctx, callee)
         IN /\ ref \in 1 .. Len(heap') /\ Len(heap') >= Len(heap) /\ Len(heap') \in Nat
            /\ heap'[ref].caller = ctx.cc.addr /\ heap'[ref].effects = 0
            /\ \A k \in 1 .. Len(heap) : k # ref => heap'[k] = heap[k]
            /\ ~Known(ctx, callee) => ref \notin 0 .. Len(heap)
<1> DEFINE ref == EnteredRef(ctx, callee)
<1>1. CASE Known(ctx, callee)
  <2> DEFINE object == [heap[ref] EXCEPT !.caller = ctx.cc.addr, !.effects = 0]
  <2>1. ref \in 1 .. Len(heap) /\ heap[ref] \in Object
    <3>1. ref \in 0 .. Len(heap) /\ ref # 0 /\ Len(heap) \in Nat
      BY <1>1, LenProperties DEF ContextOK, Known, NoRef, EnteredRef
    <3>2. ref \in 1 .. Len(heap)
      BY <3>1
    <3> QED BY <3>2, ElementOfSeq
  <2>2. heap' = [heap EXCEPT ![ref] = object]
    BY <1>1 DEF EnterHeap, EnteredRef
  <2>3. object.caller = ctx.cc.addr /\ object.effects = 0
    BY <2>1 DEF Object
  <2> HIDE DEF ref, object
  <2>4. Len(heap') = Len(heap) /\ Len(heap) \in Nat
    BY <2>2, LenProperties
  <2>5. \A k \in 1 .. Len(heap) : heap'[k] = IF k = ref THEN object ELSE heap[k]
    BY <2>1, <2>2
  <2> QED BY <1>1, <2>1, <2>3, <2>4, <2>5 DEF ref
<1>2. CASE ~Known(ctx, callee)
  <2> DEFINE object == [data |-> 0, com |-> 0, caller |-> ctx.cc.addr, effects |-> 0]
  <2>1. object \in Object
    BY CellsTyped, CallContextTyped DEF ContextOK, Object
  <2>2. Allocate(object)
    BY <1>2 DEF EnterHeap
  <2>3. object.caller = ctx.cc.addr /\ object.effects = 0
    OBVIOUS
  <2>4. ref = Fresh
    BY <1>2 DEF EnteredRef
  <2>5. Len(heap) \in Nat /\ heap' = Append(heap, object)
    BY <2>2, LenProperties DEF Allocate
  <2> HIDE DEF object, ref
  <2>6. Fresh \notin 0 .. Len(heap)
    BY <2>5 DEF Fresh
  <2>7. Fresh \in 1 .. Len(heap') /\ heap'[Fresh] = object
        /\ \A k \in 1 .. Len(heap) : heap'[k] = heap[k]
    BY <2>1, <2>2, Allocated
  <2>8. Len(heap') = Len(heap) + 1
    BY <2>5, AppendProperties
  <2> QED BY <2>3, <2>4, <2>5, <2>6, <2>7, <2>8 DEF ref
<1> QED BY <1>1, <1>2

(* The overwritten object is the callee's and no one else's.                *)
LEMMA OwnEnter ==
  ASSUME IInv, AInv, CInv, NEW r \in Runs, StackOwn(heap, stack[r]), Enters(r)
  PROVE  StackOwn(heap', stack'[r])
<1> DEFINE s == stack[r]
           t == stack'[r]
           n == Depth(r)
           f == Top(r)
           c == f.callee
           old == f.ctx
           ref == EnteredRef(old, c)
           ctx == CalleeContext(f)
<1>1. /\ status[r] = "running" /\ f.pc \in Pending /\ EnterHeap(old, c) /\ Len(t) = n + 1
      /\ \A i \in 1 .. n - 1 : t[i] = s[i]
      /\ t[n].pc = "callee" /\ t[n].saved = old.cc /\ t[n].ppd = f.ppd
      /\ t[n + 1].pc = "run" /\ t[n + 1].ctx = ctx /\ t[n + 1].ppd = EmptyProofData
  BY DEF Enters, Goes, Pending
<1>2. /\ n \in Nat \ {0} /\ n = Len(s) /\ s[n] = f
      /\ \A i \in 1 .. n : /\ Home(s[i]) \in Addr /\ Known(old, Home(s[i]))
                           /\ Cells(s[i]).cur \in 1 .. Len(heap)
                           /\ old.queryContexts[Home(s[i])] = Cells(s[i]).cur
  BY <1>1, FramesHeld
<1>3. /\ heap \in Seq(Object) /\ Len(heap) \in Nat /\ f \in Frame /\ c \in Addr
      /\ ContextOK(old, Len(heap))
  BY <1>1, RunningRefs
<1>4. /\ ref \in 1 .. Len(heap') /\ Len(heap') >= Len(heap) /\ Len(heap') \in Nat
      /\ heap'[ref].caller = old.cc.addr /\ heap'[ref].effects = 0
      /\ \A k \in 1 .. Len(heap) : k # ref => heap'[k] = heap[k]
      /\ ~Known(old, c) => ref \notin 0 .. Len(heap)
  BY <1>1, <1>3, EnteredHeap
<1>5. /\ ctx.cc.addr = c /\ ctx.cc.init = ref /\ ctx.cc.cur = ref
      /\ ctx.queryContexts[c] = ref
      /\ \A b \in Addr : b # c => ctx.queryContexts[b] = old.queryContexts[b]
  BY <1>3, CalleeContextHolds DEF MapsHold, AgreeOn
<1>6. Cells(f) = old.cc /\ Home(f) = old.cc.addr
  BY <1>1, TopHolds DEF CInv
<1>7. Cells(t[n]) = Cells(f) /\ Cells(t[n + 1]) = ctx.cc
  BY <1>1, <1>6 DEF Cells
<1>8. \A i \in 1 .. n : Home(s[i]) # c
  BY <1>1, HomesApart DEF CInv
<1>9. /\ Injective(old)
      /\ \A i \in 1 .. n : Apart(heap, old, Cells(s[i]))
      /\ \A i \in 2 .. n : OwnEffects(heap, s[i], Home(s[i - 1]))
  BY <1>2 DEF StackOwn
<1>10. \A b \in Addr : old.queryContexts[b] \in 0 .. Len(heap)
  BY <1>3 DEF ContextOK
<1>11. Known(old, c) => ref = old.queryContexts[c]
  BY DEF EnteredRef
<1> HIDE DEF s, t, n, old, c, ctx, f, ref
<1>12. \A i \in 1 .. n : i = n \/ i \in 1 .. n - 1
  BY <1>2
<1>13. \A i \in 1 .. n : Cells(t[i]) = Cells(s[i]) /\ t[i].ppd = s[i].ppd
  BY <1>1, <1>2, <1>7, <1>12
<1>14. \A b \in Addr : b # c /\ Known(old, b) => old.queryContexts[b] # ref
  <2> SUFFICES ASSUME NEW b \in Addr, b # c, Known(old, b), old.queryContexts[b] = ref
               PROVE  FALSE
    OBVIOUS
  <2>1. CASE Known(old, c)
    BY <1>3, <1>9, <1>11, <2>1 DEF Injective
  <2>2. CASE ~Known(old, c)
    BY <1>4, <1>10, <2>2
  <2> QED BY <2>1, <2>2
<1>15. ASSUME NEW i \in 1 .. n
       PROVE  /\ Cells(s[i]).init \in 1 .. Len(heap') /\ Cells(s[i]).init # ref
              /\ heap'[Cells(s[i]).init] = heap[Cells(s[i]).init]
              /\ heap'[Cells(s[i]).cur] = heap[Cells(s[i]).cur]
  <2>1. /\ Cells(s[i]).init \in 1 .. Len(heap)
        /\ \A a \in Addr : a # Home(s[i]) => old.queryContexts[a] # Cells(s[i]).init
    BY <1>9 DEF Apart, Home
  <2>2. Cells(s[i]).init # ref
    <3>1. CASE Known(old, c)
      BY <1>3, <1>8, <1>11, <2>1, <3>1
    <3>2. CASE ~Known(old, c)
      BY <1>4, <2>1, <3>2
    <3> QED BY <3>1, <3>2
  <2>3. Cells(s[i]).cur # ref
    BY <1>2, <1>8, <1>14
  <2>4. Cells(s[i]).init \in 1 .. Len(heap')
    BY <1>3, <1>4, <2>1
  <2> QED BY <1>2, <1>4, <2>1, <2>2, <2>3, <2>4
<1>16. ref # NoRef
  BY <1>4 DEF NoRef
<1>17. Injective(ctx)
  <2> SUFFICES ASSUME NEW a \in Addr, NEW b \in Addr, Known(ctx, a),
                      ctx.queryContexts[a] = ctx.queryContexts[b], a # b
               PROVE  FALSE
    BY DEF Injective
  <2>1. CASE a = c
    <3>1. old.queryContexts[b] = ref /\ b # c
      BY <1>5, <2>1
    <3>2. Known(old, b)
      BY <1>16, <3>1 DEF Known
    <3> QED BY <1>14, <3>1, <3>2
  <2>2. CASE b = c
    <3>1. old.queryContexts[a] = ref /\ a # c
      BY <1>5, <2>2
    <3>2. Known(old, a)
      BY <1>16, <3>1 DEF Known
    <3> QED BY <1>14, <3>1, <3>2
  <2>3. CASE a # c /\ b # c
    BY <1>5, <1>9, <2>3 DEF Injective, Known
  <2> QED BY <2>1, <2>2, <2>3
<1>18. \A i \in 1 .. n + 1 : i = n + 1 \/ i \in 1 .. n
  BY <1>2
<1>19. \A i \in 1 .. n + 1 : Apart(heap', ctx, Cells(t[i]))
  <2> SUFFICES ASSUME NEW i \in 1 .. n + 1 PROVE Apart(heap', ctx, Cells(t[i]))
    OBVIOUS
  <2>1. CASE i = n + 1
    <3>1. \A b \in Addr : b # c => ctx.queryContexts[b] # ref
      <4> SUFFICES ASSUME NEW b \in Addr, b # c, ctx.queryContexts[b] = ref PROVE FALSE
        OBVIOUS
      <4>1. old.queryContexts[b] = ref
        BY <1>5
      <4>2. Known(old, b)
        BY <1>16, <4>1 DEF Known
      <4> QED BY <1>14, <4>1, <4>2
    <3> QED BY <1>4, <1>5, <1>7, <2>1, <3>1 DEF Apart
  <2>2. CASE i \in 1 .. n
    <3>1. Apart(heap, old, Cells(s[i]))
      BY <1>9, <2>2
    <3>2. \A b \in Addr : b # Cells(s[i]).addr => ctx.queryContexts[b] # Cells(s[i]).init
      BY <1>5, <1>15, <2>2, <3>1 DEF Apart
    <3> QED BY <1>13, <1>15, <2>2, <3>2 DEF Apart
  <2> QED BY <1>18, <2>1, <2>2
<1>20. \A i \in 2 .. n + 1 : OwnEffects(heap', t[i], Home(t[i - 1]))
  <2> SUFFICES ASSUME NEW i \in 2 .. n + 1 PROVE OwnEffects(heap', t[i], Home(t[i - 1]))
    OBVIOUS
  <2>1. i - 1 \in 1 .. n /\ Home(t[i - 1]) = Home(s[i - 1])
    <3>1. i - 1 \in 1 .. n
      BY <1>2
    <3> QED BY <1>13, <3>1 DEF Home
  <2>2. CASE i = n + 1
    <3>1. i - 1 = n
      BY <1>2, <2>2
    <3>2. Home(t[i - 1]) = old.cc.addr
      BY <1>2, <1>6, <2>1, <3>1
    <3>3. t[i].ppd.ops + Cardinality(t[i].ppd.claims) = 0
      <4>1. t[i].ppd.ops = 0 /\ t[i].ppd.claims = {}
        BY <1>1, <2>2 DEF EmptyProofData
      <4> QED BY <4>1, FS_EmptySet
    <3> QED BY <1>4, <1>5, <1>7, <2>2, <3>2, <3>3 DEF OwnEffects
  <2>3. CASE i # n + 1
    <3>1. i \in 2 .. n /\ i \in 1 .. n
      BY <1>2, <2>3
    <3>2. OwnEffects(heap, s[i], Home(s[i - 1]))
      BY <1>9, <3>1
    <3> QED BY <1>13, <1>15, <2>1, <3>1, <3>2 DEF OwnEffects
  <2> QED BY <2>2, <2>3
<1>21. t[Len(t)].ctx = ctx
  BY <1>1
<1>22. StackOwn(heap', t)
  BY <1>1, <1>17, <1>19, <1>20, <1>21 DEF StackOwn
<1> QED BY <1>22 DEF t

LEMMA OwnStart ==
  ASSUME EInv, NEW r \in Runs, Starts(r)
  PROVE  StackOwn(heap', stack'[r])
<1> DEFINE t == stack'[r]
<1>1. Len(t) = 1 /\ t[1].ctx \in HeldContexts /\ t[1].pc = "run" /\ heap' = heap
  BY DEF Starts
<1>2. Injective(t[1].ctx) /\ Apart(heap, t[1].ctx, t[1].ctx.cc)
  <2>1. CASE t[1].ctx = InitialContext
    <3>1. Injective(InitialContext)
      BY DEF Injective, Known, InitialContext, NoRef
    <3> QED BY <2>1, <3>1 DEF EInv
  <2>2. CASE \E q \in Runs : t[1].ctx = result[q]
    BY <2>2 DEF EInv
  <2> QED BY <1>1, <2>1, <2>2 DEF HeldContexts
<1>3. Cells(t[1]) = t[1].ctx.cc
  BY <1>1 DEF Cells
<1> HIDE DEF t
<1>4. StackOwn(heap', t)
  BY <1>1, <1>2, <1>3 DEF StackOwn
<1> QED BY <1>4 DEF t

LEMMA OwnFinish ==
  ASSUME IInv, CInv, NEW r \in Runs, StackOwn(heap, stack[r]), Finishes(r)
  PROVE  Injective(result'[r]) /\ Apart(heap', result'[r], result'[r].cc)
<1>1. /\ status[r] = "running" /\ Depth(r) = 1 /\ heap' = heap
      /\ result'[r] = Finalize(Top(r).ctx, Top(r).ppd)
  BY DEF Finishes
<1>2. Top(r).ctx \in CircuitContext /\ Cells(Top(r)) = Top(r).ctx.cc
  BY <1>1, TopHolds DEF CInv
<1>3. result'[r].cc = Top(r).ctx.cc /\ SameMaps(result'[r], Top(r).ctx)
  BY <1>1, <1>2, FinalizeFields
<1>4. Injective(Top(r).ctx) /\ Apart(heap, Top(r).ctx, Top(r).ctx.cc)
  BY <1>1, <1>2 DEF StackOwn, Top, Depth
<1> QED BY <1>1, <1>3, <1>4 DEF Injective, Apart, Known, SameMaps

LEMMA InitEInv == Init => EInv /\ OInv
<1> SUFFICES ASSUME Init PROVE EInv /\ OInv
  OBVIOUS
<1>1. 1 \in 1 .. Len(heap)
  BY DEF Init
<1>2. Injective(InitialContext) /\ Apart(heap, InitialContext, InitialContext.cc)
  BY <1>1, EntryAssumption DEF Injective, Apart, Known, InitialContext, NoRef
<1> QED BY <1>2 DEF EInv, OInv, Started, Init

LEMMA NextEInv ==
  IInv /\ AInv /\ CInv /\ TInv /\ OInv /\ EInv /\ [Next]_vars => EInv'
<1> SUFFICES ASSUME IInv, AInv, CInv, TInv, OInv, EInv, [Next]_vars PROVE EInv'
  OBVIOUS
<1>1. CASE UNCHANGED vars
  BY <1>1 DEF vars, EInv
<1>2. CASE Next
  <2>1. PICK r \in Runs : Step(r)
    BY <1>2 DEF Next
  <2>2. /\ OthersRest(r)
        /\ \/ Starts(r) \/ Finishes(r) \/ Fails(r)
           \/ Idles(r) \/ Queries(r) \/ Outputs(r) \/ Enters(r) \/ Returns(r)
    BY <2>1, NextIInv, Shapes
  <2>3. Len(heap') >= Len(heap) /\ Len(heap) \in Nat /\ Len(heap') \in Nat
    BY <2>2, ShapesKeep, NextIInv, LenProperties DEF Keeps, IInv
  <2>4. \A ctx, cells : Apart(heap, ctx, cells) => Apart(heap', ctx, cells)
    BY <2>3 DEF Apart
  <2>5. status'[r] = "running" => StackOwn(heap', stack'[r])
    <3>1. CASE Starts(r)
      BY <3>1, OwnStart
    <3>2. CASE Finishes(r) \/ Fails(r)
      BY <3>2 DEF Finishes, Fails, Goes
    <3>3. CASE Idles(r) \/ Queries(r) \/ Outputs(r) \/ Enters(r) \/ Returns(r)
      <4>1. StackOwn(heap, stack[r])
        BY <3>3 DEF EInv, Idles, Queries, Outputs, Enters, Returns, GoesOn, Goes
      <4> QED BY <3>3, <4>1, OwnIdle, OwnQuery, OwnOutput, OwnEnter, OwnReturn
    <3> QED BY <2>2, <3>1, <3>2, <3>3
  <2>6. Injective(result'[r]) /\ Apart(heap', result'[r], result'[r].cc)
    <3>1. CASE Finishes(r)
      <4>1. StackOwn(heap, stack[r])
        BY <3>1 DEF EInv, Finishes
      <4> QED BY <3>1, <4>1, OwnFinish
    <3>2. CASE result'[r] = result[r]
      BY <2>4, <3>2 DEF EInv
    <3> QED BY <2>2, <3>1, <3>2
            DEF Starts, Fails, Idles, Queries, Outputs, Enters, Returns, GoesOn, Goes
  <2>7. ASSUME NEW q \in Runs, q # r
        PROVE  /\ status'[q] = "running" => StackOwn(heap', stack'[q])
               /\ Injective(result'[q]) /\ Apart(heap', result'[q], result'[q].cc)
    <3>1. stack'[q] = stack[q] /\ status'[q] = status[q] /\ result'[q] = result[q]
      BY <2>2, <2>7 DEF OthersRest
    <3>2. CASE Starts(r)
      <4>1. heap' = heap
        BY <3>2 DEF Starts
      <4> QED BY <2>4, <3>1, <4>1 DEF EInv
    <3>3. CASE status[r] \in {"running", "throwing"}
      <4>1. status[q] # "running"
        BY <2>7, <3>3 DEF OInv, Started
      <4> QED BY <2>4, <3>1, <4>1 DEF EInv
    <3> QED BY <2>2, <3>2, <3>3
            DEF Finishes, Fails, Idles, Queries, Outputs, Enters, Returns, GoesOn, Goes
  <2>8. \A q \in Runs :
          /\ status'[q] = "running" => StackOwn(heap', stack'[q])
          /\ Injective(result'[q]) /\ Apart(heap', result'[q], result'[q].cc)
    BY <2>5, <2>6, <2>7
  <2>9. Apart(heap', InitialContext, InitialContext.cc)
    BY <2>4 DEF EInv
  <2> QED BY <2>8, <2>9 DEF EInv
<1> QED BY <1>1, <1>2

(* While no two runs overlap, a circuit in flight starts from a context     *)
(* that names the contract that called it and declares exactly the effects  *)
(* of its own queries and claims, on a first and on a repeated call.        *)
THEOREM EffectsAreOwn ==
  ASSUME ~Overlap
  PROVE  Spec => []EffectsAreTheCallsOwn
<1>1. IInv /\ EInv => EffectsAreTheCallsOwn
  <2> SUFFICES ASSUME IInv, EInv, NEW r \in Runs, status[r] = "running",
                      NEW i \in 2 .. Depth(r)
               PROVE  OwnEffects(heap, stack[r][i], Home(stack[r][i - 1]))
    BY DEF EffectsAreTheCallsOwn, OwnEffects, Sound
  <2> QED BY DEF EInv, StackOwn, Depth
<1>2. IInv /\ OInv /\ [Next]_vars => OInv'
  BY NextOInv
<1> QED BY InitIInv, NextIInv, InitAInv, NextAInv, InitCInv, NextCInv, InitTInv, NextTInv,
           InitEInv, NextEInv, <1>1, <1>2, PTL DEF Spec
=============================================================================
