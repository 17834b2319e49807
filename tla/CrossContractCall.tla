-------------------------- MODULE CrossContractCall --------------------------
(***************************************************************************)
(* The TypeScript runtime's cross-contract calls: runtime/src/contract.ts, *)
(* runtime/src/circuit-context.ts, the write-through cells of              *)
(* runtime/src/zswap.ts, and the shape of the circuit wrapper that         *)
(* compiler/typescript-passes/print-typescript.ss emits.                   *)
(*                                                                         *)
(* An application creates one circuit context for the entry contract and   *)
(* starts runs from it.  A run is a stack of executing circuits, one per   *)
(* frame, each with its own shallow copy of the context.  Query contexts   *)
(* are objects: copies share them by reference, so they live in a heap.    *)
(* activeContracts is one Set shared by every copy.  JavaScript runs one   *)
(* continuation at a time, so an action is what happens between two awaits *)
(* of crossContractCall, or one ledger or coin operation of a body.        *)
(***************************************************************************)
EXTENDS Integers, Sequences, FiniteSets

CONSTANTS
  Addr,        \* contract addresses
  Entry,       \* the entry contract, whose circuits the application runs
  NoAddr,      \* no caller: the block context of the entry contract
  Runs,        \* executions the application starts
  Overlap,     \* the application starts a run while another is unfinished
  Reuse,       \* the application starts a run from an earlier run's result
  Catches,     \* circuits catch a ModuleResolutionError and carry on
  GasLimit,    \* the context's gasLimit
  Costs,       \* what one query may cost
  MaxObjects   \* bound on the query contexts ever created

ASSUME EntryAssumption == Entry \in Addr
ASSUME NoAddrAssumption == NoAddr \notin Addr
ASSUME CostAssumption ==
  Costs \subseteq Nat /\ GasLimit \in Nat /\ MaxObjects \in Nat
ASSUME SwitchAssumption ==
  Overlap \in BOOLEAN /\ Reuse \in BOOLEAN /\ Catches \in BOOLEAN

VARIABLES
  heap,    \* the QueryContext objects, in order of creation
  active,  \* activeContracts, the one Set shared by every context
  stack,   \* run -> its executing circuits, the innermost last
  status,  \* run -> idle, running, throwing, done or failed
  result   \* run -> the context its entry circuit returned

vars == <<heap, active, stack, status, result>>

NoRef  == 0    \* an address missing from queryContexts
Absent == -1   \* an address missing from gasCosts or zswapLocalStates

(* A query context: the ledger data as a version, the commitments it holds, *)
(* the caller in its block context, the effects declared so far.            *)
Object == [data : Nat, com : Nat, caller : Addr \cup {NoAddr}, effects : Nat]

(* The cells of the executing contract.  zs stands for the Zswap local      *)
(* state through its currentIndex, ps for the private state.                *)
CallContext == [addr : Addr, init : Nat, cur : Nat, gas : Nat,
                ps : {Absent, 0, 1}, zs : Nat]

(* What one call proved: where it started and ended, the queries of its     *)
(* public transcript, the sub-calls (places in the trace) they claim, and   *)
(* whether its parent has attached the communication commitment.            *)
CallProofData == [addr : Addr, init : Nat, final : Nat, zs : Nat, ops : Nat,
                  claims : SUBSET (Nat \ {0}), comm : BOOLEAN]

CircuitContext == [cc : CallContext, queryContexts : [Addr -> Nat],
                   gasCosts : [Addr -> Nat \cup {Absent}],
                   zswapLocalStates : [Addr -> Nat \cup {Absent}],
                   contractStates : SUBSET Addr,
                   trace : Seq(CallProofData), events : Seq(Addr)]

Pending == {"state", "module", "callee"}  \* where crossContractCall awaits

Frame == [ctx : CircuitContext, ppd : [ops : Nat, claims : SUBSET (Nat \ {0})],
          pc : {"run", "refused"} \cup Pending, callee : Addr \cup {NoAddr},
          saved : CallContext]

Phases == {"idle", "running", "throwing", "done", "failed"}

EmptyProofData == [ops |-> 0, claims |-> {}]

(* createCircuitContext: the maps hold the call context's own cells.        *)
InitialContext ==
  [cc |-> [addr |-> Entry, init |-> 1, cur |-> 1, gas |-> 0, ps |-> 0, zs |-> 0],
   queryContexts |-> [a \in Addr |-> IF a = Entry THEN 1 ELSE NoRef],
   gasCosts |-> [a \in Addr |-> IF a = Entry THEN 0 ELSE Absent],
   zswapLocalStates |-> [a \in Addr |-> IF a = Entry THEN 0 ELSE Absent],
   contractStates |-> {}, trace |-> <<>>, events |-> <<>>]

Init ==
  /\ heap = <<[data |-> 0, com |-> 0, caller |-> NoAddr, effects |-> 0]>>
  /\ active = {Entry}
  /\ stack = [r \in Runs |-> <<>>]
  /\ status = [r \in Runs |-> "idle"]
  /\ result = [r \in Runs |-> InitialContext]

-----------------------------------------------------------------------------
(* Frames and contexts                                                      *)

Depth(r) == Len(stack[r])
Top(r) == stack[r][Depth(r)]
Executing(r) == status[r] = "running" /\ Depth(r) > 0 /\ Top(r).pc = "run"

(* The generated wrapper: copyCircuitContext and an empty partialProofData. *)
(* The copies are values here; the objects they name are shared.            *)
EnterCircuit(ctx) ==
  [ctx |-> ctx, ppd |-> EmptyProofData, pc |-> "run", callee |-> NoAddr,
   saved |-> ctx.cc]

SetTop(r, frame) == stack' = [stack EXCEPT ![r][Depth(r)] = frame]

Below(r) == SubSeq(stack[r], 1, Depth(r) - 1)

Allocate(object) ==
  /\ Len(heap) < MaxObjects
  /\ heap' = Append(heap, object)

Fresh == Len(heap) + 1

Throws(r) == status' = [status EXCEPT ![r] = "throwing"]

(* queryLedgerState: the live cells and the maps of the live address move   *)
(* together to the context the query returned.                              *)
Queried(ctx, ref, cost, logs) ==
  LET a == ctx.cc.addr
      spent == IF ctx.gasCosts[a] = Absent THEN 0 ELSE ctx.gasCosts[a]
  IN [ctx EXCEPT !.cc.cur = ref, !.cc.gas = @ + cost,
                 !.queryContexts[a] = ref, !.gasCosts[a] = spent + cost,
                 !.events = @ \o logs]

(* Mutant: the output reaches the live cells and not the maps.              *)
OutputToCellsOnly(ctx, ref) ==
  [ctx EXCEPT !.cc.cur = ref, !.cc.zs = @ + 1]

(* A coin output: its commitment goes to the query context, the output to   *)
(* the Zswap local state; both through the cell and the map.                *)
WithOutput(ctx, ref) ==
  LET a == ctx.cc.addr
      zs == ctx.cc.zs + 1
  IN [ctx EXCEPT !.cc.cur = ref, !.queryContexts[a] = ref,
                 !.cc.zs = zs, !.zswapLocalStates[a] = zs]

(* Mutants: a callee met before is not found again; it keeps the block and  *)
(* the effects of the call before; its cost or its state is not recorded.   *)
NeverKnown(ctx, callee) == FALSE

EnterAsLeft(ctx, callee) ==
  IF ctx.queryContexts[callee] # NoRef THEN UNCHANGED heap
  ELSE Allocate([data |-> 0, com |-> 0, caller |-> ctx.cc.addr, effects |-> 0])

EnterWithoutCost(ctx, callee) ==
  IF ctx.queryContexts[callee] # NoRef THEN ctx
  ELSE [ctx EXCEPT !.contractStates = @ \cup {callee}, !.queryContexts[callee] = Fresh]

EnterWithoutMemo(ctx, callee) ==
  IF ctx.queryContexts[callee] # NoRef THEN ctx
  ELSE [ctx EXCEPT !.queryContexts[callee] = Fresh, !.gasCosts[callee] = 0]

(* enterQueryContext.  A callee met before keeps its object, whose block    *)
(* and effects are overwritten in place; a new one gets an object, its      *)
(* deployed state and an empty cost.                                        *)
Known(ctx, callee) == ctx.queryContexts[callee] # NoRef

EnteredRef(ctx, callee) ==
  IF Known(ctx, callee) THEN ctx.queryContexts[callee] ELSE Fresh

EnterHeap(ctx, callee) ==
  IF Known(ctx, callee)
  THEN heap' = [heap EXCEPT ![ctx.queryContexts[callee]] =
                  [@ EXCEPT !.caller = ctx.cc.addr, !.effects = 0]]
  ELSE Allocate([data |-> 0, com |-> 0, caller |-> ctx.cc.addr, effects |-> 0])

EnterContext(ctx, callee) ==
  IF Known(ctx, callee) THEN ctx
  ELSE [ctx EXCEPT !.contractStates = @ \cup {callee},
                   !.queryContexts[callee] = Fresh,
                   !.gasCosts[callee] = 0]

(* Mutants: every call gets an empty Zswap local state; the caller's initial *)
(* query context stays in place.                                            *)
SetupWithEmptyCoins(ctx, callee, ref) ==
  [ctx EXCEPT !.cc = [addr |-> callee, init |-> ref, cur |-> ref,
                      gas |-> ctx.gasCosts[callee], ps |-> Absent, zs |-> 0],
              !.zswapLocalStates[callee] = 0]

SetupKeepingInitial(ctx, callee, ref) ==
  LET zs == IF ctx.zswapLocalStates[callee] = Absent THEN 0
            ELSE ctx.zswapLocalStates[callee]
  IN [ctx EXCEPT !.cc = [addr |-> callee, init |-> ctx.cc.init, cur |-> ref,
                         gas |-> ctx.gasCosts[callee], ps |-> Absent, zs |-> zs],
                 !.zswapLocalStates[callee] = zs]

(* setupCallContext: the caller's own call context becomes the callee's.    *)
SetupCallContext(ctx, callee, ref) ==
  LET zs == IF ctx.zswapLocalStates[callee] = Absent THEN 0
            ELSE ctx.zswapLocalStates[callee]
  IN [ctx EXCEPT !.cc = [addr |-> callee, init |-> ref, cur |-> ref,
                         gas |-> ctx.gasCosts[callee], ps |-> Absent, zs |-> zs],
                 !.zswapLocalStates[callee] = zs]

(* finalizeCallProofData                                                    *)
Finalize(ctx, ppd) ==
  [ctx EXCEPT !.trace =
     Append(@, [addr |-> ctx.cc.addr, init |-> ctx.cc.init, final |-> ctx.cc.cur,
                zs |-> ctx.cc.zs, ops |-> ppd.ops, claims |-> ppd.claims,
                comm |-> FALSE])]

(* Mutant: the commitment goes to the first trace entry.                    *)
RestoreMarkingFirst(callee, saved) ==
  [callee EXCEPT !.cc = saved, !.trace[1].comm = TRUE]

(* restoreCircuitContext: everything threaded through the call tree comes   *)
(* from the callee, the call context from the snapshot; then the last trace *)
(* entry is taken to be the callee's and gets the commitment.               *)
RestoreCircuitContext(callee, saved) ==
  [callee EXCEPT !.cc = saved, !.trace[Len(callee.trace)].comm = TRUE]

-----------------------------------------------------------------------------
(* The application                                                          *)

(* A run starts from the context the application created or, with Reuse,    *)
(* from the one an earlier run returned.                                    *)
HeldContexts ==
  {InitialContext} \cup
    (IF Reuse THEN {result[q] : q \in {p \in Runs : status[p] = "done"}} ELSE {})

StartRun(r) ==
  /\ status[r] = "idle"
  /\ Overlap \/ \A q \in Runs : status[q] \in {"idle", "done", "failed"}
  /\ \E ctx \in HeldContexts : stack' = [stack EXCEPT ![r] = <<EnterCircuit(ctx)>>]
  /\ status' = [status EXCEPT ![r] = "running"]
  /\ UNCHANGED <<heap, active, result>>

-----------------------------------------------------------------------------
(* What the body of a circuit does between two calls                        *)

(* A ledger query that writes, declares an effect and logs one event.       *)
LedgerOp(r, cost) ==
  LET f == Top(r)
      old == heap[f.ctx.cc.cur]
  IN /\ Executing(r)
     /\ cost <= GasLimit
     /\ Allocate([old EXCEPT !.data = @ + 1, !.effects = @ + 1])
     /\ SetTop(r, [f EXCEPT !.ctx = Queried(f.ctx, Fresh, cost, <<f.ctx.cc.addr>>),
                            !.ppd.ops = @ + 1])
     /\ UNCHANGED <<active, status, result>>

CreateZswapOutput(r) ==
  LET f == Top(r)
  IN /\ Executing(r)
     /\ Allocate([heap[f.ctx.cc.cur] EXCEPT !.com = @ + 1])
     /\ SetTop(r, [f EXCEPT !.ctx = WithOutput(f.ctx, Fresh)])
     /\ UNCHANGED <<active, status, result>>

(* A witness of the entry contract replaces the private state.  A callee    *)
(* got forbiddenCalleeWitnesses, so there it throws: see CircuitThrows.     *)
CallWitness(r) ==
  LET f == Top(r)
  IN /\ Executing(r)
     /\ Depth(r) = 1
     /\ SetTop(r, [f EXCEPT !.ctx.cc.ps = 1])
     /\ UNCHANGED <<heap, active, status, result>>

(* The body throws: a failed assert, a query over its limit, a forbidden    *)
(* witness, or a call rejected by the checks that precede the guard.        *)
CircuitThrows(r) ==
  /\ Executing(r)
  /\ Throws(r)
  /\ UNCHANGED <<heap, active, stack, result>>

-----------------------------------------------------------------------------
(* crossContractCall                                                        *)

(* Mutant: any callee is marked and called.                                 *)
BeginUnguarded(r, callee) ==
  /\ Executing(r)
  /\ active' = active \cup {callee}
  /\ SetTop(r, [Top(r) EXCEPT !.pc = "state", !.callee = callee])
  /\ UNCHANGED <<heap, status, result>>

(* assertNoReentrancy refuses a callee in activeContracts, whoever put it   *)
(* there, and marks any other.                                              *)
BeginCall(r, callee) ==
  LET f == Top(r)
  IN /\ Executing(r)
     /\ \/ /\ callee \in active
           /\ SetTop(r, [f EXCEPT !.pc = "refused", !.callee = callee])
           /\ Throws(r)
           /\ UNCHANGED active
        \/ /\ callee \notin active
           /\ active' = active \cup {callee}
           /\ SetTop(r, [f EXCEPT !.pc = "state", !.callee = callee])
           /\ UNCHANGED status
     /\ UNCHANGED <<heap, result>>

(* The finally of crossContractCall.                                        *)
Unmark(callee) == active' = active \ {callee}

(* Mutant: a rejected call stays marked.                                    *)
RejectKeepingMark(r, catchable) ==
  /\ SetTop(r, [Top(r) EXCEPT !.pc = "run", !.callee = NoAddr])
  /\ Throws(r) \/ (catchable /\ Catches /\ UNCHANGED status)
  /\ UNCHANGED <<heap, active>>

(* A failure while the callee is being resolved.  A ModuleResolutionError   *)
(* may be caught by the circuit that made the call.                         *)
Reject(r, catchable) ==
  /\ SetTop(r, [Top(r) EXCEPT !.pc = "run", !.callee = NoAddr])
  /\ Unmark(Top(r).callee)
  /\ Throws(r) \/ (catchable /\ Catches /\ UNCHANGED status)
  /\ UNCHANGED heap

(* resolveDeployedState, whose memo must hold the state of every callee met *)
(* before, and the synchronous half of resolveModule.                       *)
StateArrives(r) ==
  LET f == Top(r)
      memoMissing == Known(f.ctx, f.callee) /\ f.callee \notin f.ctx.contractStates
  IN /\ status[r] = "running" /\ Depth(r) > 0 /\ f.pc = "state"
     /\ \/ /\ ~memoMissing
           /\ SetTop(r, [f EXCEPT !.pc = "module"])
           /\ UNCHANGED <<heap, active, status>>
        \/ /\ ~Known(f.ctx, f.callee) \/ memoMissing
           /\ Reject(r, FALSE)
        \/ /\ ~memoMissing
           /\ Reject(r, TRUE)
     /\ UNCHANGED result

(* The module is loaded and checkModuleConformance or checkImplementation   *)
(* refuses it, or it does not load at all.                                  *)
ModuleRefused(r) ==
  /\ status[r] = "running" /\ Depth(r) > 0 /\ Top(r).pc = "module"
  /\ Reject(r, TRUE)
  /\ UNCHANGED result

(* The checks pass and the call commits, but the module's Contract throws   *)
(* or has no provable circuit of that name.                                 *)
NoProvableCircuit(r) ==
  LET f == Top(r)
  IN /\ status[r] = "running" /\ Depth(r) > 0 /\ f.pc = "module"
     /\ EnterHeap(f.ctx, f.callee)
     /\ SetTop(r, [f EXCEPT !.ctx = EnterContext(f.ctx, f.callee),
                            !.pc = "run", !.callee = NoAddr])
     /\ Unmark(f.callee)
     /\ Throws(r)
     /\ UNCHANGED result

(* The checks pass, the call commits, and the callee's circuit is entered.  *)
EnterCallee(r) ==
  LET f == Top(r)
      ctx == SetupCallContext(EnterContext(f.ctx, f.callee), f.callee,
                              EnteredRef(f.ctx, f.callee))
      caller == [f EXCEPT !.ctx = ctx, !.pc = "callee", !.saved = f.ctx.cc]
  IN /\ status[r] = "running" /\ Depth(r) > 0 /\ f.pc = "module"
     /\ EnterHeap(f.ctx, f.callee)
     /\ stack' = [stack EXCEPT ![r] = Append([@ EXCEPT ![Depth(r)] = caller], EnterCircuit(ctx))]
     /\ UNCHANGED <<active, status, result>>

(* The entry circuit returns to the application.                            *)
FinishRun(r) ==
  /\ Executing(r)
  /\ Depth(r) = 1
  /\ result' = [result EXCEPT ![r] = Finalize(Top(r).ctx, Top(r).ppd)]
  /\ stack' = [stack EXCEPT ![r] = <<>>]
  /\ status' = [status EXCEPT ![r] = "done"]
  /\ UNCHANGED <<heap, active>>

(* A callee returns: the caller takes over what it threaded, claims the     *)
(* call with kernelClaimContractCall and unmarks the callee.  The claim is  *)
(* a query of the caller, which may exceed the limit.                       *)
ReturnToCaller(r, cost) ==
  LET f == stack[r][Depth(r) - 1]
      ctx == RestoreCircuitContext(Finalize(Top(r).ctx, Top(r).ppd), f.saved)
      back(c, ppd) == [f EXCEPT !.ctx = c, !.ppd = ppd, !.pc = "run", !.callee = NoAddr]
      caller(c, ppd) ==
        stack' = [stack EXCEPT ![r] = [Below(r) EXCEPT ![Depth(r) - 1] = back(c, ppd)]]
  IN /\ Executing(r)
     /\ Depth(r) > 1
     /\ \/ /\ cost <= GasLimit
           /\ Allocate([heap[f.saved.cur] EXCEPT !.effects = @ + 1])
           /\ caller(Queried(ctx, Fresh, cost, <<>>),
                     [f.ppd EXCEPT !.claims = @ \cup {Len(ctx.trace)}])
           /\ UNCHANGED status
        \/ /\ cost > GasLimit
           /\ caller(ctx, f.ppd)
           /\ Throws(r)
           /\ UNCHANGED heap
     /\ Unmark(f.callee)
     /\ UNCHANGED result

(* An exception leaves the innermost circuit.  The calling crossContractCall *)
(* only unmarks its callee: the caller's call context is not restored.       *)
Unwind(r) ==
  /\ status[r] = "throwing"
  /\ IF Depth(r) = 1
     THEN /\ stack' = [stack EXCEPT ![r] = <<>>]
          /\ status' = [status EXCEPT ![r] = "failed"]
          /\ UNCHANGED active
     ELSE /\ Unmark(stack[r][Depth(r) - 1].callee)
          /\ stack' = [stack EXCEPT ![r] =
               [Below(r) EXCEPT ![Depth(r) - 1] = [@ EXCEPT !.pc = "run", !.callee = NoAddr]]]
          /\ UNCHANGED status
  /\ UNCHANGED <<heap, result>>

Step(r) ==
  \/ StartRun(r)
  \/ \E cost \in Costs : LedgerOp(r, cost)
  \/ CreateZswapOutput(r)
  \/ CallWitness(r)
  \/ CircuitThrows(r)
  \/ \E callee \in Addr : BeginCall(r, callee)
  \/ StateArrives(r)
  \/ ModuleRefused(r)
  \/ NoProvableCircuit(r)
  \/ EnterCallee(r)
  \/ FinishRun(r)
  \/ \E cost \in Costs : ReturnToCaller(r, cost)
  \/ Unwind(r)

Next == \E r \in Runs : Step(r)

Spec == Init /\ [][Next]_vars

-----------------------------------------------------------------------------
(* Vocabulary of the properties                                             *)

Started == {r \in Runs : status[r] \in {"running", "throwing"}}

Frames == UNION {{r} \X (1 .. Depth(r)) : r \in Runs}

(* The contract a frame executes: while its callee runs, its call context   *)
(* holds the callee's cells and its own are in the snapshot.                *)
Cells(f) == IF f.pc = "callee" THEN f.saved ELSE f.ctx.cc
Home(f) == Cells(f).addr

(* Every context something can still be started or resumed from.            *)
LiveContexts ==
  {InitialContext} \cup {result[r] : r \in Runs}
    \cup {stack[fr[1]][fr[2]].ctx : fr \in Frames}

(* The runs that have not failed, whose contexts nothing has torn.          *)
Sound == {r \in Runs : status[r] = "running"}

(* The trace the run has built so far: the innermost context holds it.      *)
Traces == {result[r].trace : r \in Runs} \cup {Top(r).ctx.trace : r \in Started}

-----------------------------------------------------------------------------
(* Properties                                                               *)

(* Every variable has the shape the declarations of CircuitContext,         *)
(* CallContext and CallProofData in circuit-context.ts give it.             *)
TypeOK ==
  /\ heap \in Seq(Object)
  /\ active \subseteq Addr
  /\ stack \in [Runs -> Seq(Frame)]
  /\ status \in [Runs -> Phases]
  /\ result \in [Runs -> CircuitContext]

(* activeContracts is exactly the entry contract and every callee whose     *)
(* call has not returned (circuit-context.ts, "activeContracts"), across    *)
(* failures, catches and overlapping runs, and no address is held twice.    *)
PendingFrames == {fr \in Frames : stack[fr[1]][fr[2]].pc \in Pending}
CalleeOf(fr) == stack[fr[1]][fr[2]].callee

ActiveIsCallStack ==
  /\ active = {Entry} \cup {CalleeOf(fr) : fr \in PendingFrames}
  /\ \A fr \in PendingFrames : CalleeOf(fr) # Entry
  /\ \A fr, gr \in PendingFrames : CalleeOf(fr) = CalleeOf(gr) => fr = gr

(* A callee that may be called and is found in queryContexts has its        *)
(* deployed state memoized: the assertion of resolveDeployedState never     *)
(* fires, whatever copies, restores and failures built the context.         *)
MemoPairing ==
  \A ctx \in LiveContexts : \A a \in Addr \ active :
    Known(ctx, a) => a \in ctx.contractStates

(* The per-address maps hold the cells of every contract on the call stack: *)
(* of the executing one in its own context, of each suspended caller in the *)
(* innermost context, which is what restoreCircuitContext hands back        *)
(* without re-pointing the cells.                                           *)
MapsHold(ctx, cells) ==
  /\ ctx.queryContexts[cells.addr] = cells.cur
  /\ ctx.gasCosts[cells.addr] = cells.gas
  /\ ctx.zswapLocalStates[cells.addr] = cells.zs

CellsAliasMaps ==
  \A r \in Sound : \A i \in 1 .. Depth(r) :
    MapsHold(Top(r).ctx, Cells(stack[r][i]))

(* A circuit in flight starts from a context that names the contract that   *)
(* called it and whose declared effects are its own (emptyEffects,          *)
(* contract.ts), on a first and on a repeated call.                         *)
EffectsAreTheCallsOwn ==
  \A r \in Sound : \A i \in 2 .. Depth(r) :
    LET f == stack[r][i]
        now == heap[Cells(f).cur]
    IN /\ heap[Cells(f).init].caller = Home(stack[r][i - 1])
       /\ now.caller = Home(stack[r][i - 1])
       /\ now.effects = f.ppd.ops + Cardinality(f.ppd.claims)

(* The commitments a contract inserted and the outputs its Zswap local      *)
(* state lists stay equal in number, over returns and repeated calls, for   *)
(* every contract any live context knows.                                   *)
CoinsFollowCommitments ==
  \A r \in Sound : \A a \in Addr :
    LET ctx == Top(r).ctx
    IN Known(ctx, a) /\ ctx.zswapLocalStates[a] # Absent =>
         heap[ctx.queryContexts[a]].com = ctx.zswapLocalStates[a]

(* Replaying an entry's public transcript on its initial query context      *)
(* gives the ledger data of its final one.                                  *)
LedgerReplays ==
  \A trace \in Traces : \A k \in 1 .. Len(trace) :
    heap[trace[k].final].data = heap[trace[k].init].data + trace[k].ops

(* Consecutive calls to one contract chain: the second starts from the      *)
(* ledger data the first left (enterQueryContext, "the second call has to   *)
(* see what the first left behind").                                        *)
SequentialCallsChain ==
  \A trace \in Traces : \A j, k \in 1 .. Len(trace) :
    /\ j < k
    /\ trace[j].addr = trace[k].addr
    /\ \A m \in j + 1 .. k - 1 : trace[m].addr # trace[j].addr
    => heap[trace[j].final].data = heap[trace[k].init].data

(* The trace is the call tree in depth-first order: every call but a root   *)
(* one carries its commitment and is claimed exactly once, by a call of     *)
(* another contract that completes later or is still in flight.             *)
ClaimsOf(r, k) ==
  {j \in 1 .. Len(Top(r).ctx.trace) : k \in Top(r).ctx.trace[j].claims}
    \cup {Len(Top(r).ctx.trace) + i :
            i \in {h \in 1 .. Depth(r) : k \in stack[r][h].ppd.claims}}

CallTreeTrace ==
  \A r \in Sound : \A k \in 1 .. Len(Top(r).ctx.trace) :
    LET e == Top(r).ctx.trace[k]
    IN IF e.addr = Entry
       THEN ClaimsOf(r, k) = {} /\ ~e.comm
       ELSE /\ Cardinality(ClaimsOf(r, k)) = 1
            /\ \A j \in ClaimsOf(r, k) : j > k
            /\ e.comm

-----------------------------------------------------------------------------
(* What the comments promise and the code does not keep                     *)

(* contract.ts: "A transcript's effects are its start context's plus its    *)
(* own ops'".  Over the contexts an entry of the trace names.               *)
EffectsReplay ==
  \A trace \in Traces : \A k \in 1 .. Len(trace) :
    heap[trace[k].final].effects =
      heap[trace[k].init].effects + trace[k].ops + Cardinality(trace[k].claims)
=============================================================================
