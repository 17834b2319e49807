-------------------------------- MODULE Binding --------------------------------
(***************************************************************************)
(* How a cross-contract call is bound to the code it runs: the steps of    *)
(* crossContractCall in src/runtime/src/contract.ts between the call and   *)
(* the callee's first instruction.  The deployed state comes from one      *)
(* provider and the module from another; both are application code that    *)
(* may answer anything, and both are awaited.  What CrossContractCall      *)
(* abstracts to "accepted or refused" is here what is accepted and why.    *)
(*                                                                         *)
(* Calls to one address follow one another in the same circuit context: a  *)
(* refused one may be caught, and the deployed state of a callee that was  *)
(* entered is memoized.                                                    *)
(***************************************************************************)
EXTENDS Conformance

CONSTANTS
  Circuits,        \* names of circuits
  Keys,            \* verifier keys, and their fingerprints
  Declarations,    \* the contract types a caller may have declared
  DeployedStates,  \* from the circuits with an operation to its key; NoKey if it carries none
  Modules,         \* [exports, circuitSignatures, expectedVk, constructs, provableCircuits]
  NoKey, Garbage,  \* an operation without a key; a fingerprint that is not one
  MaxCalls         \* bound on the calls of one context

(* A key is not the sign that there is none; the tables are finite. *)
ASSUME KeysAssumption ==
  /\ {NoKey, Garbage} \cap Keys = {} /\ NoKey # Garbage
  /\ \A deployed \in DeployedStates : \A id \in DOMAIN deployed : deployed[id] \in Keys \cup {NoKey}
ASSUME TablesAssumption ==
  /\ \A m \in Modules : "expectedVk" \in m.exports => IsFiniteSet(DOMAIN m.expectedVk)
  /\ \A d \in Declarations :
       /\ IsFiniteSet(DOMAIN d)
       /\ \A id \in DOMAIN d : /\ {"argumentTypes", "resultType"} \subseteq DOMAIN d[id]
                               /\ d[id].argumentTypes \in Seq(Readable) /\ d[id].resultType \in Readable
  /\ \A m \in Modules : "circuitSignatures" \in m.exports =>
       \A id \in DOMAIN m.circuitSignatures :
         LET implemented == m.circuitSignatures[id]
         IN /\ "argumentTypes" \in DOMAIN implemented => implemented.argumentTypes \in Seq(SignatureTypes)
            /\ Part(implemented, "resultType") \in SignatureTypes

RESOLVED_MODULE_EXPORTS == {"Contract", "circuitSignatures", "expectedVk"}

VARIABLES
  phase,        \* "idle", "state", "module", "loading", "loaded", "running", "refused"
  hasProvider,  \* whether the circuit context has a module provider
  call,         \* [declaration, circuit] of the call in progress
  state,        \* the callee's deployed state, as this call sees it
  module,       \* the callee's module
  memo,         \* the memoized state, none or one
  refusal,      \* why the last call was refused
  bound         \* the calls that were entered, in order: [circuit, fingerprint]

vars == <<phase, hasProvider, call, state, module, memo, refusal, bound>>

NoCall == [declaration |-> <<>>, circuit |-> "none"]
NotRefused == [kind |-> "none"]
NoModule == [exports |-> {}]

Init == /\ phase = "idle" /\ hasProvider \in BOOLEAN
        /\ call = NoCall /\ state = <<>> /\ module = NoModule
        /\ memo = <<>> /\ refusal = NotRefused /\ bound = <<>>

(* A failure the runtime classifies. *)
Failure(kind) == [kind |-> kind]
MismatchAt(circuitId) == [kind |-> "ImplementationMismatch", circuitId |-> circuitId]
MalformedAt(circuitId) == [kind |-> "MalformedVerifierKeyHash", circuitId |-> circuitId]

(* Errors it does not classify: its own assertions', and what application
   code outside the module provider throws. *)
PlainError == Failure("CompactError")
StateProviderError == Failure("StateProviderError")
ConstructorError == Failure("ConstructorError")

Refuse(failure) == /\ phase' = "refused" /\ refusal' = failure
                   /\ UNCHANGED <<hasProvider, call, state, module, memo, bound>>

------------------------------------------------------------------------------
(* The checks before the first await.  Reentrancy is CrossContractCall's. *)
StartCall ==
  /\ phase = "idle" /\ Len(bound) < MaxCalls
  /\ \E declaration \in Declarations, circuit \in Circuits :
       /\ call' = [declaration |-> declaration, circuit |-> circuit]
       /\ IF circuit \notin DOMAIN declaration THEN phase' = "refused" /\ refusal' = PlainError
          ELSE IF ~hasProvider THEN phase' = "refused" /\ refusal' = Failure("ModuleProviderAbsent")
          ELSE phase' = "state" /\ UNCHANGED refusal
  /\ UNCHANGED <<hasProvider, state, module, memo, bound>>

(* Mutant: the memo is not consulted. *)
ResolveDeployedStateAfresh ==
  /\ phase = "state"
  /\ \E deployed \in DeployedStates : state' = deployed
  /\ phase' = "module"
  /\ UNCHANGED <<hasProvider, call, module, memo, refusal, bound>>

(* The state of a callee that was entered before is the memoized one; else
   the state provider's, which may have none.  There may be no provider to
   ask, and its rejection passes through as it was thrown. *)
ResolveDeployedState ==
  /\ phase = "state"
  /\ \/ /\ memo # <<>>
        /\ state' = memo[1] /\ phase' = "module"
        /\ UNCHANGED <<hasProvider, call, module, memo, refusal, bound>>
     \/ /\ memo = <<>>
        /\ \E deployed \in DeployedStates : state' = deployed
        /\ phase' = "module"
        /\ UNCHANGED <<hasProvider, call, module, memo, refusal, bound>>
     \/ memo = <<>> /\ \E error \in {PlainError, StateProviderError} : Refuse(error)

(* provider.resolve: it throws, has no binding, returns something that is
   not a function, or a thunk. *)
ProviderResolves ==
  /\ phase = "module"
  /\ \/ \E kind \in {"ProviderThrew", "UnsupportedImplementation"} : Refuse(Failure(kind))
     \/ /\ phase' = "loading"
        /\ UNCHANGED <<hasProvider, call, state, module, memo, refusal, bound>>

(* The thunk rejects, resolves to nothing, to something without the tables
   the runtime reads, or to a module. *)
ModuleLoads ==
  /\ phase = "loading"
  /\ \/ \E kind \in {"ModuleLoadRejected", "ProviderThrew"} : Refuse(Failure(kind))
     \/ \E m \in Modules :
          IF RESOLVED_MODULE_EXPORTS \subseteq m.exports
            THEN /\ module' = m /\ phase' = "loaded"
                 /\ UNCHANGED <<hasProvider, call, state, memo, refusal, bound>>
            ELSE Refuse(Failure("IncompleteModule"))

------------------------------------------------------------------------------
(* Comparing fingerprints.  A key that is absent or empty has none. *)
DeployedHash(id) == IF id \in DOMAIN state THEN state[id] ELSE NoKey

IsVerifierKeyHash(recorded) == recorded # Garbage

(* The called circuit first, then the others that have a fingerprint here
   and a key on the chain. *)
CheckImplementation(calleeCircuitId) ==
  LET recorded == module.expectedVk
      compare(id) == IF ~IsVerifierKeyHash(recorded[id]) THEN MalformedAt(id)
                     ELSE IF recorded[id] # DeployedHash(id) THEN MismatchAt(id)
                     ELSE NotRefused
      others == SetToSeq({id \in DOMAIN recorded \ {calleeCircuitId} : DeployedHash(id) # NoKey})
  IN IF DeployedHash(calleeCircuitId) = NoKey THEN Failure("OperationAbsent")
     ELSE IF calleeCircuitId \notin DOMAIN recorded THEN MismatchAt(calleeCircuitId)
     ELSE FirstBad(<<compare(calleeCircuitId)>> \o [i \in DOMAIN others |-> compare(others[i])], NotRefused)

CheckModuleConformance ==
  LET result == CheckConformance(call.declaration, module.circuitSignatures)
  IN CASE result.outcome = "Conformant" -> NotRefused
       [] result.outcome = "Violation"  -> [kind |-> "NonconformantImplementation", at |-> result]
       [] result.outcome = "Unreadable" -> [kind |-> "UnreadableModule", at |-> result]
       [] result.outcome = "Threw"      -> Failure("TypeError")

(* What stops a module that was accepted: the constructor of its Contract is
   its own code and may throw, and what it makes may lack the circuit. *)
FailureOf(m, circuit) ==
  IF ~m.constructs THEN ConstructorError
  ELSE IF circuit \notin m.provableCircuits THEN PlainError ELSE NotRefused

(* Mutant: the callee is entered before its keys are compared. *)
EnterAndCheck ==
  /\ phase = "loaded"
  /\ LET failure == FirstBad(<<CheckModuleConformance, FailureOf(module, call.circuit),
                               CheckImplementation(call.circuit)>>, NotRefused)
     IN /\ IF CheckModuleConformance = NotRefused THEN memo' = <<state>> ELSE UNCHANGED memo
        /\ IF failure = NotRefused
             THEN /\ phase' = "running" /\ UNCHANGED refusal
                  /\ bound' = Append(bound, [circuit |-> call.circuit,
                                             fingerprint |-> module.expectedVk[call.circuit]])
             ELSE phase' = "refused" /\ refusal' = failure /\ UNCHANGED bound
        /\ UNCHANGED <<hasProvider, call, state, module>>

(* Conformance, then keys; then the callee is entered, which memoizes its
   state, and only then is it constructed and its provable circuit looked up. *)
CheckAndEnter ==
  /\ phase = "loaded"
  /\ LET failure == FirstBad(<<CheckModuleConformance, CheckImplementation(call.circuit)>>, NotRefused)
     IN IF failure # NotRefused
          THEN Refuse(failure)
          ELSE /\ memo' = <<state>>
               /\ IF FailureOf(module, call.circuit) = NotRefused
                    THEN /\ phase' = "running" /\ UNCHANGED refusal
                         /\ bound' = Append(bound, [circuit |-> call.circuit,
                                                    fingerprint |-> module.expectedVk[call.circuit]])
                    ELSE /\ phase' = "refused" /\ refusal' = FailureOf(module, call.circuit)
                         /\ UNCHANGED bound
               /\ UNCHANGED <<hasProvider, call, state, module>>

(* The callee returns, or the caller catches the refusal; a transaction that
   does not catch it ends. *)
Continue ==
  /\ phase \in {"running", "refused"}
  /\ phase' = "idle" /\ refusal' = NotRefused
  /\ call' = NoCall /\ state' = <<>> /\ module' = NoModule
  /\ UNCHANGED <<hasProvider, memo, bound>>

Next == \/ StartCall \/ ResolveDeployedState \/ ProviderResolves \/ ModuleLoads
        \/ CheckAndEnter \/ Continue

Spec == Init /\ [][Next]_vars

------------------------------------------------------------------------------
(* What it is to be the same type, said without walking two of them: a
   vector is the tuple of its elements, the name of a contract type does not
   count, and all else is compared as it stands. *)
Whole(whole, t) ==
  /\ "tag" \in DOMAIN t
  /\ t.tag \in KNOWN_SIGNATURE_TAGS
  /\ t.tag = "Vector"   => t.length \in Nat
  /\ t.tag = "Tuple"    => "types" \in DOMAIN t
  /\ t.tag = "Enum"     => "names" \in DOMAIN t
  /\ t.tag = "Struct"   => "elements" \in DOMAIN t
  /\ t.tag = "Contract" => /\ "circuits" \in DOMAIN t
                           /\ \A n \in DOMAIN t.circuits : "argumentTypes" \in DOMAIN t.circuits[n]
  /\ \A part \in AllParts(t) : whole[part]

WellFormed(t) ==
  LET whole[u \in SignatureTypes] == Whole(whole, u)
  IN whole[t]

WellFormedTypes == {t \in SignatureTypes : WellFormed(t)}

Form(form, t) ==
  CASE t.tag = "Vector" -> [tag |-> "Tuple", types |-> [i \in 1 .. t.length |-> form[t.type]]]
    [] t.tag = "Tuple"  -> [tag |-> "Tuple", types |-> [i \in DOMAIN t.types |-> form[t.types[i]]]]
    [] t.tag = "Struct" -> [tag |-> "Struct", name |-> t.name,
                            elements |-> [i \in DOMAIN t.elements |->
                              [name |-> t.elements[i].name, type |-> form[t.elements[i].type]]]]
    [] t.tag = "Alias"  -> [tag |-> "Alias", name |-> t.name, type |-> form[t.type]]
    [] t.tag = "Contract" ->
         [tag |-> "Contract",
          circuits |-> [n \in DOMAIN t.circuits |->
            [argumentTypes |-> [i \in DOMAIN t.circuits[n].argumentTypes |->
                                 form[t.circuits[n].argumentTypes[i]]],
             resultType |-> form[t.circuits[n].resultType]]]]
    [] OTHER -> t

Normal(t) ==
  LET form[u \in WellFormedTypes] == Form(form, u)
  IN form[t]

Implements(implementation, id, declared) ==
  LET at(c, i) == IF i = RESULT THEN c.resultType ELSE c.argumentTypes[i]
  IN /\ id \in DOMAIN implementation
     /\ {"argumentTypes", "resultType"} \subseteq DOMAIN implementation[id]
     /\ implementation[id].provable
     /\ Len(implementation[id].argumentTypes) = Len(declared.argumentTypes)
     /\ \A i \in 0 .. Len(declared.argumentTypes) :
          /\ WellFormed(at(implementation[id], i))
          /\ Normal(at(implementation[id], i)) = Normal(at(declared, i))

KeysAgree ==
  /\ DeployedHash(call.circuit) \in Keys
  /\ call.circuit \in DOMAIN module.expectedVk
  /\ \A id \in DOMAIN module.expectedVk :
       DeployedHash(id) # NoKey => module.expectedVk[id] = DeployedHash(id)

(* The code that runs is exactly the code that was declared and deployed: a
   callee runs only if its module has, for every circuit its caller
   declared, a provable one of the same type, and agrees with the chain on
   the key of every circuit they share; and a module that does is not
   refused, unless its contract cannot be constructed or lacks the circuit
   its tables list. *)
BindsTheDeclaredCode ==
  (phase \in {"running", "refused"} /\ module # NoModule) =>
    (phase = "running" <=>
      /\ \A id \in DOMAIN call.declaration :
           Implements(module.circuitSignatures, id, call.declaration[id])
      /\ KeysAgree
      /\ module.constructs
      /\ call.circuit \in module.provableCircuits)

(* Once a module has loaded, whatever its tables hold, a fault of theirs is
   refused as a classified failure (resolveModule, checkConformance and
   checkImplementation): an error that is not classified is never one of the
   comparison itself, and comes only of a module that implements what was
   declared and agrees with the chain, after its state was memoized.  Before
   there is a module the call site and the state provider may fail with
   errors of their own; afterwards so may the callee's constructor. *)
Unclassified == {PlainError, StateProviderError, ConstructorError, Failure("TypeError")}

ModuleFaultsAreClassified ==
  (refusal \in Unclassified /\ module # NoModule) =>
    /\ refusal # Failure("TypeError")
    /\ memo = <<state>>
    /\ \A id \in DOMAIN call.declaration :
         Implements(module.circuitSignatures, id, call.declaration[id])
    /\ KeysAgree

(* The refusal names a circuit and a position where the fault it reports
   really is, and the earlier rules hold there; a mismatch is reported only
   of a module that conforms. *)
RefusalNamesItsFault ==
  LET signatures == module.circuitSignatures
      at(c, i) == IF i = RESULT THEN Part(c, "resultType") ELSE c.argumentTypes[i]
      typed(f) == /\ signatures[f.circuitId].provable
                  /\ Len(signatures[f.circuitId].argumentTypes)
                       = Len(call.declaration[f.circuitId].argumentTypes)
  IN /\ refusal.kind = "NonconformantImplementation" =>
          LET f == refusal.at
          IN CASE f.check = "Existence"   -> f.circuitId \notin DOMAIN signatures
               [] f.check = "Provability" -> ~signatures[f.circuitId].provable
               [] f.check = "Arity"       -> /\ signatures[f.circuitId].provable
                                             /\ ~typed(f)
               [] f.check \in {"ArgumentType", "ResultType"} ->
                    /\ typed(f)
                    /\ WellFormed(at(signatures[f.circuitId], f.argumentIndex))
                    /\ Normal(at(signatures[f.circuitId], f.argumentIndex))
                         # Normal(at(call.declaration[f.circuitId], f.argumentIndex))
     /\ refusal.kind = "UnreadableModule" =>
          LET f == refusal.at
          IN \/ "argumentTypes" \notin DOMAIN signatures[f.circuitId]
             \/ typed(f) /\ ~WellFormed(at(signatures[f.circuitId], f.argumentIndex))
     /\ refusal.kind \in {"ImplementationMismatch", "MalformedVerifierKeyHash"} =>
          /\ \A id \in DOMAIN call.declaration : Implements(signatures, id, call.declaration[id])
          /\ ~KeysAgree

(* Whatever the state provider answers later, and whoever answers for the
   modules: the calls of one context to one address that name the same
   circuit run code with the same verifier key. *)
BoundCallsAgree ==
  \A i, j \in DOMAIN bound : bound[i].circuit = bound[j].circuit =>
                               bound[i].fingerprint = bound[j].fingerprint
================================================================================
