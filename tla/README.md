# Verification of Compact

Compact is a language for contracts that keep public state on the Midnight ledger
and prove what they do in zero knowledge. This directory holds TLA+ models of the parts
of the repository that decide something over several steps, TLC runs over small
instances of them, and machine-checked proofs about them.

Run a model with `tlc -config <run>.cfg <module>` and a proof with `tlapm <module>.tla`.
`PROJECT.json` says which definition stands for which lines, which run checks what, and
which mutated definition breaks each property.

## 1. Inventory

| Part | Where | State it keeps | Operations | What makes it hard |
|---|---|---|---|---|
| Cross-contract calls | `runtime/src/contract.ts`, `circuit-context.ts`, `zswap.ts`, the circuit wrapper in `compiler/typescript-passes/print-typescript.ss` | circuit contexts (call context, per-address maps of query contexts, costs and Zswap states, memo of deployed states, trace of proof data, events), one shared set of active contracts | start a circuit, query the ledger, create a coin, call another contract, return, throw | shallow copies over shared objects; cells and maps that must agree; three awaits per call; failures at each |
| Toolchain manager | `tools/compact/src` | `versions/<v>/<target>`, `artifact.zip` and its partial file, `.incoming`, links in `bin` | `update`, `clean`, `check`, `list`, `compile`, `self update` | being killed between any two file operations, servers that treat `Range` differently, two commands at once |
| Release cache | `tools/compact/src/fetch.rs` | a cached list of releases with its time | load, retry, save | staleness, retries |
| Module resolution, conformance | `runtime/src/conformance.ts`, `module-resolution.ts`, `interface-descriptor.ts`, `verifier-key-hash.ts`, `contract.ts` | what a context has memoized of an address | `checkModuleConformance`, `checkImplementation`, `resolveDeployedState` | two awaited providers that may answer anything; structural comparison of recursive types |
| Types, casts, built-ins | `runtime/src/compact-types.ts`, `casts.ts`, `built-ins.ts`, `utils.ts` | none; a chain of calls over values that each assume a range | encode, decode, cast, hash, field and curve operations, sign, verify | numeric boundaries, decoders that share one array |
| Fixture harness | `test-contracts/compact-test-runner.ts`, `compact-test-orchestrator.test.ts`, `compact-test-fixture-reporter.ts` | `.build` directories, the queue for compile slots, cached compiles, status records, the last header printed | select, prepare, clean, compile, test, report, clean up | concurrent tests over shared output, timeouts that leave promises running, an exclusive slot |
| Compiler fuzzer | `tests-e2e/src/fuzzer` | a table of productions | validate, generate | a recursive catalogue of names in strings; contracts that must compile |
| Ledger data types and machine | `compiler/midnight-ledger.ss`, `vm.ss`, `ledger.ss` | the machine's stack and the ledger tree | one program per operation of each data type | stack indices, caching, missing keys |
| Standard library | `compiler/standard-library.compact` | coins in the ledger | send, receive, merge, change | amounts, nullifiers and commitments |
| Disclosure analysis | `compiler/analysis-passes/track-witness-data.ss` | an abstract environment per path | abstract interpretation | every path of every circuit |
| Whole-program analyses | the other `compiler/analysis-passes` | call graphs, marks | purity, recursion, sealed fields, unused functions, ledger paths | fixed points |
| Types and modules | `infer-types.ss`, `expand-modules-and-types.ss` | environments | inference, generic expansion | size |
| Circuit passes | `compiler/circuit-passes`, `zkir-v3-passes` | none | unroll, inline, flatten, optimise, discard | preserving meaning |
| Front end, printers, driver | lexer, parser, formatter, source maps, `compactc.ss` | none | text to tree and back | volume |
| Other tests, editor support, docs, packaging | the rest | none | | not part of the program's logic |

How they interact. The compiler checks and lowers a contract and prints a TypeScript
module, whose circuits call the runtime for ledger queries, coins, witnesses and other
contracts; the runtime hands back proof data, one entry per call. Before a call enters its
callee, the runtime binds it: the deployed state from one provider, the module from another, compared
with each other and with what the caller declared. The `compact` tool
installs compiler versions and runs the default one. The fixture harness runs the compiler on a tree
of contracts and the runtime on what it wrote; the fuzzer writes contracts for the compiler.

What each part must guarantee:

- *Calls*: a call's effects reach its caller when it returns, or not at all; each proof entry
  replays from its own start; the trace is the call tree; a contract that failed
  can be called again; a run does not disturb contexts that others hold.
- *Toolchain*: an installed version is whole; the default is installed; every
  interrupted command can be repeated to success.
- *Cache*: a stale list is never used once it expired; a failed attempt never replaces a good list.
- *Conformance*: accepts exactly the modules that implement what was declared and agree with the
  deployed keys; every other answer is a refusal that names its fault.
- *Values*: every operation returns what modular arithmetic and the curve define, in range for the
  next one; every decoder reads back exactly what was written.
- *Harness*: a test uses its own compile's output; slow compiles run alone; the command ends; the
  output of failures is kept and of passes removed.
- *Fuzzer*: a slip in the catalogue is reported; what must compile does; contracts stay small.
- *Ledger types*: each machine program implements the abstract operation.
- *Analyses*: sound for every execution of the program they accept.
- *Circuit passes*: preserve what a circuit computes and asserts.

`PROJECT.json` lists the hazards, each at its line with the properties that would catch it.

## 2. Modules

### Cross-contract calls

| Module | Role |
|---|---|
| `CallTransaction` | Abstract: a run is a stack of calls over one store; a call adds its effects in place, appends its trace entry when it returns, and a failure hands back nothing. |
| `CrossContractCall` | The code: contexts, their copies, the heap of query contexts they share, the call stack, and `crossContractCall` cut at its awaits. |
| `CrossContractCallRefinement` | The mapping from the code to `CallTransaction`. |
| `CrossContractCall_proofs` | Theorems: types, the memo, the re-entrancy guard; what each step does to a run, and that cells follow maps. |
| `CrossContractCallTraces_proofs` | Theorems: coins, replay, chaining; the trace is the call tree; effects are the call's own. |
| `CrossContractCallRefinement_proofs` | The theorem that `CallTransaction` is implemented. |
| `MCCrossContractCall` | The instance for TLC. |

State and code. `heap` holds the `QueryContext` objects, which copies share by reference;
everything else a context holds is a value in a frame. `stack[r]` is the JavaScript call
stack of one run; a frame is a circuit wrapper with its copy of the context
(`copyCircuitContext`), its partial proof data and the point where it awaits. `active` is
`activeContracts`, one `Set` that every copy refers to. An action is what JavaScript runs
between two awaits:

| Action | Code |
|---|---|
| `StartRun`, `FinishRun` | the generated wrapper around an entry circuit |
| `LedgerOp`, `CreateZswapOutput`, `CallWitness`, `CircuitThrows` | what a body does |
| `BeginCall` | `assertNoReentrancy` up to the first await |
| `StateArrives` | `resolveDeployedState` and the first checks on its answer |
| `ModuleRefused`, `NoProvableCircuit`, `EnterCallee` | what follows the module's load |
| `ReturnToCaller` | `restoreCircuitContext`, the claim, the `finally` |
| `Unwind` | an exception leaving one circuit |

A ledger state is its number of writes, a Zswap state its number of outputs: the
properties compare states of one contract for equality and order, and each
write or output makes a new one.

### Toolchain

| Module | Role |
|---|---|
| `InstalledVersions` | Abstract: a set of installed versions and at most one default, which is never the version removed. |
| `Toolchain` | `compact update` and `compact clean` cut between file operations. |
| `ToolchainRefinement` | The mapping from the code to `InstalledVersions`. |
| `Toolchain_proofs` | Theorems: types, the default, complete versions, `--keep-current`, links, and that `InstalledVersions` is implemented. |
| `MCToolchain` | The instances for TLC. |

`disk[v]` is the version's directory for one target: the partial archive and `artifact.zip`
as sequences of chunk numbers, so that a stitched resume is a different sequence from the
archive; `.incoming` and the placed files as absent, half-written or whole. `link` is the
`bin` directory. `StartUpdate` ... `Validate` follow `update`, `download_and_install`,
`install_archive` and `set_current_compiler`, where each link is looked for (`FindPrevious`), removed (`Unlink`) and made again
(`Relink`) with an await between: the second remover of a link fails as the second maker does. `StartClean` ... `CleanDone` follow `clean`.
`Stop` ends a command anywhere with what it wrote left in place; it stands for a kill, a lost
connection and a failing file operation. `StopWipe` ends a `clean` inside
`remove_dir_all`, with any of a directory's entries left, those of `.incoming` included.

A server either honours a `Range` header (and answers 416 to a range that starts at the end)
or ignores it and sends the archive from its first byte; it may do either each time. Zip
archives are read from their end, so bytes before a whole archive may or
may not make it unreadable: both are possible in the model. Names of versions are compared by
substring by `clean --keep-current`; the constant `Containing` says which name contains which.

### What a call is bound to

| Module | Role |
|---|---|
| `Conformance` | The comparison of declared and implemented circuits, and the screen of untrusted tables that runs before it. |
| `Binding` | `crossContractCall` from the call to the callee's first instruction: what the two providers answer and how each answer is refused. |
| `Binding_proofs` | Theorems: what the comparison decides, that a callee runs exactly if its module conforms and agrees with the chain, what a refusal says, and that the calls of one context share their keys. |
| `MCBinding` | The types, declarations, modules and chain states of the instance. |

`CrossContractCall` leaves open whether a callee's module is accepted; `Binding` decides it and
leaves open what the callee does. A declared type comes from the compiler and is well formed; an implemented one
comes from application code, and a payload of the wrong shape is a field that is absent. `phase` is the await a
call is at; `StartCall`, `ResolveDeployedState`, `ProviderResolves`, `ModuleLoads` and `CheckAndEnter` are the stretches between. `memo` survives a refusal that is
caught and a callee that was entered, as the maps of the circuit context do, so that the second call to an
address starts from what the first left. A call ends in an error of its own making, with a code that the application can
tell, or in a raw one: what the state provider rejects with (`contract.ts:258`) and what the module's constructor throws (`contract.ts:636`)
pass through as they are, the second after the callee's state was memoized. `ModuleFaultsAreClassified` says when an error
may be raw.

### Values

| Module | Role |
|---|---|
| `Groups` | External: the group laws that the curve libraries are relied on for. |
| `ForeignField`, `WeierstrassCurve` | The arithmetic of one prime field and the points of one secp curve; the source repeats both per field and curve, `BuiltIns` instantiates them. |
| `CompactTypes` | The codecs of every descriptor. A decoder returns whether it succeeded, the value, and the atoms it left on the shared array. |
| `BuiltIns` | Casts, fields, curves, validity checks, signatures. |
| `RuntimeValues` | A circuit's computation as a register machine; one action per kind of call. |
| `RuntimeValuesEncoding_proofs` | Lemmas on the operators: numbers as atoms, the codecs, congruences, the curves. |
| `RuntimeValues_proofs` | Theorems: the register is exact, values read back, damage is contained, binary representations separate, validity is membership, signatures. |
| `MCRuntimeValues` | Small curves and bytes. |

`reg` holds the value the code computed and `exact` what it stands for: a residue, a byte string's
number, the discrete logarithm of a point. A step applies the code's operation to the one and
modular arithmetic to the other. `Encode` puts one value or two into `wire`, followed by an
atom of someone else; `Damage` cuts it short or exchanges an atom; `Decode` takes the values off again.

### Fixture harness

| Module | Role |
|---|---|
| `FixtureFiles` | The fixture tree: discovery, arguments, the two predicates by which runner and orchestrator select, the order of execution. |
| `FixtureReporter` | The outline: which headers a case needs after the one before. |
| `Fixtures` | One command: refusals, the lint's preparation, deletion of stale output, slots, compiles, tests, timeouts, cleanup. |
| `Fixtures_proofs` | Theorems: the slots and their order, the output a test sees, the output a command touches and leaves, the outline read back. |
| `MCFixtures` | Trees, command lines and earlier output of the instance. |

`compile[d]` is where the one compile of a fixture is, from queued to the compiler's exit, and `disk[d]` what its `.build` holds and
who wrote it. `pc[t]` is a test's promise and `verdict[t]` what was reported of it: `TimesOut` sets the second and leaves
the first going. `pending` is the set of what is still to be started, served in the order `RegisteredBefore` of registration. A release of a slot is one action with the compile's end, since the code
releases in a `finally` and drains the queue synchronously.

### Compiler fuzzer

| Module | Role |
|---|---|
| `FuzzGrammar` | The whole catalogue, as tokens without their text, with the generators that build its larger productions. |
| `Fuzzer` | `validate` on the catalogue with at most one slip, then the expansion of an accepted one; the sizes its terminals write. |

The expansions of the tokens of one alternative do not depend on one another, so a behaviour follows one path
of a contract; all paths of all contracts are behaviours. Text is left out except the heads of types,
names that are bound, and literals that look like names. Operators are evaluated on the catalogue itself: nothing
about it is scaled down but the size limits.

A slip misspells one reference or one definition, or defines a name twice. A misspelling is told by what `validate` can see of it: it has the
shape of a production's name, or lost it to a capital or with its underscore, or is another production's name.
What has lost its shape is text to `validate` as to the expansion, and passes if its production is used elsewhere. `SlipsStayLocal` says which slips pass and
that they change one token.

## 3. Runs

| Run | Bounds | Shows |
|---|---|---|
| `nested` | three contracts, one run, 7 query contexts, costs 1 and 2 against a limit of 1, catches allowed | `TypeOK`, `ActiveIsCallStack`, `MemoPairing`, `CellsAliasMaps`, `EffectsAreTheCallsOwn`, `CoinsFollowCommitments`, `CallTreeTrace`, `LedgerReplays`, `SequentialCallsChain`, and that `CallTransaction` is implemented (`IsTransactional`) |
| `shared` | two runs, at once from one context or the second from the context the first returned, 5 query contexts | `ActiveIsCallStack`, `CellsAliasMaps`: the two that overlap and reuse can disturb |
| `store` | two versions, a clean and an update in turn, both kinds of server, archives of two chunks, two stops | `TypeOK`, `InstalledIsComplete`, `LinksFollowDefault`, `IsVersionStore` |
| `races` | two updates of different versions at once, cleans, one stop, which may fall inside `remove_dir_all` | `DefaultIsInstalled`, `UpdatesLeaveADefault`, `CleanKeepsCurrent` |
| `retries` | one version, servers that ignore `Range`, three stops | `RepeatedUpdatesInstall` |
| `binding` | 49 encoded types, of which 32 are readable, each readable one declared against each of the 49 implemented; keys that agree, differ, are missing or garbage; modules whose constructor throws; providers that reject; two calls to one address | `BindsTheDeclaredCode`, `ModuleFaultsAreClassified`, `RefusalNamesItsFault`, `BoundCallsAgree` |
| `values` | bytes of three values, field elements of four bytes, curves over the integers mod 13, 23, 17 and 29 | `RegisterIsExact`, `ValidityIsMembership`, `ReadsBackWhatWasWritten`, `DamageIsContained`, `ReprSeparates`, `SignaturesVerify` |
| `fixtures` | three normal and two slow fixtures in eight trees, seven command lines, two slots, two tests in flight | `SlotsAreShared`, `SlowNeverDelaysNormal`, `RuntimeSeesItsOwnCompile`, `SelectionsAgree`, `ArtifactsFollowVerdicts`, `OutlineAlwaysReadsBack`, `CommandsEnd` |
| `fuzzer` | the whole catalogue, followed for 24 levels, and with one slip in it, followed for two; sizes of up to 6 bits | `SlipsStayLocal`, `StatementTypesCompile`, `ContractsStaySmall` |

`CHECK_DEADLOCK FALSE` is said where the system stops: in the call runs (a run ends when
every circuit has returned or failed and the query contexts are used up), in `binding` (the
calls of a context are bounded), in the runs of `Fixtures` (a command ends) and in `fuzzer` (a refused grammar writes
nothing).

Why the bounds are enough.

- *Calls.* Three contracts give a call that nests (A calls B, B calls
  C), one that is refused (C calls A or B), and one that repeats (A calls B, then B
  again). Each circuit start, ledger write or output takes one query context, so
  `MaxObjects` = 7 leaves room for two nested calls with a claim each and a repeated one.
  Callees are symmetric; the entry is fixed. What `nested` checks of the memo and of repeated calls, it checks of one run: that other calls during an
  await disturb neither is what `MemoIsPaired` and `CallsChain` prove. The refinement of `CallTransaction` is checked with one run and proved
  for runs that overlap, resume from one another and catch: what they share are objects whose ledger data and commitments
  nobody changes, and what they do change of them, the effects, is no part of the abstract store.
- *Toolchain.* Two chunks make the three sizes of a partial file
  that matter (empty, part, whole), and two stops make a leftover of a leftover. The older
  version ships no formatter, so the links of the two differ.
- *Binding.* The types hold each tag, each field of each tag changed alone, vectors and tuples that are the
  same type at depths one and two, and each way a payload can be missing. The second call is there for the memo.
- *Values.* The loops over bytes turn on whether a value fits, fills or exceeds a length; three values of a byte and four bytes
  give every case, including a top byte that the modulus cuts. Each curve has a generator of prime order, a base field larger than its scalar
  field and, for the Edwards curves, points of small order; the limbs split inside a byte and between bytes. All values of every kind are
  arguments, and operands are the ends of each range.
- *Fixtures.* Three normal fixtures fill two slots and leave one waiting; two slow ones contend with them and with each other.
  Two tests in flight are the two tests of one fixture, or tests of two. The trees are good, contradictory, misnamed and orphaned ones.
- *Fuzzer.* Some entry point reaches each of the 156 productions in at most five expansions, and the 26 recursive ones come back to themselves in
  at most three; the code cuts at depth 100, the model at 24. A slip that passes changes one alternative of one production, so two
levels from each entry point meet the slips at the top and the rest is the catalogue's; that none is lost from the grammar is asked of every slip, at any depth. A misspelling into
another name is taken for eleven pairs of names at most two edits apart. Sizes depend on the bounds only through comparisons with the limits, and 2^6 is past every constant of the catalogue.

### Where the code and its comments differ

Each of these runs checks a sentence of the repository and TLC finds it broken:

| Run | Sentence | What happens |
|---|---|---|
| `v_effects` | `contract.ts:283`: a transcript's effects are its start context's plus its own | entering a callee again overwrites the query context an earlier entry refers to |
| `v_resume` | `bin/compact.rs:284`: no leftover fails every retry alike | a partial file that is whole is answered with 416 for ever |
| `v_timeout` | `test-contracts/README.md:142`: artifacts of fixtures with unexpected failures are preserved | a test that times out is reported failed and marks nothing, so the cleanup removes its output |

Noted while modelling, with no run of their own:

- `contract.ts:628-630` calls what follows the commit of a callee unable to reject. The missing provable circuit is found there, and a
  constructor of the callee's module that throws leaves as it threw. The commit by then is in the caller's context; `BoundCallsAgree` and `MemoPairing` hold over it.
- A context used for a second run keeps the first run's `initialQueryContext` (`circuit-context.ts:51`).
- The set of active contracts is one for all calls of a run, so a call can be refused because a sibling's
  callee, not one on its own stack, is the same contract (`contract.ts:524`).
- The gas limit (`circuit-context.ts:163`) applies to each query while the cost is summed.
- A context that the application holds can change with a later run, since the objects it names are shared (`contract.ts:404`).
- `move_into` removes the previous entry before it renames the new one (`compiler_legacy.rs:229`), and a clean stopped inside
  `remove_dir_all` can leave the binary whose presence counts as a complete install (`compiler_legacy.rs:44`).
- The fuzzer's preamble may write `default<Kernel>`, which `infer-types.ss:1237` rejects; its operation lists, called exhaustive, have no
  `kernel.caller` (`midnight-ledger.ss:268`); and `validate` sees an undefined reference only if it looks like a production's name (`grammar/index.ts:92`): lower case, with an underscore. `StatementTypesCompile`
  and `SlipsStayLocal` are stated accordingly.

## 4. Fairness

`FairSpec` of `Toolchain`: a command that
nothing stops goes on (`WF` of `Advance`), being one sequential process. The user repeats
`compact update <v>` until the version is there (`SF` of `RepeatedUpdate`): that is the
retry the comments of `download_and_install` speak of. Stops are bounded by `MaxStops`, so
that eventually an attempt is left alone; nothing is said of a machine that kills every attempt.

`Spec` of `Fixtures`: the runner and the orchestrator go on, and Vitest's timers fire (`WF` of `Runner \/ Orchestrator`). The compilers
are left out of it, so that one may hang: `CommandsEnd` says that the timeouts end the command all the same.

The call models have no liveness property: an awaited provider need never answer. The other models are of
computations.

## 5. Proofs

The theorems below hold for every value of the constants: any contracts, costs, versions, fixtures, declarations, fields,
curves and widths, and any bounds. The proofs use the named assumptions of the module they are about (`EntryAssumption` ... `SwitchAssumption`
in `CrossContractCall`; `ShipsAssumption` ... `BoundsAssumption` in `Toolchain`; `LimitsArePositive`, `EarlierOutputIsMarked`, `PathsAreNamed`,
`DirsAreListed`, `SlowAreDirs` in `Fixtures` and `FixtureFiles`; `KeysAssumption`, `TablesAssumption` in `Binding`; `EncodingsAreTrees`,
`EncodingsAreShaped` in `Conformance`; `BytesAssumption`, `LimbsAssumption` in `CompactTypes`, `CurvesAssumption` in `BuiltIns`,
`ValuesAssumption` in `RuntimeValues`), which TLC
evaluates in the runs, and where the table names a condition, that condition.

| Theorem | States | Condition |
|---|---|---|
| `CrossContractCall_proofs!TypeCorrect` | `TypeOK` | |
| `MemoIsPaired` | `MemoPairing`: the assertion of `resolveDeployedState` never fires | |
| `GuardIsExact` | `ActiveIsCallStack` | |
| `CellsFollowMaps` | `CellsAliasMaps` | |
| `CoinsAgree` | `CoinsFollowCommitments` | |
| `TranscriptsReplay` | `LedgerReplays` | `~Reuse` |
| `CallsChain` | `SequentialCallsChain` | `~Reuse` |
| `TraceIsTheCallTree` | `CallTreeTrace` | |
| `EffectsAreOwn` | `EffectsAreTheCallsOwn` | `~Overlap` |
| `CallsAreTransactional` | `IsTransactional`: `CallTransaction` is implemented | |
| `Toolchain_proofs!TypeCorrect` | `TypeOK` | |
| `DefaultsAreInstalled` | `DefaultIsInstalled` | |
| `InstalledVersionsAreComplete` | `InstalledIsComplete` | `~CleanStops` |
| `CleansKeepTheCurrent` | `CleanKeepsCurrent` | |
| `ImplementsVersionStore` | `IsVersionStore`: `InstalledVersions` is implemented | |
| `LinksFollowTheDefault` | `LinksFollowDefault` | `~CleanStops`, one command at a time |
| `UpdatesLeaveSomeDefault` | `UpdatesLeaveADefault` | |
| `SlotsStayShared` | `SlotsAreShared` | |
| `SlowsNeverDelay` | `SlowNeverDelaysNormal` | |
| `RuntimesSeeTheirOwnCompile` | `RuntimeSeesItsOwnCompile` | |
| `TheSelectionsAgree` | `SelectionsAgree` | |
| `ArtifactsFollow` | `ArtifactsFollowVerdicts` | |
| `OutlinesReadBack` | `OutlineAlwaysReadsBack` | |
| `CallsShareTheirKeys` | `BoundCallsAgree` | |
| `RunsTheDeclaredCode` | `BindsTheDeclaredCode` | |
| `FaultsAreClassified` | `ModuleFaultsAreClassified` | |
| `RefusalsNameFaults` | `RefusalNamesItsFault` | |
| `RegistersAreExact` | `RegisterIsExact` | |
| `ValuesReadBack` | `ReadsBackWhatWasWritten` | |
| `DamageStaysContained` | `DamageIsContained` | |
| `ReprsSeparate` | `ReprSeparates` | |
| `ValidityMeansMembership` | `ValidityIsMembership` | |
| `SignaturesAreUnique` | `SignaturesVerify` | |

The conditions are those of the code, and of the runs that check the properties: without them the
properties are false. A context that an earlier run returned keeps that run's initial query
context while its count of operations restarts, so its first entry does not replay (`Reuse`);
a run that calls a contract another run is executing overwrites the query context under it (`Overlap`);
a clean stopped inside `remove_dir_all` may leave the compiler's binary without its tools
(`CleanStops`); two updates at once interleave their links, so that a tool may be linked to the one version and the compiler to the
other.

### Calls

`MemoPairing` is not inductive: it speaks of contexts that a call may start from, and
these come from frames, snapshots and results through `EnterContext`,
`SetupCallContext`, `Finalize` and `RestoreCircuitContext`. The invariant `IInv` says it of
every context anywhere and adds what it needs:

- `ContextOK`: in each context every known contract but the entry is in the memo and has a
  cost, the executing contract is known, and every reference names an object of the heap;
- `FrameOK`, `StackOK`: a frame's snapshot names an object of the heap, a pending callee is not
  the entry contract, every frame but the top one is suspended in a callee, and the top context
  of a running run knows the contract of every suspended caller, so that a return
  restores cells of a known contract;
- the entry contract stays in `active`, which is why `MemoPairing` may leave it out: its
  state was given by the application and never resolved.

`InitIInv` and `NextIInv` are the base and the step, with one lemma per action and one per
operator on contexts (what `Queried`, `WithOutput`, `EnterContext`, `SetupCallContext`,
`Finalize`, `RestoreCircuitContext` preserve).

`GuardIsExact` adds `AInv == Marked /\ MarkedOnce /\ EntryNeverCalled`, inductive relative to `IInv`:
the property said frame by frame, with "frame `i` of run `q` waits for contract `a`" as its one
notion. A step changes the stack of one run, and does one of three things to the frames that wait:
nothing (`NothingMarked`: queries, coins, the checks passed, the entry, the last return), one frame
more (`OneMarked`: `BeginCall`, whose guard says the callee was not marked), or one less
(`OneUnmarked`: a return, a refusal, an unwinding, the three ways through the `finally`). Each action
is brought to one of the three by lemmas about what replacing the last frame, pushing one and
dropping one do to the waiting frames; `IInv` gives that only the top frame of a stack is not
suspended.

The other theorems about calls do not go through the thirteen actions again. Lemma `Shapes` says that every step of a
run has one of eight shapes, each stated in the fields of its contexts: it starts (`Starts`), ends well (`Finishes`) or
badly (`Fails`), changes only where it awaits (`Idles`), queries (`Queries`), makes an output (`Outputs`), enters a callee
(`Enters`) or returns from one (`Returns`). Over these, each invariant relative to those before it:

- `CInv` (`CellsFollowMaps`): the contract a frame executes is the callee its caller waits for, and the innermost context's maps hold
  every frame's cells, not only the innermost frame's. That a step on one contract's cells leaves the others'
  alone needs that frames execute different contracts: `HomesApart`, which is what the re-entrancy guard is for.
- `KInv` (`CoinsAgree`): a contract is known exactly when it has a Zswap state, of as many outputs as its ledger has
  commitments. It rests on `Keeps`: the ledger data and the commitments of an object never
  change once it is created. What changes is its caller and its effects, on re-entry, and the references to it.
- `RInv` (`TranscriptsReplay`): each entry and each circuit under way replays from its initial object; `Keeps` carries
  that over all later steps, of any run.
- `SInv` (`CallsChain`): the last entry of a contract that is not executing left the ledger data that the innermost context holds for it, and the
  last entry of one that is, what its circuit started from.
- `TInv` (`TraceIsTheCallTree`): while a run goes on, each entry of a callee is claimed by one later entry or by
  one circuit under way, never both; a failure that is caught drops the frame with what it claimed, together with the entries.
- `EInv` (`EffectsAreOwn`): no two contracts of a context share an object, and the object a suspended circuit started from is in no other
  contract's map; the effects of the current one are the circuit's operations and claims.

`CallsAreTransactional` adds `WInv`: the entry's deployed state is version 0, a run that did not end well still shows
the context it was given, and an unknown contract has no cost. Each shape is then one step of
the transaction:

| Shape | `Starts` | `Queries` | `Outputs` | `Enters` | `Returns` | `Finishes` | `Fails` | `Idles` |
|---|---|---|---|---|---|---|---|---|
| Step | `Begin` | `Op` | `Output` | `Call` | `Return` | `Commit` | `Abort`, or none if the failure was under way | none |

The mapping reads a run's store through the references of its innermost context. Another run's step replaces objects but not their data and
commitments, so by `Keeps` it leaves the view of this one alone; that is why no condition on `Overlap` or `Reuse` is needed.

### Toolchain

`IInv` is `TypeOK`, `DefaultIsInstalled`, `InstalledIsComplete` (unless cleans stop inside a directory), and what each command under
way relies on:

- `UpdateOK`, `Placing`: until the binary is placed it is absent, as the version would count as installed; while files move from `.incoming`, each file
  the version ships is whole in one of the two places, the binary is moved last, and whatever a stop
  left of an earlier attempt is no file this version does not ship;
- `CleanOK`: a clean has taken the default's link away before it removes a directory, or keeps that version;
- `Separate`: updates that run at once are of different versions, and a clean runs alone.

One lemma per action proves `StepOK`: the invariant again, the step of `InstalledVersions` (or none), and that a version kept by
`--keep-current` keeps its files and its link. The stops are among the actions, so that every file
operation is a place to be killed at.

`LInv` (`LinksFollowTheDefault`) follows `set_current_compiler` link by link: those it passed follow the version, the one it works
on is gone, and no directory holds a file its archive does not have. `DInv` (`UpdatesLeaveSomeDefault`) says of commands none of which
was stopped that partial files have a download that owns them, so that none fails, and that where there is no
default, someone is about to set one, or no update came as far as the link. An update that found the compiler's link, and may fail because
another has taken it by now, is one that saw it (`SawCompiler`): whoever took it stands before making it again (`SeenOwes`).

### Fixture harness

- `SInv` (`SlotsStayShared`): the two counters count the fixtures that hold a slot, a slow one holds alone, each waiter waits once, and
  the head of the queue is blocked. `drainCompileSlotQueue` grants the longest part of the queue that fits; what it
  grants is the greatest member of a bounded set of numbers, which exists by well-foundedness of the naturals, and
  that the next waiter does not fit is its maximality.
- `OInv` (`SlowsNeverDelay`): tests are registered with the slow fixtures last, and those before are started first; hence no normal fixture
  can be queued behind a slow one, nor while one holds the slots.
- `FInv` (`RuntimesSeeTheirOwnCompile`, `ArtifactsFollow`): what a test's promise has awaited, which also holds after its timeout; what a
  compile that ended wrote, which nothing touches until the tests are over; what a verdict says of the record and of
  the directory.
- `NInv` (`TheSelectionsAgree`): in every phase, only directories that the command names have been touched.
- `RInv` (`OutlinesReadBack`): the headers kept are those of the case printed last. `CaseRead` follows a reader through the lines of
  one case: after the j-th header its path agrees with the case's on the common prefix and j parts more, so that
  the leaf lands below the whole of it, from wherever the reader was. `SummaryRead` puts one case after another. The recursive functions on both sides
  are followed line by line, each claim by its least counterexample among the line numbers.

### What a call is bound to

`IInv` of `Binding_proofs` has four parts:

- `Underway`: what each await may rely on. The state is the memoized one as soon as there is one, and the module is one of those
  the screen let through.
- `BoundToTheMemo`: every call that was entered ran the key that the memoized state has for its circuit. `BoundCallsAgree` follows,
  since the memo is written once: an entry finds it empty or equal to its own state.
- `Decided`: a callee runs exactly if its module conforms, the keys agree, the module can be constructed and the circuit is provable; and what a raw error came after. The keys are compared in some order up to
  the first fault, and are still all those that both sides have.
- `Blamed`: a refusal that names a circuit names one with that fault (`Explained`).

What "conforms" means is a fact about types of any depth. `FirstUnreadableTag` and `SignatureTypesEqual` recurse over what a module
carries, and `WellFormed` and `Normal`, which the properties speak of, are recursions too. `EncodingsAreTrees` gives every encoded type
a height that its parts are below: encodings are finite trees, as JavaScript built them or the compiler printed them. Then:

1. `RecursionDefines`: equations whose right-hand sides look only at what is lower have a solution. The solution is put together
   level by level (`UptoExists`, `UptoAgree`). With `TagLocal`, `FormLocal` and `CompareLocal`, which say that each of the recursive definitions looks only at
   the parts, this gives the defining equation of each (`TagDefined`, `WholeDefined`, `FormDefined`, `CompareDefined`).
2. `ReadableIsWellFormed`: the screen passes exactly the well-formed types. An exception would have a least height, its parts would
   be no exceptions, and `ReadableStep` says that then it is none.
3. `ComparisonDecides`: of two well-formed types the comparison is `SAME` exactly if their forms are equal, where the form of a vector is a tuple and that of
   a contract type has no name, and it never throws. Again by the least exception, with a lemma per tag (`SequencesAgree` ... `LeavesAgree`).
4. `CircuitDecides`, `DeclarationDecides`, `ConformanceDecides`: position by position and circuit by circuit, up to the first fault.

The code relies on the screen being as deep as the comparison: a position is compared only once it is screened whole, which is why
no table of an untrusted module makes the comparison throw.

### Values

`ValuesInv` has three parts. `RegisterHolds`: the register is a value of its type's range (`TypeRange`) and stands for
`exact`, as a residue, a byte string's number, or the multiple of the generator by it. `RefusedExceeds`: a cast that
threw named a bound below `exact`. `Stage`: nothing is on its way, or what is on its way is the encoding of the
register, whole (`Whole`), `Cut`, `Altered` in one atom, or followed by a second value (`Both`), less what is already
read. The properties alone are not inductive: that a decoder reads back what was written says nothing of the atoms a
later decoder finds.

1. *Numbers as atoms.* `NumberOfDigits`, `NumberOfPadded`, `DigitsTrim`: a number, its digits without leading zeros, and
   any padding of them give each other back, by induction on the number as a well-founded order; `DigitsDefined` first
   shows that the recursive function has its equation. `DigitsMonotone` turns a bound on a value into a bound on its
   length, which is what the widths in the alignments rest on.
2. *Codecs.* `TypeEncodes`, `TypeReads`, `TypeSound`, for every type the descriptors build: the encoding follows the
   alignment; the decoder, given the encoding and anything after it, returns the value and leaves exactly what came
   after; what it accepts is in the type's range and took as many atoms as the alignment has. Each is shown for atomic
   types, then for a chain of decoders on one array (`ChainReads`, `ChainSound`), of which points, structs, vectors and
   paths are instances.
3. *Fields and curves.* Congruence modulo m is kept by sums and products (`SameSum`, `SameProduct`), so each field
   operation on operands in range is the residue modular arithmetic defines (`NativeReduces` ...
   `Curve25519ScalarInverts`). A point that stands for k (`Stands`) is taken by addition, multiplication and negation to
   one that stands for the sum, the product and the negative (`SecpPlus`, `SecpTimes`, `EdwardsSum`, `EdwardsProduct`);
   that either identity of a secp curve stands for 0 is why the coordinates of an identity may be odd. `RecoveredKey`
   goes through the arithmetic of ECDSA with `RecoveredScalar` and shows that of the candidates for the nonce's point
   the recovery id picks the signer's.
4. *Steps.* `ArithmeticHolds` ... `ConversionHolds` for the register, `EncodeStage` ... `ResumeHolds` for the array.
   `DecodeCut` and `DecodeAltered` use `TypeSound`: a decoder that accepted a shorter array would have taken more atoms
   than there are.
5. *Properties.* `EncodingSeparates` and `PaddingSeparates` give the binary representation; `InMultiples` with the group
   gives membership; `OneResponse` gives the one response, since multiples of the generator below its order differ.

The curves are libraries, and what the proofs take of them is `CurvesAssumption`: the affine points of a secp curve are
the multiples of its generator, and so are the torsion-free points of an Edwards curve; adding multiples adds
the multipliers modulo the order; and the moduli of the three foreign curves have inverses. These are the textbook facts
about the curves that the libraries implement, and TLC evaluates them on the small curves of the run. `ValuesAssumption`
asks that the maximum of an enum fits in one word of bytes, the width at which JavaScript's shift in the enum's decoder
wraps.

### What only TLC checks

`RepeatedUpdatesInstall` and `CommandsEnd`, since liveness and `ENABLED` are beyond the prover. The three of `Fuzzer`,
whose reachability is a RECURSIVE operator, on one catalogue that TLC covers whole. `EffectsReplay` and
`FailuresKeepTheirArtifacts` are false, and the runs find why.

## 6. Not modelled, and why

- *Calls*: a module-resolution error that is caught two or more frames above the refused call:
  the frames between are torn. Catching is modelled in the circuit that made the call. The private states of witnesses, cryptography, and the contents
  of ledger states and coins.
- *Toolchain*: two updates of one version at once; an update during a clean; installations for several
  targets; `self update`, `check`, `list`; the cache of releases, whose list is an input.
- *Values*: what the hash functions compute: one function of the atoms stands for them, and no property rests on its having no collisions. Of `alignedConcat`
  the values, not the alignments.
- *Harness*: what Vitest does with the options handed on to it (`-t` selects tests by name); `createTestContract`;
  two commands at once in one tree.
- *Fuzzer*: the text of productions, the number of contracts and their files; feature flags, of which there is
  none at this commit.
- *Compiler*: the programs of the ledger's data types run on a machine that is a library outside the repository, and the
  passes, the disclosure analysis and inference are written over intermediate languages whose semantics a model would have to state first. A model small enough to
  check would not be of this code.
- Command line, printers, editor support, simulators of single tests, documentation, packaging: no decisions over several steps.

## 7. Plan

Done: calls, what they are bound to, values, toolchain, harness, fuzzer; theorems for every safety property of all of them
but the fuzzer's, and both refinements.

What would come next:

1. `CallTransaction` says nothing of the memo and of the references a trace keeps; an abstract specification that does would
   carry `LedgerReplays` over without its condition on `Reuse`.
2. A module of the release cache (`fetch.rs`), so that the list of releases is no longer an input of `Toolchain`.
3. The reachability of `Fuzzer` as a recursive function, and then its three properties for every catalogue.
