-------------------------------- MODULE Fixtures --------------------------------
(* One command of the fixture harness of test-contracts: the runner, the     *)
(* orchestrator it starts under Vitest, the compilers the orchestrator       *)
(* starts, the cleanup of their output and the outline the reporter prints.  *)
(*                                                                            *)
(* Vitest starts the registered tests in order, MaxConcurrency at a time. A  *)
(* test that exceeds its timeout is reported as failed and makes room, but   *)
(* the promise it was running goes on.                                       *)
EXTENDS FixtureFiles, FixtureReporter

CONSTANTS
  Trees,                   \* the fixture trees a command may find
  CommandLines,            \* the command lines it may be given
  EarlierOutput,           \* what an earlier command may have left in every .build
  PathOf,                  \* the names along the path of a directory
  MaxConcurrentCompiles,   \* normal compiles at a time
  MaxConcurrency           \* tests Vitest has in flight at a time

ASSUME LimitsArePositive == MaxConcurrentCompiles \in Nat \ {0} /\ MaxConcurrency \in Nat \ {0}
ASSUME EarlierOutputIsMarked == \A left \in EarlierOutput : left.by = "earlier"
ASSUME PathsAreNamed ==
  \A d \in ToSet(Dirs) : PathOf[d] # <<>> /\ PathOf[d] \in Seq(ToSet(PathOf[d]))

VARIABLES
  tree, command,
  phase,                   \* how far the command has come
  disk,                    \* the .build of each directory
  pending,                 \* what is still to be started
  compile,                 \* where the compile of a directory is, or its outcome
  compileResults,          \* the directories whose compile is cached
  compileSlotQueue, activeNormalCompiles, activeExclusiveCompile,
  fixtureStatuses,         \* the status records: none, ok or failed
  visited,                 \* the records the cleanup has looked at
  pc, verdict,             \* where a test is, and what was reported of it
  lastHeaderParts,         \* the reporter's
  reported                 \* the test it printed last

slots == <<compile, compileSlotQueue, activeNormalCompiles, activeExclusiveCompile>>
reporter == <<lastHeaderParts, reported>>
vars == <<tree, command, phase, disk, pending, slots, compileResults, fixtureStatuses,
          visited, pc, verdict, reporter>>

Dir == ToSet(Dirs)
Tests == Dir \X TestPhase
Output(holds, by) == [holds |-> holds, by |-> by]

(* The compiler's exit: success, failure with the expected diagnostic or     *)
(* another, or a rejected promise because it could not be started. Without   *)
(* an expectedError in the test no diagnostic is the expected one.           *)
CompileOutcome == {"ok", "expected", "other", "rejected"}
Exited == CompileOutcome \ {"rejected"}
Outcomes(d) == IF tree[d].expectedError THEN CompileOutcome ELSE CompileOutcome \ {"expected"}
Holding == {"granted", "removed"}

Init ==
  /\ tree \in Trees
  /\ command = <<>>
  /\ phase = "start"
  /\ \E left \in EarlierOutput : disk = [d \in Dir |-> left]
  /\ pending = {}
  /\ compile = [d \in Dir |-> "none"]
  /\ compileResults = {}
  /\ compileSlotQueue = <<>>
  /\ activeNormalCompiles = 0
  /\ activeExclusiveCompile = FALSE
  /\ fixtureStatuses = [d \in Dir |-> "none"]
  /\ visited = {}
  /\ pc = [t \in Tests |-> "none"]
  /\ verdict = [t \in Tests |-> "none"]
  /\ lastHeaderParts = <<>>
  /\ reported = <<>>

------------------------------------------------------------------------------
(* The runner. It wants the compiler of the Nix store and a runtime from the *)
(* store or from the working tree, linked and built.                         *)
Environment ==
  [compiler : {"store", "elsewhere", "missing"},
   runtime : {"store", "working tree", "elsewhere", "unlinked", "no manifest", "unbuilt"}]

Usable(environment) ==
  environment.compiler = "store" /\ environment.runtime \in {"store", "working tree"}

RuntimeFixtures == {d \in DiscoveredFixtures(tree) : HasTest(tree, d, "runtime")}

Orchestration == <<slots, compileResults, fixtureStatuses, visited, pc, verdict, reporter>>

RunnerRefuses ==
  /\ phase = "start"
  /\ \E words \in CommandLines, environment \in Environment :
       /\ RefusedArgs(words) \/ ~Usable(environment) \/ ~Discoverable(tree)
       /\ command' = words
  /\ phase' = "refused"
  /\ UNCHANGED <<tree, disk, pending, Orchestration>>

(* Lint: compiles what the runtime tests import, one after the other.        *)
StartPreparing ==
  /\ phase = "start"
  /\ Discoverable(tree)
  /\ command' \in {words \in CommandLines : ~RefusedArgs(words) /\ PrepareArtifacts(words)}
  /\ phase' = "preparing"
  /\ pending' = RuntimeFixtures
  /\ UNCHANGED <<tree, disk, Orchestration>>

CompileFixtureForTypecheck(d, outcome) ==
  /\ disk' = [disk EXCEPT ![d] = Output(CASE outcome = "ok" -> "built"
                                          [] outcome = "rejected" -> "empty"
                                          [] OTHER -> "broken", "lint")]
  /\ IF outcome = "ok" THEN phase' = phase /\ pending' = pending \ {d}
     ELSE phase' = "refused" /\ pending' = {}

PrepareNext ==
  /\ phase = "preparing"
  /\ \E d \in pending :
       /\ \A e \in pending : Place(d) <= Place(e)
       /\ IF ResultOf(tree, d, "compile") = "pass" /\ Prepared(tree, d)
          THEN \E outcome \in Outcomes(d) : CompileFixtureForTypecheck(d, outcome)
          ELSE phase' = "refused" /\ pending' = {} /\ UNCHANGED disk
  /\ UNCHANGED <<tree, command, Orchestration>>

PreparingEnds ==
  /\ phase = "preparing"
  /\ pending = {}
  /\ phase' = "prepared"
  /\ UNCHANGED <<tree, command, disk, pending, Orchestration>>

(* Test: stale output goes before Vitest can see it.                         *)
RunVitest ==
  /\ phase = "start"
  /\ Discoverable(tree)
  /\ command' \in {words \in CommandLines : ~RefusedArgs(words) /\ ~PrepareArtifacts(words)}
  /\ phase' = "cleaned"
  /\ disk' = [d \in Dir |-> IF d \in CleanedFixtures(tree, FiltersOf(command'))
                            THEN Output("absent", "test") ELSE disk[d]]
  /\ UNCHANGED <<tree, pending, Orchestration>>

RegisterTests ==
  /\ phase = "cleaned"
  /\ IF Registrable(tree, FiltersOf(command))
     THEN phase' = "testing" /\ pending' = Registered(tree, FiltersOf(command))
     ELSE phase' = "refused" /\ UNCHANGED pending
  /\ UNCHANGED <<tree, command, disk, Orchestration>>

------------------------------------------------------------------------------
(* Mutant: a slow compile starts among running ones.                         *)
StartableAnyway(queue, active) ==
  IF queue # <<>> /\ IsSlowFixture(Head(queue)) THEN {0, 1}
  ELSE {n \in 0 .. Len(queue) : active + n <= MaxConcurrentCompiles
                                /\ \A i \in 1 .. n : ~IsSlowFixture(queue[i])}

(* The compile slots. A queued compile starts when it is its turn: the first *)
(* waiters up to the limit, or a slow one that has the compilers to itself.  *)
Startable(queue, active) ==
  IF queue # <<>> /\ IsSlowFixture(Head(queue)) THEN {0} \cup {n \in {1} : active = 0}
  ELSE {n \in 0 .. Len(queue) : active + n <= MaxConcurrentCompiles
                                /\ \A i \in 1 .. n : ~IsSlowFixture(queue[i])}

Started(queue, active, exclusive) ==
  IF exclusive THEN 0
  ELSE CHOOSE n \in Startable(queue, active) : \A m \in Startable(queue, active) : m <= n

DrainCompileSlotQueue(states, queue, active, exclusive) ==
  LET n == Started(queue, active, exclusive)
      slow == n = 1 /\ IsSlowFixture(Head(queue))
      granted == {queue[i] : i \in 1 .. n}
  IN /\ compile' = [d \in Dir |-> IF d \in granted THEN "granted" ELSE states[d]]
     /\ compileSlotQueue' = SubSeq(queue, n + 1, Len(queue))
     /\ activeNormalCompiles' = IF slow THEN active ELSE active + n
     /\ activeExclusiveCompile' = (exclusive \/ slow)

AcquireCompileSlot(d) ==
  DrainCompileSlotQueue([compile EXCEPT ![d] = "queued"], Append(compileSlotQueue, d),
                        activeNormalCompiles, activeExclusiveCompile)

(* Mutant: a release wakes nobody.                                          *)
ReleaseQuietly(d, outcome) ==
  /\ compile' = [compile EXCEPT ![d] = outcome]
  /\ activeNormalCompiles' = IF IsSlowFixture(d) THEN activeNormalCompiles ELSE activeNormalCompiles - 1
  /\ activeExclusiveCompile' = (activeExclusiveCompile /\ ~IsSlowFixture(d))
  /\ UNCHANGED compileSlotQueue

ReleaseCompileSlot(d, outcome) ==
  DrainCompileSlotQueue([compile EXCEPT ![d] = outcome], compileSlotQueue,
                        IF IsSlowFixture(d) THEN activeNormalCompiles ELSE activeNormalCompiles - 1,
                        activeExclusiveCompile /\ ~IsSlowFixture(d))

Running == phase \in {"testing", "cleaning"}

InFlight == {t \in Tests : pc[t] # "none" /\ verdict[t] = "none"}

(* compileFixture: the first test of a fixture queues the compile, the other *)
(* finds its promise.                                                        *)
StartTest ==
  /\ phase = "testing"
  /\ Cardinality(InFlight) < MaxConcurrency
  /\ \E t \in pending :
       /\ \A u \in pending : ~RegisteredBefore(u, t)
       /\ pending' = pending \ {t}
       /\ pc' = [pc EXCEPT ![t] = "compiling"]
       /\ compileResults' = compileResults \cup {t[1]}
       /\ IF t[1] \in compileResults THEN UNCHANGED slots ELSE AcquireCompileSlot(t[1])
  /\ UNCHANGED <<tree, command, phase, disk, fixtureStatuses, visited, verdict, reporter>>

RemoveOutput(d) ==
  /\ Running
  /\ compile[d] = "granted"
  /\ compile' = [compile EXCEPT ![d] = "removed"]
  /\ fixtureStatuses' = [fixtureStatuses EXCEPT ![d] = IF @ = "none" THEN "ok" ELSE @]
  /\ disk' = [disk EXCEPT ![d] = Output("absent", "test")]
  /\ UNCHANGED <<tree, command, phase, pending, compileSlotQueue, activeNormalCompiles,
                 activeExclusiveCompile, compileResults, visited, pc, verdict, reporter>>

(* A failing compiler may have written its output, or a part of it, first.   *)
CompileContract(d) ==
  /\ Running
  /\ compile[d] = "removed"
  /\ \E outcome \in Outcomes(d) :
       /\ disk' = [disk EXCEPT ![d] = Output(CASE outcome = "ok" -> "built"
                                               [] outcome = "rejected" -> "empty"
                                               [] OTHER -> "broken", "test")]
       /\ ReleaseCompileSlot(d, outcome)
  /\ UNCHANGED <<tree, command, phase, pending, compileResults, fixtureStatuses, visited,
                 pc, verdict, reporter>>

------------------------------------------------------------------------------
(* The tests. What a test promises is in its file name.                      *)
AsExpectedToCompile(d, outcome) ==
  IF ResultOf(tree, d, "compile") = "pass" THEN outcome = "ok"
  ELSE outcome = IF tree[d].expectedError THEN "expected" ELSE "other"

AsExpectedToRun(d, thrown) ==
  IF ResultOf(tree, d, "runtime") = "pass" THEN thrown = "nothing"
  ELSE thrown = IF tree[d].expectedError THEN "expected" ELSE "other"

DisplayOf(t) == FixtureDisplay(t[2], PathOf[t[1]])

LogFixtureCase(t) ==
  /\ lastHeaderParts' = DisplayOf(t).groupParts
  /\ reported' = t

LinesOf(t) == CaseLines(DisplayOf(t), lastHeaderParts)

(* A test that timed out has been reported already.                          *)
Report(t, result) ==
  IF verdict[t] = "none" THEN verdict' = [verdict EXCEPT ![t] = result] /\ LogFixtureCase(t)
  ELSE UNCHANGED <<verdict, reporter>>

MarkedFailed(d) == [fixtureStatuses EXCEPT ![d] = "failed"]

Ends(t, ok, marks) ==
  /\ pc' = [pc EXCEPT ![t] = "done"]
  /\ Report(t, IF ok THEN "passed" ELSE "failed")
  /\ fixtureStatuses' = IF ~ok /\ marks THEN MarkedFailed(t[1]) ELSE fixtureStatuses

Compiled(t) == Running /\ pc[t] = "compiling" /\ compile[t[1]] \in CompileOutcome

TestStep == UNCHANGED <<tree, command, phase, disk, pending, slots, compileResults, visited>>

RunCompileTest(d) ==
  /\ Compiled(<<d, "compile">>)
  /\ Ends(<<d, "compile">>, AsExpectedToCompile(d, compile[d]), TRUE)
  /\ TestStep

(* Mutant: the exit code is not looked at.                                   *)
RunRuntimeTestAnyway(d) ==
  /\ Compiled(<<d, "runtime">>)
  /\ pc' = [pc EXCEPT ![<<d, "runtime">>] = "loading"]
  /\ UNCHANGED <<verdict, fixtureStatuses, reporter>>
  /\ TestStep

(* A promise that was rejected is rethrown before anything is marked.        *)
RunRuntimeTest(d) ==
  /\ Compiled(<<d, "runtime">>)
  /\ IF compile[d] = "ok"
     THEN pc' = [pc EXCEPT ![<<d, "runtime">>] = "loading"]
          /\ UNCHANGED <<verdict, fixtureStatuses, reporter>>
     ELSE Ends(<<d, "runtime">>, FALSE, compile[d] \in Exited)
  /\ TestStep

(* Mutant: a failed import does not mark the fixture.                        *)
LoadUnmarked(d) ==
  /\ Running
  /\ pc[<<d, "runtime">>] = "loading"
  /\ \/ /\ disk[d].holds \in {"built", "broken"}
        /\ LoadsDefinition(tree, d, "runtime")
        /\ pc' = [pc EXCEPT ![<<d, "runtime">>] = "running"]
        /\ UNCHANGED <<verdict, fixtureStatuses, reporter>>
     \/ Ends(<<d, "runtime">>, FALSE, FALSE)
  /\ TestStep

LoadGeneratedContract(d) ==
  /\ Running
  /\ pc[<<d, "runtime">>] = "loading"
  /\ \/ /\ disk[d].holds \in {"built", "broken"}
        /\ LoadsDefinition(tree, d, "runtime")
        /\ pc' = [pc EXCEPT ![<<d, "runtime">>] = "running"]
        /\ UNCHANGED <<verdict, fixtureStatuses, reporter>>
     \/ Ends(<<d, "runtime">>, FALSE, TRUE)
  /\ TestStep

RuntimeEnds(d) ==
  /\ Running
  /\ pc[<<d, "runtime">>] = "running"
  /\ \E thrown \in {"nothing", "expected", "other"} :
       Ends(<<d, "runtime">>, AsExpectedToRun(d, thrown), TRUE)
  /\ TestStep

TimesOut(t) ==
  /\ phase = "testing"
  /\ t \in InFlight
  /\ Report(t, "timedout")
  /\ UNCHANGED <<fixtureStatuses, pc>>
  /\ TestStep

------------------------------------------------------------------------------
AllReported == pending = {} /\ InFlight = {}

(* Mutant: the cleanup waits for the compiles.                               *)
StartCleanupAfterCompiles ==
  /\ phase = "testing"
  /\ AllReported
  /\ \A d \in compileResults : compile[d] \in CompileOutcome
  /\ phase' \in {"cleaning", "kept"}
  /\ UNCHANGED <<tree, command, disk, pending, Orchestration>>

(* afterAll, unless COMPACT_TEST_KEEP_ARTIFACTS is set.                       *)
StartCleanup ==
  /\ phase = "testing"
  /\ AllReported
  /\ phase' \in {"cleaning", "kept"}
  /\ UNCHANGED <<tree, command, disk, pending, Orchestration>>

Records == {d \in Dir : fixtureStatuses[d] # "none"}

CleanupPassedFixture(d) ==
  /\ phase = "cleaning"
  /\ d \in Records \ visited
  /\ IF fixtureStatuses[d] = "failed"
     THEN visited' = visited \cup {d} /\ UNCHANGED <<disk, fixtureStatuses, compileResults>>
     ELSE /\ disk' = [disk EXCEPT ![d] = Output("absent", "test")]
          /\ fixtureStatuses' = [fixtureStatuses EXCEPT ![d] = "none"]
          /\ compileResults' = compileResults \ {d}
          /\ UNCHANGED visited
  /\ UNCHANGED <<tree, command, phase, pending, slots, pc, verdict, reporter>>

CleanupEnds ==
  /\ phase = "cleaning"
  /\ Records \subseteq visited
  /\ phase' = "finished"
  /\ UNCHANGED <<tree, command, disk, pending, Orchestration>>

Runner == RunnerRefuses \/ StartPreparing \/ PrepareNext \/ PreparingEnds \/ RunVitest \/ RegisterTests

Orchestrator ==
  \/ StartTest
  \/ \E d \in Dir :
       \/ RemoveOutput(d) \/ RunCompileTest(d) \/ RunRuntimeTest(d)
       \/ LoadGeneratedContract(d) \/ RuntimeEnds(d) \/ CleanupPassedFixture(d)
  \/ \E t \in Tests : TimesOut(t)
  \/ StartCleanup
  \/ CleanupEnds

Next == Runner \/ Orchestrator \/ \E d \in Dir : CompileContract(d)

(* The harness and Vitest's timers make progress; a compiler may hang.       *)
Spec == Init /\ [][Next]_vars /\ WF_vars(Runner \/ Orchestrator)

------------------------------------------------------------------------------
Holders == {d \in Dir : compile[d] \in Holding}

Exclusive ==
  /\ Cardinality(Holders) <= MaxConcurrentCompiles
  /\ \A d \in Holders : IsSlowFixture(d) => Holders = {d}

WaitersAreBlocked ==
  compileSlotQueue # <<>> =>
    IF IsSlowFixture(Head(compileSlotQueue)) THEN Holders # {}
    ELSE \/ Cardinality(Holders) = MaxConcurrentCompiles
         \/ \E d \in Holders : IsSlowFixture(d)

(* Slow compiles run exclusively and normal ones never exceed their limit,   *)
(* and a compile waits only for compiles that are running: whenever a slot   *)
(* is released the queue moves as far as it may, so that nobody is left      *)
(* waiting behind a free slot (withCompileSlot), whatever test timed out     *)
(* while its compile went on.                                                *)
SlotsAreShared == Exclusive /\ WaitersAreBlocked

(* Slow fixtures never keep a normal one from being compiled: the order of   *)
(* registration puts them last (orderExecutionFixtures), and the queue is    *)
(* served in order.                                                          *)
SlowNeverDelaysNormal ==
  \A i \in 1 .. Len(compileSlotQueue) :
    ~IsSlowFixture(compileSlotQueue[i]) =>
      /\ \A d \in Holders : ~IsSlowFixture(d)
      /\ \A j \in 1 .. i : ~IsSlowFixture(compileSlotQueue[j])

(* A runtime test runs what the one, successful, full compile of this        *)
(* command wrote: never the output of an earlier command, of the lint, of a  *)
(* compile that failed, nor a directory that was removed under it.           *)
RuntimeSeesItsOwnCompile ==
  \A d \in Dir :
    pc[<<d, "runtime">>] = "running" /\ verdict[<<d, "runtime">>] = "none" =>
      compile[d] = "ok" /\ disk[d] = Output("built", "test")

(* The runner deletes the output of exactly the fixtures the orchestrator    *)
(* selects for itself from the same filters, and no command touches the      *)
(* output of a fixture it does not name.                                     *)
SelectionsAgree ==
  LET named == IF PrepareArtifacts(command) THEN RuntimeFixtures
               ELSE SelectedFixtures(tree, FiltersOf(command))
  IN \A d \in Dir :
       /\ disk[d].by # "earlier" => phase # "start" /\ d \in named
       /\ phase = "testing" /\ d \in named => disk[d].by = "test"

(* When the cleanup is over, the output of a fixture whose tests passed is   *)
(* gone, and the output of one whose test failed is there to be looked at.   *)
ArtifactsFollowVerdicts ==
  phase = "finished" =>
    \A d \in Dir :
      LET verdicts == {verdict[<<d, p>>] : p \in TestPhase} \ {"none"}
      IN /\ verdicts = {"passed"} => disk[d].holds = "absent"
         /\ "failed" \in verdicts /\ compile[d] \in Exited => disk[d].holds \in {"built", "broken"}

(* The outline reads back: a reader who takes a line's indentation for its   *)
(* depth finds every case, and every slow compile of the summary, below the  *)
(* directories it is in, in whatever order the results came and whatever     *)
(* order the locale gives the summary.                                       *)
OutlineReadsBack ==
  LET place(t) == <<t[2]>> \o PathOf[t[1]] \o <<t[2]>>
      open == IF reported = <<>> THEN <<>> ELSE DisplayOf(reported).groupParts
      slow == {d \in SlowDirs : verdict'[<<d, "compile">>] # "none"}
  IN reported' # reported =>
       /\ Reading(open, LinesOf(reported')) = [open |-> lastHeaderParts', places |-> <<place(reported')>>]
       /\ \A sorted \in SetToSeqs(slow) :
            LET paths == [i \in 1 .. Len(sorted) |-> PathOf[sorted[i]]]
            IN Reading(<<>>, SlowSummaryLines(paths)).places
                 = [i \in 1 .. Len(paths) |-> Append(paths[i], "compile")]

OutlineAlwaysReadsBack == [][OutlineReadsBack]_vars

(* Every test is reported and the command ends, though compilers may hang:   *)
(* the tests waiting for them, queued or not, time out.                      *)
CommandsEnd == (phase # "start") ~> (phase \in {"refused", "prepared", "kept", "finished"})

(* What the README promises: "Artifacts for fixtures with unexpected         *)
(* failures are preserved for debugging". A test that timed out is a failed  *)
(* test as well.                                                             *)
FailuresKeepTheirArtifacts ==
  phase = "finished" =>
    \A t \in Tests :
      verdict[t] \in {"failed", "timedout"} /\ compile[t[1]] \in Exited =>
        disk[t[1]].holds # "absent"
================================================================================
