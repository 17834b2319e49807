------------------------------ MODULE FixtureFiles ------------------------------
(* The fixture tree of test-contracts as the runner and the orchestrator read *)
(* it: which directories are fixtures, which of them a command line selects,  *)
(* and in which order they run.                                               *)
(*                                                                            *)
(* A tree maps each directory to the test files in it, the number of its      *)
(* .compact sources and what its test modules define. A filter is the set of  *)
(* the paths that contain it: a directory, or one of its two test files.      *)
EXTENDS Naturals, Sequences, FiniteSets, SequencesExt

CONSTANTS
  Dirs,          \* fixture directories, in the order of their paths
  SlowDirs       \* the directories below a slow/ path segment

ASSUME DirsAreListed == Dirs \in Seq(ToSet(Dirs))
ASSUME SlowAreDirs == SlowDirs \subseteq ToSet(Dirs)

TestPhase == {"compile", "runtime"}
TestResult == {"pass", "fail"}

(* A file the runner recognises by its name. One below an ignored directory,  *)
(* such as the .build of an earlier run, is not looked at.                    *)
FixtureTestFile == [phase : TestPhase, result : TestResult, ignored : BOOLEAN]

DirInfo ==
  [files : SUBSET FixtureTestFile, contracts : 0 .. 2,
   defines : [TestPhase -> TestPhase \cup {"nothing"}], expectedError : BOOLEAN]

FilesOf(tree, dir, phase) ==
  {f \in tree[dir].files : f.phase = phase /\ ~f.ignored}

HasTest(tree, dir, phase) == FilesOf(tree, dir, phase) # {}

ResultOf(tree, dir, phase) ==
  IF HasTest(tree, dir, phase) THEN (CHOOSE f \in FilesOf(tree, dir, phase) : TRUE).result
  ELSE "none"

------------------------------------------------------------------------------
DiscoveredFixtures(tree) ==
  {dir \in ToSet(Dirs) : \E phase \in TestPhase : HasTest(tree, dir, phase)}

(* One directory with two compile or two runtime tests fails the discovery of *)
(* them all.                                                                  *)
Discoverable(tree) ==
  \A dir \in ToSet(Dirs), phase \in TestPhase : Cardinality(FilesOf(tree, dir, phase)) <= 1

(* A test module registers itself under the phase its file is named for, or   *)
(* its import throws; a module without a default definition is refused too.   *)
LoadsDefinition(tree, dir, phase) == tree[dir].defines[phase] = phase

HasContract(tree, dir) == tree[dir].contracts = 1

IsSlowFixture(dir) == dir \in SlowDirs

------------------------------------------------------------------------------
Targets(dir) == {<<dir, "fixture">>, <<dir, "compile">>, <<dir, "runtime">>}

MatchesFilters(target, filters) == \E filter \in filters : target \in filter

(* Mutant: a filter on a test file is not looked at.                          *)
CleanedFixturesByDirectory(tree, filters) ==
  {dir \in DiscoveredFixtures(tree) : filters = {} \/ MatchesFilters(<<dir, "fixture">>, filters)}

(* The selection the runner cleans before it starts Vitest.                   *)
CleanedFixtures(tree, filters) ==
  {dir \in DiscoveredFixtures(tree) :
     \/ filters = {}
     \/ MatchesFilters(<<dir, "fixture">>, filters)
     \/ \E phase \in TestPhase : HasTest(tree, dir, phase) /\ MatchesFilters(<<dir, phase>>, filters)}

(* The selection the orchestrator makes for itself: a runtime test is run     *)
(* when it, or its directory, is named; its compile test always comes along.  *)
IncludeAll(dir, filters) == filters = {} \/ MatchesFilters(<<dir, "fixture">>, filters)

PhaseSelected(tree, dir, phase, filters) ==
  HasTest(tree, dir, phase) /\ MatchesFilters(<<dir, phase>>, filters)

IncludeRuntime(tree, dir, filters) ==
  /\ HasTest(tree, dir, "runtime")
  /\ IncludeAll(dir, filters) \/ PhaseSelected(tree, dir, "runtime", filters)

SelectedFixtures(tree, filters) ==
  {dir \in DiscoveredFixtures(tree) :
     \/ IncludeAll(dir, filters)
     \/ \E phase \in TestPhase : PhaseSelected(tree, dir, phase, filters)}

Selectable(tree, dir, filters) ==
  /\ HasTest(tree, dir, "compile")
  /\ IncludeRuntime(tree, dir, filters) => ResultOf(tree, dir, "compile") = "pass"

Prepared(tree, dir) == HasContract(tree, dir) /\ LoadsDefinition(tree, dir, "compile")

(* The orchestrator registers tests only when every selected fixture is in    *)
(* order and there is at least one.                                           *)
Registrable(tree, filters) ==
  /\ Discoverable(tree)
  /\ \A dir \in SelectedFixtures(tree, filters) : Selectable(tree, dir, filters) /\ Prepared(tree, dir)
  /\ SelectedFixtures(tree, filters) # {}

Place(dir) == CHOOSE i \in DOMAIN Dirs : Dirs[i] = dir

(* Mutant: all fixtures in the order of their paths.                          *)
OrderByPath(left, right) == Place(left) < Place(right)

(* Fixtures below slow/ last, each part in the order of the paths: whether    *)
(* one fixture comes before another.                                          *)
OrderExecutionFixtures(left, right) ==
  IF IsSlowFixture(left) = IsSlowFixture(right) THEN Place(left) < Place(right)
  ELSE IsSlowFixture(right)

(* The tests of the selected fixtures, and their order: all compile tests     *)
(* before the first runtime test.                                             *)
Registered(tree, filters) ==
  {test \in SelectedFixtures(tree, filters) \X TestPhase :
     test[2] = "runtime" => IncludeRuntime(tree, test[1], filters)}

RegisteredBefore(left, right) ==
  IF left[2] = right[2] THEN OrderExecutionFixtures(left[1], right[1])
  ELSE left[2] = "compile"

------------------------------------------------------------------------------
(* The words of the runner's command line. A word that is no option is a      *)
(* filter, unless it follows one of the options known to take a value.        *)
IsOption(word) == word.is # "filter"

TakesNext(words, i) ==
  words[i].is = "valued" /\ i < Len(words) /\ ~IsOption(words[i + 1])

RefusedArgs(words) == \E i \in 1 .. Len(words) : words[i].is = "--config"

PrepareArtifacts(words) == \E i \in 1 .. Len(words) : words[i].is = "--prepare-artifacts"

FiltersOf(words) ==
  {words[i].paths : i \in {j \in 1 .. Len(words) :
     ~IsOption(words[j]) /\ ~(j > 1 /\ TakesNext(words, j - 1))}}
================================================================================
