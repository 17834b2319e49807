------------------------------- MODULE MCFixtures -------------------------------
(* An instance of Fixtures for TLC: three normal fixtures and two slow ones, *)
(* of which a tree holds some.                                               *)
EXTENDS Fixtures

CONSTANTS a, b, c, s, u

MCDirs == <<a, b, s, c, u>>
MCSlowDirs == {s, u}
MCPathOf == [d \in {a, b, c, s, u} |->
  CASE d = a -> <<"primitives", "a">>
    [] d = b -> <<"primitives", "bytes", "b">>
    [] d = c -> <<"stdlib", "c">>
    [] d = s -> <<"primitives", "slow", "s">>
    [] d = u -> <<"stdlib", "slow", "u">>]

TestFile(p, result) == [phase |-> p, result |-> result, ignored |-> FALSE]
Pass(p) == TestFile(p, "pass")
Fail(p) == TestFile(p, "fail")

Defined == [p \in TestPhase |-> p]

Fixture(files, expectedError) ==
  [files |-> files, contracts |-> 1, defines |-> Defined, expectedError |-> expectedError]

NoFixture == [files |-> {}, contracts |-> 0, defines |-> Defined, expectedError |-> FALSE]
Stray == [NoFixture EXCEPT !.files = {[Pass("compile") EXCEPT !.ignored = TRUE]}]

Both == {Pass("compile"), Pass("runtime")}
TreeOf(fixtures) == [d \in ToSet(MCDirs) |-> IF d \in DOMAIN fixtures THEN fixtures[d] ELSE NoFixture]

Normal == TreeOf(a :> Fixture(Both, FALSE) @@ b :> Fixture({Fail("compile")}, TRUE) @@ u :> Stray)
Many == TreeOf(a :> Fixture({Pass("compile")}, FALSE) @@ b :> Fixture({Fail("compile")}, FALSE)
               @@ c :> Fixture({Pass("compile")}, FALSE))
Slow == TreeOf(a :> Fixture({Fail("compile")}, FALSE) @@ u :> Fixture({Pass("compile"), Fail("runtime")}, TRUE))
Slows == TreeOf(c :> Fixture({Pass("compile")}, FALSE) @@ s :> Fixture({Pass("compile")}, FALSE)
                @@ u :> Fixture({Pass("compile")}, FALSE))
Misnamed == TreeOf(a :> [Fixture(Both, FALSE) EXCEPT !.defines["runtime"] = "compile"]
                   @@ b :> [Fixture({Pass("compile")}, FALSE) EXCEPT !.defines["compile"] = "nothing"])
Orphan == TreeOf(a :> Fixture({Pass("runtime")}, FALSE) @@ b :> Fixture({Pass("compile")}, FALSE))
Contradictory == TreeOf(a :> Fixture({Fail("compile"), Pass("runtime")}, FALSE)
                        @@ s :> [Fixture({Pass("compile")}, FALSE) EXCEPT !.contracts = 2])
Twice == TreeOf(a :> Fixture({Pass("compile"), Fail("compile")}, FALSE))

MCTrees == {Normal, Many, Slow, Slows, Misnamed, Orphan, Contradictory, Twice}

Filter(paths) == [is |-> "filter", paths |-> paths]
Word(is) == [is |-> is]

MCCommandLines ==
  {<<>>, <<Word("--prepare-artifacts")>>, <<Word("flag"), Word("--config")>>,
   <<Word("valued"), Filter({}), Filter(Targets(a) \cup Targets(s))>>,
   <<Filter({<<d, "runtime">> : d \in ToSet(MCDirs)}), Word("flag")>>,
   <<Filter({<<a, "compile">>, <<u, "compile">>}), Word("valued"), Word("flag"), Filter(Targets(b))>>,
   <<Filter({})>>}

MCEarlierOutput == {Output("built", "earlier")}
================================================================================
