---------------------------- MODULE FixtureReporter ----------------------------
(* The outline the fixture reporter prints: a header for each directory the  *)
(* last printed case was not in, then the case one level deeper. A case is   *)
(* its phase and the path of its fixture directory, a sequence of names.     *)
EXTENDS Integers, Sequences, FiniteSets, SequencesExt

Header(depth, part) == [is |-> "header", indent |-> depth, part |-> part]
Leaf(depth, leaf) == [is |-> "leaf", indent |-> depth, part |-> leaf]

(* The leaf of a case is its fixture directory and file name.                *)
FixtureDisplay(phase, path) ==
  [groupParts |-> <<phase>> \o Front(path), leafPath |-> <<Last(path), phase>>]

(* The summary of slow compiles leaves the phase out.                        *)
SlowSummaryDisplay(path) == [groupParts |-> Front(path), leafPath |-> <<Last(path), "compile">>]

(* Mutant: counts the positions that agree, also after one that does not.    *)
AgreeingPositions(left, right) ==
  Cardinality({i \in 1 .. Len(left) : i <= Len(right) /\ left[i] = right[i]})

CommonPrefixLength(left, right) ==
  LET agree == {n \in 0 .. Len(left) : n <= Len(right) /\ \A i \in 1 .. n : left[i] = right[i]}
  IN CHOOSE n \in agree : \A m \in agree : m <= n

HeaderLines(groupParts, previous) ==
  LET common == CommonPrefixLength(groupParts, previous)
  IN [i \in 1 .. Len(groupParts) - common |-> Header(common + i - 1, groupParts[common + i])]

CaseLines(display, previous) ==
  HeaderLines(display.groupParts, previous)
    \o <<Leaf(Len(display.groupParts), display.leafPath)>>

SlowSummaryLines(paths) ==
  LET upTo[i \in 0 .. Len(paths)] ==
        IF i = 0 THEN [lines |-> <<>>, last |-> <<>>]
        ELSE LET display == SlowSummaryDisplay(paths[i])
             IN [lines |-> upTo[i - 1].lines \o CaseLines(display, upTo[i - 1].last),
                 last |-> display.groupParts]
  IN upTo[Len(paths)].lines

------------------------------------------------------------------------------
(* How the outline is read. The open headers are a path: a line at depth d   *)
(* closes what was open from there down, a header opens its directory, and a *)
(* leaf belongs to the headers still open.                                   *)
OpenAfter(open, line) ==
  SubSeq(open, 1, line.indent) \o (IF line.is = "header" THEN <<line.part>> ELSE <<>>)

PlaceOf(open, line) == SubSeq(open, 1, line.indent) \o line.part

Reading(open, lines) ==
  LET upTo[i \in 0 .. Len(lines)] ==
        IF i = 0 THEN [open |-> open, places |-> <<>>]
        ELSE [open |-> OpenAfter(upTo[i - 1].open, lines[i]),
              places |-> IF lines[i].is = "leaf"
                         THEN Append(upTo[i - 1].places, PlaceOf(upTo[i - 1].open, lines[i]))
                         ELSE upTo[i - 1].places]
  IN upTo[Len(lines)]
================================================================================
