------------------------------- MODULE Discovery -------------------------------
(***************************************************************************)
(* Which files of a project are tests (crates/rjest-discovery). A path is  *)
(* the sequence of its names from the root of the file system; a pattern   *)
(* is a name, and Matched says which paths it matches.                     *)
(***************************************************************************)
EXTENDS Sequences, SequencesExt

CONSTANTS
  Scripts,       \* file names with an extension of JavaScript or TypeScript
  TestNames,     \* those that end in .test or .spec before the extension
  Matched        \* globs and regular expressions: pattern -> paths

\* DEFAULT_TEST_MATCH stands for its two globs, which are never compiled.
DefaultMatch == {<<"defaultTestMatch">>}

Pruned == {".git", ".rjest-cache", "base", "node_modules", "target"}

Below(path, directory) ==
  Len(directory) < Len(path) /\ SubSeq(path, 1, Len(directory)) = directory

MatchesAny(patterns, path) == \E r \in patterns : path \in Matched[r]

IsDefaultTest(path) ==
  /\ Last(path) \in Scripts
  /\ Last(path) \in TestNames \/ \E i \in 1 .. Len(path) - 1 : path[i] = "__tests__"

\* Matcher::is_test of a project's testMatch and testRegex.
IsTest(match, regex, path) ==
  \/ IF match = DefaultMatch THEN IsDefaultTest(path) ELSE MatchesAny(match, path)
  \/ MatchesAny(regex, path)

\* should_descend, which is asked of the root as well: nothing is found below
\* a root that is called base or target.
Reached(path, root) ==
  Below(path, root) /\ \A i \in Len(root) .. Len(path) - 1 : i = 0 \/ path[i] \notin Pruned

\* The tests that a walk from root finds.
Walk(p, root, present) ==
  {f \in present : Reached(f, root) /\ ~MatchesAny(p.ignored, f) /\ IsTest(p.match, p.regex, f)}

Found(tests) == [error |-> "none", tests |-> tests]
NotFound(error) == [error |-> error, tests |-> {}]

\* discover (exact) and discover_patterns: no input is every test below the
\* roots; an exact input is a test, a directory to walk or an error.
Discover(p, inputs, exact, present, directories) ==
  LET all == UNION {Walk(p, root, present) : root \in p.roots}
      One(f) == IF f \in present
                THEN {g \in {f} : ~MatchesAny(p.ignored, g) /\ IsTest(p.match, p.regex, g)}
                ELSE Walk(p, f, present)
  IN CASE exact /\ inputs # {} ->
            IF inputs \subseteq present \cup directories
            THEN Found(UNION {One(f) : f \in inputs})
            ELSE NotFound("MissingExplicitPath")
       [] ~(p.roots \subseteq directories) /\ ~(exact /\ inputs # {}) -> NotFound("Walk")
       [] OTHER -> Found(IF inputs = {} THEN all ELSE {f \in all : MatchesAny(inputs, f)})
=============================================================================
