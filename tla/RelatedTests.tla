------------------------------ MODULE RelatedTests ------------------------------
(***************************************************************************)
(* The tests of one project that are related to changed files: the inverse *)
(* traversal of the module graph in crates/rjest-dependency. A round of    *)
(* related_tests adds the modules that depend on the last round's modules; *)
(* it must reach every test that a change can affect, through chains and   *)
(* cycles, and end.                                                        *)
(***************************************************************************)
EXTENDS FiniteSets

CONSTANTS
  Files,         \* paths, of modules, tests and snapshots
  SnapshotOf     \* snapshot_test_path: snapshot file -> the test that owns it

ASSUME RelatedAssumption ==
  /\ IsFiniteSet(Files)
  /\ DOMAIN SnapshotOf \subseteq Files
  /\ \A s \in DOMAIN SnapshotOf : SnapshotOf[s] \in Files

VARIABLES
  search,        \* "idle", "expanding" or "done"
  graph,         \* DependencyGraph.modules: module -> resolved dependencies
  complete,      \* FALSE: the custom resolver is asynchronous only
  candidates,    \* the discovered tests of the project
  seeds,         \* changed files and the tests of changed snapshots
  frontier,      \* changed: the modules of the last round
  visited,       \* modules of any round
  related,       \* the tests selected
  instrumented   \* changed_coverage_paths; Files where the code has None

relatedVars ==
  <<search, graph, complete, candidates, seeds, frontier, visited, related, instrumented>>

RelatedTypeOK ==
  /\ search \in {"idle", "expanding", "done"}
  /\ DOMAIN graph \subseteq Files
  /\ \A m \in DOMAIN graph : graph[m] \subseteq Files
  /\ complete \in BOOLEAN
  /\ candidates \subseteq Files
  /\ seeds \subseteq Files
  /\ frontier \subseteq Files
  /\ visited \subseteq Files
  /\ related \subseteq Files
  /\ instrumented \subseteq Files

RelatedInit ==
  /\ search = "idle"
  /\ graph = [m \in {} |-> {}]
  /\ complete = TRUE
  /\ candidates = {} /\ seeds = {} /\ frontier = {} /\ visited = {} /\ related = {}
  /\ instrumented = {}
-----------------------------------------------------------------------------
\* Plausible mistakes, shown by TLC to break RelatedIsExact and InvocationEnds.

\* The dependents of one round only.
Expand_Once ==
  /\ search = "expanding"
  /\ LET inverse == {m \in DOMAIN graph \ visited : graph[m] \cap frontier # {}}
     IN /\ visited' = visited \cup inverse
        /\ related' = related \cup (inverse \cap candidates)
        /\ frontier' = {}
        /\ search' = "done"
  /\ UNCHANGED <<graph, complete, candidates, seeds, instrumented>>

\* The modules of earlier rounds not left out: a cycle of imports never ends.
Expand_Revisiting ==
  /\ search = "expanding"
  /\ LET inverse == {m \in DOMAIN graph : graph[m] \cap frontier # {}}
     IN /\ visited' = visited \cup inverse
        /\ related' = related \cup (inverse \cap candidates)
        /\ frontier' = IF inverse = {} THEN frontier ELSE inverse
        /\ search' = IF inverse = {} THEN "done" ELSE "expanding"
  /\ UNCHANGED <<graph, complete, candidates, seeds, instrumented>>
-----------------------------------------------------------------------------
\* DependencyGraph::build: the modules found below the roots with what the
\* bridge resolves their imports to. A file that does not exist is not resolved;
\* a path that modulePathIgnorePatterns names is not visited, and no edge leads
\* to it.
BuildGraph(modules, imports, ignored, present) ==
  [m \in modules \ ignored |-> (imports[m] \cap present) \ ignored]

\* The tests of changed snapshots are changed.
Seeds(changes, tests) ==
  changes \cup ({SnapshotOf[s] : s \in changes \cap DOMAIN SnapshotOf} \cap tests)

\* changed_coverage_paths: changed files and what changed tests import.
CoveragePaths(changes, tests, g) ==
  changes \cup UNION {g[t] : t \in changes \cap tests \cap DOMAIN g}

\* related_tests and changed_coverage_paths are called. An incomplete graph
\* selects every test and no coverage filter.
StartSearch(changes, tests, g, whole) ==
  /\ graph' = g
  /\ complete' = whole
  /\ candidates' = tests
  /\ seeds' = Seeds(changes, tests)
  /\ frontier' = seeds'
  /\ visited' = {}
  /\ related' = IF whole THEN seeds' \cap tests ELSE tests
  /\ instrumented' = IF whole THEN CoveragePaths(changes, tests, g) ELSE Files
  /\ search' = IF whole THEN "expanding" ELSE "done"

\* One turn of the loop.
Expand ==
  /\ search = "expanding"
  /\ LET inverse == {m \in DOMAIN graph \ visited : graph[m] \cap frontier # {}}
     IN /\ visited' = visited \cup inverse
        /\ related' = related \cup (inverse \cap candidates)
        /\ frontier' = IF inverse = {} THEN frontier ELSE inverse
        /\ search' = IF inverse = {} THEN "done" ELSE "expanding"
  /\ UNCHANGED <<graph, complete, candidates, seeds, instrumented>>

\* A search on its own: any graph, any changes, any tests.
RelatedNext ==
  \/ /\ search = "idle"
     /\ \E modules, changes, tests \in SUBSET Files, whole \in BOOLEAN :
          \E g \in [modules -> SUBSET Files] : StartSearch(changes, tests, g, whole)
  \/ Expand

RelatedSpec == RelatedInit /\ [][RelatedNext]_relatedVars /\ WF_relatedVars(Expand)
-----------------------------------------------------------------------------
\* A set that holds the seeds and, with a module, everything that imports it.
Upward(C) ==
  /\ seeds \subseteq C
  /\ \A m \in DOMAIN graph : graph[m] \cap C # {} => m \in C

\* What a change can affect: the least such set.
Affected == {f \in Files : \A C \in SUBSET Files : Upward(C) => f \in C}

\* A finished search selects the tests a change can affect and no other; one
\* that cannot know the graph selects them all ("rather than risk a false
\* negative", DependencyGraph::related_tests).
RelatedIsExact ==
  search = "done" => related = IF complete THEN candidates \cap Affected ELSE candidates

\* The least set closed under dependents is what the rounds have reached.
SearchIsSound ==
  search # "idle" /\ complete =>
    /\ related = candidates \cap (seeds \cup visited)
    /\ frontier \subseteq seeds \cup visited
    /\ \A C \in SUBSET Files : Upward(C) => visited \subseteq C
    /\ \A m \in DOMAIN graph :
         graph[m] \cap ((seeds \cup visited) \ frontier) # {} => m \in visited
    /\ search = "done" => Upward(seeds \cup visited)
=============================================================================
