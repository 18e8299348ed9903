------------------------------- MODULE Invocation -------------------------------
(***************************************************************************)
(* One invocation of the program from its arguments to its exit code, run  *)
(* of main.rs: the configuration, the selection of tests, the run of each  *)
(* project with the snapshot files it shares with others, coverage and the *)
(* result. Watch mode, the bridges, sharding and bail are TestCycle's and  *)
(* WatchLoop's; an invocation here has none of them.                       *)
(*                                                                         *)
(* given holds all that an invocation finds and is told; the scenarios of  *)
(* a model say what it may be.                                             *)
(***************************************************************************)
EXTENDS Selection, SnapshotFiles, Coverage

CONSTANT Scenarios    \* the values of given to consider

IsScenario(g) ==
  /\ IsTree(g.tree)
  /\ g.dir \in Paths
  /\ g.cli.projects \in Seq(Paths)
  /\ g.cli.config \in [is : {"none"}] \cup [is : {"path"}, path : Paths]
                        \cup [is : {"inline"}, name : DOMAIN g.tree.inline]
  /\ Option(g.cli.options, "testFailureExitCode", 1) \in Int
  /\ AreThresholds(Option(g.cli.options, "coverageThreshold", <<>>))
  /\ g.cli.related \subseteq Files
  /\ g.syncResolver \in BOOLEAN
  /\ g.git.work \in [Files -> WorkStates]
  /\ g.git.head \cup g.git.ancestor \cup g.git.since \subseteq Files
  /\ g.snapshots \in [Suites -> Contents]
  /\ \A i \in DOMAIN g.points : \A f \in DOMAIN g.points[i] : IsFiniteSet(g.points[i][f])

ASSUME ScenarioAssumption == \A g \in Scenarios : IsScenario(g)

VARIABLES
  place,         \* where the invocation is
  todo,          \* contexts not yet run, or cache directories not yet cleared
  cleared,       \* directories removed by --clearCache
  current,       \* the context whose tests the pool runs
  first,         \* the test the pool was given first
  crashed,       \* tests of the pool whose worker gave no result
  results,       \* context and test -> result and coverage
  merged,        \* AggregatedResult.coverage_map
  written,       \* files of coverage reporters and of --outputFile
  unmet,         \* CoverageReport.threshold_failures
  exit           \* the exit code; Running before it is known

Running == -1

runVars == <<todo, cleared, current, first, crashed, results, merged, written, unmet>>
vars == <<given, config, selectionVars, relatedVars, snapshotVars, place, runVars, exit>>

Places == {"load", "clear", "select", "projects", "pool", "reports", "emit", "over"}

Outcomes == {"passed", "failed", "error"}

cli == given.cli

InvocationTypeOK ==
  /\ place \in Places
  /\ SelectionTypeOK /\ RelatedTypeOK /\ SnapshotTypeOK
  /\ crashed \subseteq Suites
  /\ \A r \in DOMAIN results :
       /\ r[1] \in Contexts /\ r[2] \in Files
       /\ results[r].outcome \in Outcomes
       /\ DOMAIN results[r].coverage \subseteq Files
  /\ exit \in {Running} \cup 0 .. 255
  /\ place = "over" <=> exit # Running

\* snapshot_update and ci_mode
Update == IF cli.updateSnapshot THEN "all" ELSE IF cli.ci THEN "none" ELSE "new"

NoResults == [r \in {} |-> {}]

Init ==
  /\ given \in Scenarios
  /\ config = Error("none")
  /\ SelectionInit
  /\ SnapshotInit(Update, given.snapshots)
  /\ place = "load"
  /\ todo = {} /\ cleared = {}
  /\ current = 0 /\ first = <<>> /\ crashed = {}
  /\ results = NoResults
  /\ merged = NoRecords
  /\ written = {} /\ unmet = {}
  /\ exit = Running

Exit(code) == place' = "over" /\ exit' = code

\* main: an error of run.
Fail == Exit(1)

\* The status of a process that Rust's handler of stack overflows has aborted.
Aborted == 134

\* Plausible mistake, shown by TLC to break InvocationTypeOK: the exit code left
\* to the runtime.
Finish_Unset(success) == place' = "over" /\ UNCHANGED exit

\* The status that a process which exits with a code has: its lowest byte.
Status(code) == code % 256

\* main: what run has returned, a success or not.
Finish(success) == Exit(IF success THEN 0 ELSE Status(config.options.testFailureExitCode))

Continue(at) == place' = at /\ UNCHANGED exit

otherVars == <<given, selectionVars, relatedVars, snapshotVars>>
-----------------------------------------------------------------------------
\* The cache directories of all projects, each once.
CacheDirectories ==
  {Executed(config)[i].options.cacheDirectory : i \in DOMAIN Executed(config)}

\* run, up to its first decision.
LoadConfiguration ==
  /\ place = "load"
  /\ config' = IF cli.findRelated /\ cli.related = {} THEN Error("NoPaths") ELSE Effective
  /\ IF config'.error = "StackOverflow" THEN Exit(Aborted) /\ UNCHANGED todo
     ELSE IF config'.error # "none" THEN Fail /\ UNCHANGED todo
     ELSE IF cli.showConfig THEN Exit(0) /\ UNCHANGED todo
     ELSE IF cli.clearCache THEN Continue("clear") /\ todo' = CacheDirectories'
     ELSE Continue("select") /\ UNCHANGED todo
  /\ UNCHANGED <<otherVars, cleared, current, first, crashed, results, merged, written, unmet>>

\* clear_configured_caches compares what was configured, names as they are.
SafeToClear(directory) ==
  /\ directory # <<>>
  /\ directory \notin {given.dir, given.temp, given.home}
  /\ \A i \in DOMAIN Executed(config) : directory # Executed(config)[i].root

\* One directory in the order of their paths, which the model leaves open;
\* remove_dir_all follows "..", whatever was compared, and fails where something
\* may not be removed; that there is nothing to remove is no error.
ClearCache(directory) ==
  /\ place = "clear" /\ directory \in todo
  /\ IF SafeToClear(directory) /\ Normalized(directory) \notin given.locked
     THEN /\ cleared' = cleared \cup {Normalized(directory)}
          /\ todo' = todo \ {directory}
          /\ Continue(place)
     ELSE Fail /\ UNCHANGED <<cleared, todo>>
  /\ UNCHANGED <<otherVars, config, current, first, crashed, results, merged, written, unmet>>

CachesCleared ==
  /\ place = "clear" /\ todo = {}
  /\ Exit(0)
  /\ UNCHANGED <<otherVars, config, runVars>>

\* active_related_test_selection, step by step.
Select ==
  /\ place = "select" /\ SelectStep
  /\ Continue(place)
  /\ UNCHANGED <<given, config, snapshotVars, runVars>>

StageMeanwhile(f) ==
  /\ place = "select" /\ Stage(f)
  /\ UNCHANGED <<given, config, place, exit, snapshotVars, runVars>>

\* An error of Git, of discovery or of a dependency graph ends the invocation.
SelectionError ==
  /\ place = "select" /\ SelectionFails
  /\ Fail
  /\ UNCHANGED <<otherVars, config, runVars>>

\* The tests of a context, each one a unit of the run.
Units == {u \in Contexts \X Files : u[2] \in TestsOf(u[1]).tests}

\* run_test_cycle, up to the first test: selected_project_run of all projects,
\* emit_test_list and finish_no_test_cycle.
Plan ==
  /\ place = "select" /\ SelectionDone
  /\ \/ (\E i \in Contexts : TestsOf(i).error # "none") /\ Fail /\ UNCHANGED todo
     \/ /\ \A i \in Contexts : TestsOf(i).error = "none"
        /\ IF cli.listTests THEN Exit(0) /\ UNCHANGED todo
           ELSE IF Units # {} THEN Continue("projects") /\ todo' = Units
           ELSE (IF NoTestsAllowed THEN Continue("emit") ELSE Fail) /\ UNCHANGED todo
  /\ UNCHANGED <<otherVars, config, cleared, current, first, crashed, results, merged,
                 written, unmet>>

Collecting == cli.coverage \/ config.options.collectCoverage

\* coverage_runner_settings of a context. The run says what to collect from,
\* the project what to ignore.
SettingsOf(i) ==
  LET p == Executed(config)[i]
      own == Discover(p, {}, FALSE, Present, given.tree.directories).tests
      below == {f \in Present : BelowRoots(f, i)}
      sources == Sources(config.root, given.from, given.uncovered, own \cup given.setup, below)
  IN Settings(Collecting, given.from # NoPatterns, sources, filters[i], own, FindRelated, Files)

Waiting == IF place = "projects" THEN todo ELSE {}

\* A group of adjacent tests of one project is given to the pool; in which
\* order the sequencer has put them is TestCycle's.
StartProject(i, tests, f) ==
  /\ place = "projects"
  /\ f \in tests
  /\ {i} \X tests \subseteq todo
  /\ IF cli.provider \in {"babel", "v8"}
     THEN /\ StartPool(tests)
          /\ todo' = todo \ ({i} \X tests)
          /\ current' = i /\ first' = f /\ crashed' = {}
          /\ Continue("pool")
     ELSE Fail /\ UNCHANGED <<snapshotVars, todo, current, first, crashed>>
  /\ UNCHANGED <<given, config, selectionVars, relatedVars, cleared, results, merged, written,
                 unmet>>

\* run_file of one test. A worker without a result has kept its snapshots.
RunSuite(s) ==
  /\ place = "pool" /\ SnapshotStep(s)
  /\ crashed' = IF step[s] = "running" /\ step'[s] = "done" THEN crashed \cup {s} ELSE crashed
  /\ Continue(place)
  /\ UNCHANGED <<given, config, selectionVars, relatedVars, todo, cleared, current, first,
                 results, merged, written, unmet>>

\* What the worker reports: the files it has loaded, as the transformers of its
\* project instrument them, and for the first test the sources no test loads.
Instrumented(s) ==
  LET settings == SettingsOf(current)
      code == Option(given.points, current, NoRecords)
      loaded == {f \in DOMAIN given.hits[s] \cap DOMAIN code \cap settings.filter :
                   f \notin given.setup \cup {s} /\ ~MatchesAny(given.uncovered, f)}
      alone == IF s = first /\ cli.provider = "babel"
               THEN (settings.sources \cap DOMAIN code) \ loaded ELSE {}
  IN IF ~settings.enabled \/ s \in crashed THEN NoRecords
     ELSE [f \in loaded \cup alone |->
             IF f \in loaded THEN [points |-> code[f], hit |-> given.hits[s][f] \cap code[f]]
             ELSE Unhit(code[f])]

\* execute_project_runs takes the results of the pool, or its error.
EndProject ==
  /\ place = "pool" /\ SnapshotsSettled
  /\ IF Broken # {} THEN Fail /\ UNCHANGED results
     ELSE /\ Continue("projects")
          /\ results' = Over(results,
               [u \in {current} \X {s \in Suites : step[s] = "done"} |->
                  [outcome |-> IF u[2] \in crashed THEN "error"
                               ELSE IF u[2] \in given.failing THEN "failed" ELSE "passed",
                   coverage |-> Instrumented(u[2])]])
  /\ UNCHANGED <<otherVars, config, todo, cleared, current, first, crashed, merged, written, unmet>>

Thresholds == config.options.coverageThreshold

-----------------------------------------------------------------------------
\* Plausible mistakes, each shown by TLC to break ExitTellsTheTruth: what was
\* found wrong does not reach the exit code.

\* Thresholds that are printed only.
BaseSuccess_ThresholdsIgnored == \A u \in DOMAIN results : results[u].outcome = "passed"

\* A reporter that does not exist passed over.
WriteReports_Lenient ==
  /\ place = "reports"
  /\ IF cli.badThreshold THEN Fail /\ UNCHANGED <<written, unmet>>
     ELSE /\ written' = written \cup Reports(cli.reporters).files
          /\ unmet' = Failures([g \in {n \in DOMAIN Thresholds : Thresholds[n].valid} |->
                                 Thresholds[g]], merged)
          /\ Continue("emit")
  /\ UNCHANGED <<otherVars, config, todo, cleared, current, first, crashed, results, merged>>

\* Coverage that cannot be merged left out.
Merged_Swallowing ==
  /\ place = "projects" /\ todo = {}
  /\ LET units == SetToSeq(DOMAIN results)
     IN merged' = MergeMaps([n \in DOMAIN units |-> results[units[n]].coverage]).map
  /\ Continue(IF Collecting THEN "reports" ELSE "emit")
  /\ UNCHANGED <<otherVars, config, todo, cleared, current, first, crashed, results, written, unmet>>
-----------------------------------------------------------------------------
\* merge_coverage_maps at the end of execute_project_runs.
Merged ==
  /\ place = "projects" /\ todo = {}
  /\ LET units == SetToSeq(DOMAIN results)
         all == MergeMaps([n \in DOMAIN units |-> results[units[n]].coverage])
     IN IF all.error # "none" THEN Fail /\ UNCHANGED merged
        ELSE merged' = all.map /\ Continue(IF Collecting THEN "reports" ELSE "emit")
  /\ UNCHANGED <<otherVars, config, todo, cleared, current, first, crashed, results, written, unmet>>

\* coverage_report. Thresholds that are no JSON are noticed before the reports
\* are written, and those that are no objects behind them.
WriteReports ==
  /\ place = "reports"
  /\ LET reports == Reports(cli.reporters)
         invalid == \E g \in DOMAIN Thresholds : ~Thresholds[g].valid
     IN IF cli.badThreshold THEN Fail /\ UNCHANGED <<written, unmet>>
        ELSE /\ written' = written \cup reports.files
             /\ IF reports.error # "none" \/ invalid THEN Fail /\ UNCHANGED unmet
                ELSE unmet' = Failures(Thresholds, merged) /\ Continue("emit")
  /\ UNCHANGED <<otherVars, config, todo, cleared, current, first, crashed, results, merged>>

\* AggregatedResult::is_success and the thresholds.
BaseSuccess == unmet = {} /\ \A u \in DOMAIN results : results[u].outcome = "passed"

\* process_test_results: a configured module decides, or fails.
Answers == IF given.processor THEN {"success", "failure", "error"}
           ELSE {IF BaseSuccess THEN "success" ELSE "failure"}

\* emit_results writes the output file before anything is printed.
EmitResults ==
  /\ place = "emit"
  /\ \E answer \in Answers :
       IF answer = "error" \/ cli.output = "unwritable" THEN Fail /\ UNCHANGED written
       ELSE /\ written' = written \cup ({cli.output} \ {"none"})
            /\ Finish(answer = "success")
  /\ UNCHANGED <<otherVars, config, todo, cleared, current, first, crashed, results, merged, unmet>>

Step ==
  \/ \E d \in todo : ClearCache(d)
  \/ CachesCleared
  \/ Select \/ SelectionError \/ Plan
  \/ \E i \in {u[1] : u \in Waiting}, tests \in SUBSET Suites, f \in Suites :
       StartProject(i, tests, f)
  \/ \E s \in Suites : RunSuite(s)
  \/ EndProject \/ Merged \/ WriteReports \/ EmitResults

Next == LoadConfiguration \/ Step \/ \E f \in Files : StageMeanwhile(f)

\* The program runs on: every call it waits for returns. Loading is no part of
\* it, as a file may lead to itself; and the user need not stage anything.
Spec == Init /\ [][Next]_vars /\ WF_vars(Step)
-----------------------------------------------------------------------------
\* The options of a configuration, when those in told are heard from the command
\* line: they go before what the project says, that before its preset and that
\* before the default.
Prevails(c, told) ==
  LET local == c.from.local
      preset == c.from.preset
      Said(o, default) == Option(local, o, Option(preset, o, default))
  IN /\ c.match = {} \/ c.regex = {}
     /\ {"testMatch", "testRegex"} \cap told = {} =>
          /\ c.regex = Said("testRegex", {})
          /\ c.match = IF "testRegex" \in DOMAIN local \cup DOMAIN preset THEN {}
                       ELSE Said("testMatch", DefaultMatch)
     /\ cli.all => ~c.options.onlyChanged
     /\ \A o \in (told \cap Options) \ {"onlyChanged", "cacheDirectory"} :
          c.options[o] = cli.options[o]
     /\ \A o \in Lists \ told :
          c.options[o] = Option(preset, o, <<>>) \o Option(local, o, <<>>)
     /\ \A o \in Maps \ told :
          /\ DOMAIN c.options[o] =
               DOMAIN Option(preset, o, <<>>) \cup DOMAIN Option(local, o, <<>>)
          /\ \A key \in DOMAIN c.options[o] :
               c.options[o][key] = Option(Option(local, o, <<>>), key,
                                          Option(Option(preset, o, <<>>), key, "none"))
     /\ \A o \in Options \ (told \cup Lists \cup Maps \cup {"onlyChanged", "cacheDirectory"}) :
          c.options[o] = Said(o, Defaults[o])

\* What the command line says of an option goes before what a project says of
\* it, that before its preset and that before the default; a list of the preset
\* comes first and a key of a map is the project's. No project is given an
\* option of the run, and nobody has both kinds of test patterns
\* (merge_preset, normalize and the overrides of main.rs).
OptionsPrevail ==
  place # "load" /\ config.error = "none" =>
    /\ Prevails(config, DOMAIN cli.options)
    /\ \A n \in DOMAIN config.projects :
         Prevails(config.projects[n], DOMAIN cli.options \ OfRun)

\* The tests of a project that a change below its own roots can affect: those
\* that lead to it along their imports.
AffectedTests(i) ==
  LET modules == ({f \in Present : \E r \in Roots(i) : Below(f, r)} \cap given.modules)
                   \ given.ignored
      imports == BuildGraph(modules, given.imports, given.ignored, Present)
      Closed(C) == \A m \in C \cap modules : imports[m] \subseteq C
      Reach(t) == {f \in Files : \A C \in SUBSET Files : t \in C /\ Closed(C) => f \in C}
      found == Candidates(i).tests
      targets == Seeds(Wanted(i), found)
  IN IF Wanted(i) = {} THEN {}
     ELSE IF given.syncResolver THEN {t \in found : Reach(t) \cap targets # {}} ELSE found

\* Thresholds, from what each test file has hit and by no merge or percentage:
\* of the points in a part of the files as many are hit by some test as asked. A
\* part without points is hit in full, and global asks nothing of no files.
ThresholdsMet ==
  LET files == UNION {DOMAIN results[u].coverage : u \in DOMAIN results}
      Records(f) == {results[u].coverage[f] :
                       u \in {w \in DOMAIN results : f \in DOMAIN results[w].coverage}}
      Points(f) == UNION {r.points : r \in Records(f)}
      Hit(f) == UNION {r.hit : r \in Records(f)}
      Of(points, m) == IF m = "lines" THEN {p.line : p \in {q \in points : q.counter = "statements"}}
                       ELSE {p \in points : p.counter = m}
      All(part, m) == Cardinality(UNION {{f} \X Of(Points(f), m) : f \in part})
      Covered(part, m) == Cardinality(UNION {{f} \X Of(Hit(f), m) : f \in part})
      Meets(part, rules) ==
        \A m \in DOMAIN rules \cap Metrics :
          IF rules[m] < 0 THEN All(part, m) - Covered(part, m) <= -rules[m]
          ELSE IF All(part, m) = 0 THEN rules[m] <= 10000
          ELSE Covered(part, m) * 10000 >= rules[m] * All(part, m)
      others == DOMAIN Thresholds \ {"global"}
      Mine(g) == files \cap (Thresholds[g].prefix \cup Thresholds[g].glob)
      left == files \ UNION {Mine(g) : g \in others}
  IN \A g \in DOMAIN Thresholds :
       LET rules == Thresholds[g].rules IN
       IF g = "global" THEN files = {} \/ Meets(IF left = {} THEN files ELSE left, rules)
       ELSE /\ Mine(g) # {}
            /\ IF Mine(g) \cap Thresholds[g].prefix # {} THEN Meets(Mine(g), rules)
               ELSE \A f \in Mine(g) : Meets({f}, rules)

\* What is said of the thresholds is what the tests have hit.
ThresholdsAreJudged ==
  place = "emit" /\ Collecting /\ DOMAIN results # {} => (unmet = {} <=> ThresholdsMet)

\* The results that are given out: of every test the run was asked for in every
\* selected project; with a selection by changes that is every test the changes
\* can affect.
ResultsAreWhole ==
  place = "emit" =>
    DOMAIN results = UNION {{i} \X (IF Narrowed THEN AffectedTests(i) ELSE Candidates(i).tests) :
                              i \in Contexts}

\* What --clearCache was to remove is gone, and all of it might be removed.
CachesAreGone ==
  \A d \in CacheDirectories :
    SafeToClear(d) /\ Normalized(d) \in cleared \ given.locked

\* Every command that Git was to be asked has been answered, the tests of every
\* selected project were found, and so was the graph of every project that has
\* changes.
SelectionHasWorked ==
  /\ ChangedSelection /\ ~FindRelated /\ given.git.repository =>
       \A n \in 1 .. Len(Queries) : Queries[n] \notin given.git.fails
  /\ \A i \in Contexts :
       /\ Candidates(i).error = "none"
       /\ Narrowed /\ Wanted(i) # {} => i \notin given.unresolved

\* No two tests have instrumented one file in different ways.
CoverageAgrees ==
  \A u, v \in DOMAIN results :
    \A f \in DOMAIN results[u].coverage \cap DOMAIN results[v].coverage :
      results[u].coverage[f].points = results[v].coverage[f].points

\* Every reporter that was asked for exists and has written its files, and every
\* threshold can be judged.
ReportsAreWritten ==
  /\ \A n \in DOMAIN cli.reporters :
       cli.reporters[n] \in Reporters /\ FilesOf(cli.reporters[n]) \subseteq written
  /\ ~cli.badThreshold
  /\ \A g \in DOMAIN Thresholds : Thresholds[g].valid

\* An exit code of success is never that of an error: nothing that the
\* invocation had to do has failed. Unless a module decides, or the code for a
\* failure is 0, it is not that of failed tests or missed thresholds either.
SuccessIsTold ==
  place = "over" /\ exit = 0 =>
    /\ config.error = "none" /\ Broken = {}
    /\ cli.clearCache /\ ~cli.showConfig => CachesAreGone
    /\ ~(cli.showConfig \/ cli.clearCache) => SelectionHasWorked
    /\ ~(cli.showConfig \/ cli.clearCache \/ cli.listTests) =>
         /\ DOMAIN results = Units /\ CoverageAgrees
         /\ IF DOMAIN results = {} THEN NoTestsAllowed
            ELSE cli.provider \in {"babel", "v8"} /\ (Collecting => ReportsAreWritten)
         /\ cli.output # "unwritable" /\ {cli.output} \ {"none"} \subseteq written
         /\ ~given.processor /\ Status(config.options.testFailureExitCode) # 0 =>
              /\ \A u \in DOMAIN results : results[u].outcome = "passed"
              /\ Collecting /\ DOMAIN results # {} => ThresholdsMet

\* A run that says it was a success has run every test it was asked for in
\* every selected project, each has passed and the thresholds are met; and no
\* error of any part of it has been swallowed on the way (run, emit_results and
\* main).
ExitTellsTheTruth ==
  /\ ThresholdsAreJudged
  /\ ResultsAreWhole
  /\ SuccessIsTold

\* Every invocation that has a configuration ends with an exit code.
InvocationEnds == place # "load" ~> place = "over"

\* docs/adr/0039-sequencer-cache-controls.md:46-47: --clearCache does not expose
\* "repository-wide recursive deletion". No project lies in a directory removed.
NoRootIsCleared ==
  \A d \in cleared : \A i \in DOMAIN Executed(config) :
    LET root == Executed(config)[i].root IN root # d /\ ~Below(root, d)
=============================================================================
