-------------------------------- MODULE Coverage --------------------------------
(***************************************************************************)
(* What a run says about coverage: which files are instrumented, how the   *)
(* counters of the test files are merged, and whether thresholds are met   *)
(* (crates/rjest-coverage, merge_coverage_maps of the runner and           *)
(* coverage_runner_settings of main.rs).                                   *)
(*                                                                         *)
(* An Istanbul record is abstracted to its points, the entries of its      *)
(* three maps with the lines they start on, and to the points whose count  *)
(* is not zero: counts are added with saturation, so that no sum is zero   *)
(* again. The source that reports render is left out.                      *)
(***************************************************************************)
EXTENDS Discovery, Integers, FiniteSets, TLC

Counters == {"statements", "functions", "branches"}
Metrics == Counters \cup {"lines"}

NoRecords == [f \in {} |-> {}]

\* The points that no test file has hit, as readInitialCoverage returns them.
Unhit(points) == [points |-> points, hit |-> {}]
-----------------------------------------------------------------------------
\* Plausible mistakes, each shown by TLC to break ExitTellsTheTruth.

\* The latest record of a file put in the place of the earlier one.
MergeFile_Latest(existing, incoming) == incoming
-----------------------------------------------------------------------------
\* merge_file_coverage of two records with the same maps.
MergeFile(existing, incoming) ==
  [points |-> existing.points, hit |-> existing.hit \cup incoming.hit]

\* One file that was instrumented in two ways is an error of the whole run.
AddCoverage(acc, map) ==
  LET known == DOMAIN acc.map \cap DOMAIN map
  IN IF acc.error # "none" THEN acc
     ELSE IF \E f \in known : acc.map[f].points # map[f].points
          THEN [acc EXCEPT !.error = "InvalidCoverage"]
     ELSE [acc EXCEPT !.map = [f \in DOMAIN acc.map \cup DOMAIN map |->
                                 IF f \in known THEN MergeFile(acc.map[f], map[f])
                                 ELSE IF f \in DOMAIN map THEN map[f] ELSE acc.map[f]]]

\* merge_coverage_maps, over the coverage of one test file after another.
MergeMaps(maps) ==
  LET upTo[i \in 0 .. Len(maps)] == IF i = 0 THEN [error |-> "none", map |-> NoRecords]
                                    ELSE AddCoverage(upTo[i - 1], maps[i])
  IN upTo[Len(maps)]

\* FileCoverage::summary: a line counts once, whatever starts on it, and is
\* covered when one of its statements is.
Summary(record) ==
  LET Of(points, counter) == {p \in points : p.counter = counter}
      LinesOf(points) == {p.line : p \in Of(points, "statements")}
      Sized(all, hit) == [total |-> Cardinality(all), covered |-> Cardinality(hit)]
  IN [m \in Metrics |->
        IF m = "lines" THEN Sized(LinesOf(record.points), LinesOf(record.hit))
        ELSE Sized(Of(record.points, m), Of(record.hit, m))]

\* Summary::add of a non-empty set of files, by combine_summaries.
Combined(map, files) ==
  LET all == [f \in files |-> Summary(map[f])]
  IN [m \in Metrics |-> [total |-> MapThenSumSet(LAMBDA f : all[f][m].total, files),
                         covered |-> MapThenSumSet(LAMBDA f : all[f][m].covered, files)]]
-----------------------------------------------------------------------------
NoPatterns == [positive |-> {}, negative |-> {}]

\* build_coverage_globs: without a positive pattern every file is meant.
Globbed(from, path) ==
  /\ from.positive = {} \/ MatchesAny(from.positive, path)
  /\ ~MatchesAny(from.negative, path)

\* discover_sources below the root of the run. Nothing below a directory called
\* coverage is a source.
Sources(root, from, ignored, excluded, present) ==
  {f \in present \ excluded :
     /\ Reached(f, root) /\ \A i \in Len(root) .. Len(f) - 1 : i = 0 \/ f[i] # "coverage"
     /\ Globbed(from, f)
     /\ ~MatchesAny(ignored, f)}

\* coverage_runner_settings of a project: the files to instrument and those to
\* instrument although no test loads them. everything is what a filter of None
\* lets through; a changed test is not a changed source.
Settings(wanted, configured, sources, changes, tests, findRelated, everything) ==
  LET narrowed == IF changes = everything THEN everything ELSE changes \ tests
      filter == IF configured THEN sources \cap narrowed ELSE narrowed
      unloaded == configured \/ (changes # everything /\ findRelated)
  IN IF wanted THEN [enabled |-> TRUE, filter |-> filter,
                     sources |-> IF unloaded THEN filter ELSE {}]
     ELSE [enabled |-> FALSE, filter |-> everything, sources |-> {}]
-----------------------------------------------------------------------------
\* Metric::percentage in hundredths of a percent, rounded down.
BasisPoints(metric) ==
  IF metric.total = 0 THEN 10000 ELSE (metric.covered * 10000) \div metric.total

\* check_threshold_group: a negative threshold is the largest number of points
\* that may stay uncovered.
Unmet(rules, summary) ==
  {m \in DOMAIN rules \cap Metrics :
     IF rules[m] < 0 THEN summary[m].total - summary[m].covered > -rules[m]
     ELSE BasisPoints(summary[m]) < rules[m]}

\* assign_threshold_files: the files whose path begins with the name of a group
\* and those it matches as a glob. What no group takes is left to global.
Named(group, files) == files \cap (group.prefix \cup group.glob)

Remaining(groups, files) ==
  LET rest == files \ UNION {Named(groups[g], files) : g \in DOMAIN groups \ {"global"}}
  IN IF rest = {} THEN files ELSE rest

\* evaluate_threshold_group: a directory is summed up, of a glob every file is
\* checked, and a group that names no file has failed. A path is not a glob of
\* other files as well.
GroupFailures(groups, g, map) ==
  LET files == DOMAIN map
      mine == IF g = "global" THEN Remaining(groups, files) ELSE Named(groups[g], files)
      rules == groups[g].rules
      unmet == IF g = "global" /\ files = {} THEN {}
               ELSE IF mine = {} THEN {"not found"}
               ELSE IF g = "global" \/ mine \cap groups[g].prefix # {}
                    THEN Unmet(rules, Combined(map, mine))
               ELSE UNION {Unmet(rules, Summary(map[f])) : f \in mine}
  IN {<<g, m>> : m \in unmet}

\* evaluate_thresholds
Failures(groups, map) == UNION {GroupFailures(groups, g, map) : g \in DOMAIN groups}

\* write_reports: one reporter after another, up to one that does not exist.
Reporters == {"json", "json-summary", "text", "text-summary", "lcov", "lcovonly",
              "clover", "html", "none"}

FilesOf(reporter) ==
  CASE reporter = "json" -> {"coverage-final.json"}
    [] reporter = "json-summary" -> {"coverage-summary.json"}
    [] reporter = "lcov" -> {"lcov.info", "index.html"}
    [] reporter = "lcovonly" -> {"lcov.info"}
    [] reporter = "clover" -> {"clover.xml"}
    [] reporter = "html" -> {"index.html"}
    [] reporter \in {"text", "text-summary", "none"} -> {}

Reports(reporters) ==
  LET unknown == {i \in DOMAIN reporters : reporters[i] \notin Reporters}
      written == {i \in DOMAIN reporters : \A j \in unknown : i < j}
  IN [error |-> IF unknown = {} THEN "none" ELSE "UnsupportedReporter",
      files |-> UNION {FilesOf(reporters[i]) : i \in written}]
=============================================================================
