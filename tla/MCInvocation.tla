------------------------------ MODULE MCInvocation ------------------------------
\* Two projects below one root: a has two tests of one directory, b has one. Every
\* scenario varies a part of one base: the configuration, the changes, the snapshot
\* files, the coverage or the end of the run.
EXTENDS Invocation

CONSTANTS k, old

\* Paths.
W == <<"w">>
A == <<"w", "a">>
B == <<"w", "b">>
TestX == <<"w", "a", "x.test.js">>
TestZ == <<"w", "a", "z.test.js">>
TestY == <<"w", "b", "y.test.js">>
LibA == <<"w", "a", "lib.js">>
LibB == <<"w", "b", "lib.js">>
SnapX == <<"w", "a", "__snapshots__", "x.test.js.snap">>

MCFiles == {TestX, TestZ, TestY, LibA, LibB, SnapX}
MCSuites == {TestX, TestZ, TestY}
MCSnapshotOf == [f \in {SnapX} |-> TestX]
MCFolder == [s \in MCSuites |-> Front(s) \o <<"__snapshots__">>]
MCForeign == {}
MCNames == STRING
MCScripts == {"x.test.js", "z.test.js", "y.test.js", "lib.js"}
MCTestNames == {"x.test.js", "z.test.js", "y.test.js"}
MCMatched == (<<"libs">> :> {LibA, LibB}) @@ (<<"tests">> :> {TestX, TestZ, TestY})
               @@ (<<"z">> :> {TestZ}) @@ (<<"b">> :> {TestY, LibB})

\* Configuration files.
Object(raw) == [is |-> "object", raw |-> raw]
Entry(path) == [is |-> "path", path |-> path]
Base == Append(W, "jest.config.js")
Own == Append(A, "jest.config.json")
Package == Append(B, "package.json")
Both == [projects |-> <<Entry(A), Entry(B)>>]

Tree == [directories |-> {<<>>, W, A, B, <<"tmp">>}, presets |-> [p \in {} |-> p], modern |-> TRUE,
         inline |-> [in |-> [displayName |-> "in", roots |-> {<<"a">>}], patient |-> [testTimeout |-> 9]],
         files |-> (Base :> Object(Both)) @@ (Own :> Object([displayName |-> "a"]))
                     @@ (Package :> Object(<<>>))]

Cli == [options |-> <<>>, all |-> FALSE, onlyChanged |-> FALSE, lastCommit |-> FALSE,
        ancestor |-> FALSE, since |-> FALSE, projects |-> <<>>, config |-> [is |-> "none"],
        select |-> {}, ignore |-> {}, inputs |-> {}, byPath |-> FALSE, findRelated |-> FALSE,
        related |-> {}, listTests |-> FALSE, passWithNoTests |-> FALSE, showConfig |-> FALSE,
        clearCache |-> FALSE, updateSnapshot |-> FALSE, ci |-> TRUE, coverage |-> FALSE,
        provider |-> "babel", reporters |-> <<>>, badThreshold |-> FALSE, output |-> "none"]

Git == [repository |-> TRUE, work |-> [f \in MCFiles |-> "same"], head |-> {}, ancestor |-> {},
        since |-> {}, removed |-> {}, fails |-> {}]

Imports == (TestX :> {LibA}) @@ (TestZ :> {TestX}) @@ (TestY :> {LibB}) @@ (LibA :> {})
             @@ (LibB :> {LibA})
Cycle == (TestX :> {LibA}) @@ (TestZ :> {LibA}) @@ (TestY :> {LibB}) @@ (LibA :> {TestX})
           @@ (LibB :> {LibB})

Point(counter, line, id) == [counter |-> counter, line |-> line, id |-> id]
CodeA == {Point("statements", 1, 1), Point("statements", 1, 2), Point("statements", 2, 3),
          Point("functions", 2, 1), Point("branches", 2, 1), Point("branches", 2, 2)}
CodeB == {Point("statements", 1, 1), Point("statements", 2, 2)}
Code == (LibA :> CodeA) @@ (LibB :> CodeB)
Loaded == (TestX :> (LibA :> {Point("statements", 1, 1)}))
            @@ (TestZ :> (LibA :> CodeA \ {Point("statements", 1, 1), Point("branches", 2, 2)}))
            @@ (TestY :> ((LibB :> {}) @@ (LibA :> {})))

Usual == [tree |-> Tree, cli |-> Cli, dir |-> W, temp |-> <<"tmp">>, home |-> <<"home">>,
          git |-> Git, modules |-> MCFiles \ {SnapX}, imports |-> Imports, ignored |-> {},
          unresolved |-> {}, syncResolver |-> TRUE, locked |-> {}, snapshots |-> [s \in MCSuites |-> Missing],
          from |-> NoPatterns, uncovered |-> {}, setup |-> {},
          points |-> <<Code, Code>>, hits |-> Loaded, failing |-> {}, processor |-> FALSE]

\* Options in every place they can be given.
Raws == {<<>>, [setupFiles |-> <<"own">>, transform |-> [js |-> "own"], testTimeout |-> 1,
                cacheDirectory |-> <<"..", "cache">>, bail |-> 2],
         [testRegex |-> {<<"tests">>}, onlyChanged |-> TRUE], [testMatch |-> {<<"libs">>}]}
Presets == {<<>>, [setupFiles |-> <<"shared">>, transform |-> [js |-> "shared", ts |-> "shared"],
                   testTimeout |-> 2, bail |-> 3, rootDir |-> [anchor |-> "token", names |-> <<"b">>]]}
Told == {<<>>, [setupFiles |-> <<"told">>, testTimeout |-> 3, bail |-> 1, cacheDirectory |-> <<"c">>],
         [testRegex |-> {<<"tests">>}, roots |-> {<<>>}], [testMatch |-> {<<"tests">>}]}

WithFile(path, content) == [Usual EXCEPT !.tree.files = (path :> content) @@ @,
                                         !.cli.showConfig = TRUE]

\* The configuration of a in its package.json.
InPackage(content) ==
  [Usual EXCEPT !.tree.files = (Append(A, "package.json") :> content) @@
                                 [f \in {Base, Package} |-> Tree.files[f]],
                !.cli.showConfig = TRUE]

Configured ==
  {[WithFile(Own, Object([preset |-> "shared"] @@ raw)) EXCEPT
      !.tree.presets = [p \in {"shared"} |-> preset], !.cli.options = options, !.cli.all = all] :
     raw \in Raws, preset \in Presets, options \in Told, all \in BOOLEAN}

\* What can be wrong with configuration files, and the ways to name them.
Misconfigured ==
  {InPackage(content) : content \in
     {[is |-> "broken"], [is |-> "nothing"], [is |-> "reference", to |-> <<"..", "b", "package.json">>],
      [is |-> "reference", to |-> <<"package.json">>], [is |-> "reference", to |-> <<"absent.json">>],
      [is |-> "reference", to |-> <<"notes.txt">>]}}
  \cup {WithFile(Own, content) : content \in
     {[is |-> "broken"], Object([preset |-> "absent"]), Object([roots |-> {<<"absent">>}]),
      Object([rootDir |-> [anchor |-> "relative", names |-> <<"..", "a">>]]),
      Object([rootDir |-> [anchor |-> "token", names |-> <<"absent">>]]),
      Object([displayName |-> ""]), Object([unknown |-> {"typo"}]), Object([invalid |-> {"typo"}]),
      Object([testRegex |-> {<<"z">>}, testMatch |-> {<<"z">>}])}}
  \cup {WithFile(path, content) : path \in {Append(A, "package.json"), Append(A, "jest.config.mts")},
                                  content \in {Object(<<>>), [is |-> "nothing"], [is |-> "broken"]}}
  \cup {WithFile(Base, Object([projects |-> list])) : list \in
          {<<Entry(A), Entry(Own)>>, <<Entry(Append(A, "notes.txt"))>>, <<Entry(LibA)>>,
           <<[is |-> "inline", name |-> "in"], Entry(B)>>}}
  \cup {[WithFile(Append(A, "notes.txt"), Object(<<>>)) EXCEPT !.cli.projects = projects,
                                                              !.cli.config = file] :
          projects \in {<<>>, <<<<"a">>>>, <<<<"a">>, <<"b">>>>, <<<<"absent">>>>,
                        <<<<"a", "notes.txt">>, <<"a", "notes.txt">>>>},
          file \in {[is |-> "none"], [is |-> "path", path |-> <<"b", "package.json">>],
                       [is |-> "inline", name |-> "patient"]}}
  \cup {[Usual EXCEPT !.tree.files = [f \in {} |-> {}]], [Usual EXCEPT !.cli.findRelated = TRUE]}

\* Changes while the user works on, and the other ways to name files.
Changed ==
  {[Usual EXCEPT !.cli.onlyChanged = TRUE, !.git.work = [Git.work EXCEPT ![f] = x, ![g] = y],
                 !.imports = imports] :
     f \in {LibA, SnapX}, g \in {TestZ, LibB}, x \in {"modified", "stagedAndModified"},
     y \in {"same", "untracked", "deleted"}, imports \in {Imports, Cycle}}

History ==
  LET Since == [Usual EXCEPT !.git.head = {LibB}, !.git.ancestor = {LibA}, !.git.since = {TestZ},
                             !.git.work = [Git.work EXCEPT ![TestY] = "staged"]]
  IN {[Since EXCEPT !.cli.lastCommit = TRUE], [Since EXCEPT !.cli.ancestor = TRUE],
      [Since EXCEPT !.cli.since = TRUE, !.cli.coverage = TRUE],
      [Since EXCEPT !.cli.since = TRUE, !.git.fails = {"range"}],
      [Since EXCEPT !.cli.onlyChanged = TRUE, !.git.repository = FALSE],
      [Since EXCEPT !.cli.onlyChanged = TRUE, !.cli.options = [roots |-> {<<"absent">>}]],
      [Since EXCEPT !.cli.onlyChanged = TRUE, !.cli.all = TRUE],
      [Since EXCEPT !.cli.onlyChanged = TRUE, !.syncResolver = FALSE],
      [Since EXCEPT !.cli.onlyChanged = TRUE, !.unresolved = {2}],
      [Since EXCEPT !.cli.onlyChanged = TRUE, !.unresolved = {1}, !.ignored = {LibB}],
      [Since EXCEPT !.cli.ancestor = TRUE, !.ignored = {TestX}],
      [Usual EXCEPT !.cli.onlyChanged = TRUE, !.processor = TRUE]}

ByName ==
  {[Usual EXCEPT !.cli.findRelated = TRUE, !.cli.related = files, !.cli.coverage = TRUE,
                 !.cli.select = select] :
     files \in {{LibA}, {LibB, TestZ}, {SnapX}}, select \in {{}, {"a"}}}
  \cup {[Usual EXCEPT !.cli.inputs = inputs, !.cli.byPath = byPath, !.cli.ignore = ignore,
                      !.cli.listTests = list, !.cli.passWithNoTests = pass] :
          inputs \in {{}, {TestZ}, {A}, {LibA}, {<<"absent">>}}, byPath \in {TRUE},
          ignore \in {{}, {"a"}}, list \in BOOLEAN, pass \in BOOLEAN}
  \cup {[Usual EXCEPT !.cli.inputs = {p}] : p \in {<<"z">>, <<"b">>}}

\* Snapshot files that two tests of one directory write at once.
Stored ==
  {[Usual EXCEPT !.cli.ci = mode # "new", !.cli.updateSnapshot = mode = "all",
                 !.cli.inputs = {<<"tests">>},
                 !.cli.ignore = {"unnamed"},
                 !.snapshots = [s \in MCSuites |-> IF s = TestX THEN x
                                                   ELSE IF s = TestZ THEN z ELSE Missing]] :
     mode \in Updates,
     x \in {Missing, [header |-> "v1", keys |-> {k}], [header |-> "broken", keys |-> {}]},
     z \in {Missing, [header |-> "legacy", keys |-> {k}], [header |-> "other", keys |-> {old}]}}

\* Thresholds on what the three tests hit together.
Group(prefix, glob, rules) == [prefix |-> prefix, glob |-> glob, rules |-> rules, valid |-> TRUE]
Groups ==
  {<<>>, [global |-> Group({}, {}, [statements |-> 6000, lines |-> 5000, functions |-> 10000])],
   [global |-> Group({}, {}, [statements |-> -2, branches |-> 5000])],
   [global |-> Group({}, {}, [lines |-> 1]), a |-> Group({LibA}, {}, [lines |-> 10000])],
   [all |-> Group({}, {LibA, LibB}, [statements |-> 1])],
   [a |-> Group({LibA}, {}, [lines |-> 10000, branches |-> 5001])],
   [b |-> Group({LibB}, {}, [branches |-> 10001])], [absent |-> Group({}, {}, <<>>)],
   [a |-> [Group({LibA}, {}, <<>>) EXCEPT !.valid = FALSE]]}

Measured ==
  {[Usual EXCEPT !.cli.coverage = TRUE, !.cli.options = [coverageThreshold |-> groups],
                 !.cli.reporters = <<"json", "text">>, !.from = from] :
     groups \in Groups, from \in {NoPatterns, [positive |-> {<<"libs">>}, negative |-> {<<"b">>}]}}
  \cup {[Usual EXCEPT !.cli.coverage = TRUE, !.points = <<Code, (LibA :> CodeB) @@ Code>>],
        [Usual EXCEPT !.cli.coverage = TRUE, !.cli.reporters = <<"lcov", "unknown", "html">>],
        [Usual EXCEPT !.cli.coverage = TRUE, !.cli.badThreshold = TRUE],
        [Usual EXCEPT !.cli.coverage = TRUE, !.cli.badThreshold = TRUE, !.processor = TRUE],
        [Usual EXCEPT !.cli.coverage = TRUE, !.cli.provider = "other"],
        [Usual EXCEPT !.cli.coverage = TRUE, !.cli.provider = "v8", !.setup = {LibA},
                      !.uncovered = {<<"b">>}]}

\* How a run can end.
Ended ==
  {[Usual EXCEPT !.failing = failing, !.cli.output = output,
                 !.cli.options = [testFailureExitCode |-> code]] :
     failing \in {{}, {TestX}, {TestX, TestY}}, output \in {"none", "file", "unwritable"},
     code \in {3, 256}}

\* Cache directories, by a project and by the command line.
Cached ==
  {[WithFile(Own, Object([cacheDirectory |-> own])) EXCEPT !.cli.showConfig = FALSE,
                 !.cli.clearCache = TRUE, !.cli.options = options, !.locked = locked] :
     own \in {<<"cache">>, <<>>, <<"..">>}, options \in {<<>>, [cacheDirectory |-> <<"cache">>]},
     locked \in {{}, {Append(A, "cache")}}}

Outside ==
  {[WithFile(Own, Object([cacheDirectory |-> <<"..">>])) EXCEPT !.dir = A, !.cli.showConfig = FALSE,
                 !.cli.clearCache = TRUE, !.cli.options = options] :
     options \in {<<>>, [cacheDirectory |-> <<"..">>], [cacheDirectory |-> <<"cache">>]}}

MCScenarios == Configured \cup Misconfigured \cup Changed \cup History \cup ByName \cup Stored
                 \cup Measured \cup Ended \cup Cached

MCClearing == Cached \cup Outside
=============================================================================
