----------------------------- MODULE Configuration -----------------------------
(***************************************************************************)
(* The configuration of an invocation: which files hold it, how presets    *)
(* and projects are merged, and what command-line options override         *)
(* (crates/rjest-config and the overrides of main.rs).                     *)
(*                                                                         *)
(* The options stand for their kinds: one that is inherited from a preset, *)
(* a list that a preset is put in front of, a map that is merged by key,   *)
(* the pair of test patterns, and the options a project does not share     *)
(* with the run. Values are what the scenarios of a model make them.       *)
(***************************************************************************)
EXTENDS Discovery, Integers, FiniteSets, TLC

CONSTANTS
  Names,         \* names of files and directories
  MaxLoads       \* bound: files and objects that one leads to, one after another

ASSUME ConfigurationAssumption ==
  /\ {"package.json", "jest.config.js", "jest.config.json", "jest.config.mts"} \subseteq Names
  /\ MaxLoads \in Nat

VARIABLE given
\* What an invocation finds. given.tree: directories, files (path -> what it
\* holds), presets, the objects of --config and of lists of projects by the
\* names they have in the model, and whether the installed Jest supports
\* jest.config.mts.
\* given.cli: the options of the command line. given.dir: where it runs.

Lists == {"setupFiles"}
Maps == {"transform"}

Defaults ==
  [bail |-> 0, testFailureExitCode |-> 1, testTimeout |-> 5000, passWithNoTests |-> FALSE,
   collectCoverage |-> FALSE, onlyChanged |-> FALSE, cacheDirectory |-> <<"tmp", "rjest">>,
   coverageThreshold |-> <<>>, setupFiles |-> <<>>, transform |-> <<>>]

Options == DOMAIN Defaults

\* resolve_from and absolute: names behind a directory, ".." taken literally.
Walked(directory, name) ==
  IF name # ".." THEN Append(directory, name)
  ELSE IF directory = <<>> THEN directory ELSE Front(directory)

Normalized(path) ==
  LET upTo[i \in 0 .. Len(path)] == IF i = 0 THEN <<>> ELSE Walked(upTo[i - 1], path[i])
  IN upTo[Len(path)]

Resolve(directory, names) == Normalized(directory \o names)

Error(kind) == [error |-> kind]

\* The entries of f, and those of g that f has none for.
Over(f, g) == [k \in DOMAIN f \cup DOMAIN g |-> IF k \in DOMAIN f THEN f[k] ELSE g[k]]
-----------------------------------------------------------------------------
\* Plausible mistakes, each shown by TLC to break OptionsPrevail.

\* A preset's list put behind the project's own.
Merge_Appending(preset, raw) ==
  [o \in (DOMAIN preset \ {"rootDir", "preset"}) \cup DOMAIN raw |->
     IF o \notin DOMAIN raw THEN preset[o]
     ELSE IF o \notin DOMAIN preset THEN raw[o]
     ELSE IF o \in Lists THEN raw[o] \o preset[o]
     ELSE IF o \in Maps THEN Over(raw[o], preset[o])
     ELSE raw[o]]
-----------------------------------------------------------------------------
ConfigFiles == DOMAIN given.tree.files

Content(path) == given.tree.files[path]

ConfigNames ==
  {"jest.config.js", "jest.config.json"} \cup (IF given.tree.modern THEN {"jest.config.mts"} ELSE {})

\* The configuration files of a directory and its package.json.
NamedIn(directory) == {Append(directory, n) : n \in ConfigNames} \cap ConfigFiles
PackageIn(directory) == {Append(directory, "package.json")} \cap ConfigFiles

\* A package.json is a candidate when it holds a configuration. Two candidates
\* are an error, and without one the package.json is taken as it is.
Candidate(named, package) ==
  LET all == named \cup {f \in package : Content(f).is # "nothing"}
  IN IF \E f \in package : Content(f).is = "broken" THEN Error("Json")
     ELSE IF Cardinality(all) > 1 THEN Error("MultipleConfigs")
     ELSE [error |-> "none", path |-> CHOOSE f \in named \cup package : all # {} => f \in all]

\* find_config: the nearest directory with a configuration file or a
\* package.json.
FindConfig(directory) ==
  LET above == {SubSeq(directory, 1, i) : i \in 0 .. Len(directory)}
      held == {d \in above : NamedIn(d) \cup PackageIn(d) # {}}
  IN IF held = {} THEN Error("MissingConfig")
     ELSE LET nearest == CHOOSE d \in held : \A other \in held : Len(other) <= Len(d)
          IN Candidate(NamedIn(nearest), PackageIn(nearest))

\* project_config_path: a directory is searched, a file is taken.
ConfigOf(path) ==
  IF path \in given.tree.directories THEN FindConfig(path)
  ELSE IF path \in ConfigFiles THEN [error |-> "none", path |-> path]
  ELSE Error("MissingConfig")

\* load_project_path looks for nothing above a directory or beside a file.
DirectoryOf(path) == IF path \in given.tree.directories THEN path ELSE Front(path)

\* is_jest_config_path: by the extension.
IsConfigPath(path) == Last(path) \notin {"notes.txt"}

\* merge_preset: what the project says itself goes before what the preset says.
Merge(preset, raw) ==
  [o \in (DOMAIN preset \ {"rootDir", "preset"}) \cup DOMAIN raw |->
     IF o \notin DOMAIN raw THEN preset[o]
     ELSE IF o \notin DOMAIN preset THEN raw[o]
     ELSE IF o \in Lists THEN preset[o] \o raw[o]
     ELSE IF o \in Maps THEN Over(raw[o], preset[o])
     ELSE raw[o]]

Option(raw, o, default) == IF o \in DOMAIN raw THEN raw[o] ELSE default

\* normalize_test_patterns: a regular expression turns the default globs off.
Patterns(raw) ==
  [match |-> IF "testRegex" \in DOMAIN raw THEN {} ELSE Option(raw, "testMatch", DefaultMatch),
   regex |-> Option(raw, "testRegex", {})]

\* What a description of a project and what a tree can hold; options that stand
\* for themselves may have any value.
Paths == Seq(Names)

Anchors == [anchor : {"none"}] \cup [anchor : {"token", "relative"}, names : Paths]

Entries(tree) == [is : {"path"}, path : Paths] \cup [is : {"inline"}, name : DOMAIN tree.inline]

\* A threshold is a number: hundredths of a percent, or points when negative.
AreThresholds(groups) ==
  \A g \in DOMAIN groups : \A m \in DOMAIN groups[g].rules : groups[g].rules[m] \in Int

IsRaw(raw, tree) ==
  /\ Option(raw, "rootDir", [anchor |-> "none"]) \in Anchors
  /\ Option(raw, "projects", <<>>) \in Seq(Entries(tree))
  /\ Option(raw, "testFailureExitCode", 1) \in Int
  /\ AreThresholds(Option(raw, "coverageThreshold", <<>>))
  /\ \A o \in Lists : Option(raw, o, <<>>) \in Seq(STRING)

IsContent(held, tree) ==
  \/ held.is \in {"broken", "nothing"}
  \/ held.is = "reference" /\ held.to \in Paths
  \/ held.is = "object" /\ IsRaw(held.raw, tree)

IsTree(tree) ==
  /\ \A f \in DOMAIN tree.files : IsContent(tree.files[f], tree)
  /\ \A n \in DOMAIN tree.inline : IsRaw(tree.inline[n], tree)
  /\ \A p \in DOMAIN tree.presets : IsRaw(tree.presets[p], tree)

\* What can be wrong with the values of a project, in the order of normalize
\* before and after its projects are loaded.
ErrorBefore(raw) ==
  IF Option(raw, "unknown", {}) # {} THEN "UnsupportedFields"
  ELSE IF Option(raw, "displayName", "unnamed") = "" THEN "UnsupportedValue"
  ELSE "none"

ErrorAfter(raw, roots) ==
  IF ~(roots \subseteq given.tree.directories) THEN "MissingRoot"
  ELSE IF {"testMatch", "testRegex"} \subseteq DOMAIN raw THEN "ConflictingTestPatterns"
  ELSE IF Option(raw, "invalid", {}) # {} THEN "UnsupportedValue"
  ELSE "none"

\* The normalized options of a project, without its projects. from keeps what
\* it was made of.
Project(raw, root, roots, local, preset) ==
  [error |-> "none", root |-> root, roots |-> roots,
   name |-> Option(raw, "displayName", "unnamed"),
   match |-> Patterns(raw).match, regex |-> Patterns(raw).regex,
   ignored |-> Option(raw, "testPathIgnorePatterns", {}),
   options |-> [o \in Options |->
                  IF o = "cacheDirectory" /\ o \in DOMAIN raw THEN Resolve(root, raw[o])
                  ELSE Option(raw, o, Defaults[o])],
   projects |-> <<>>, from |-> [local |-> local, preset |-> preset]]

\* What is loaded: a file, found from a directory when no path is given, or an
\* object inside a list of projects, by the name it has in the model.
Requests ==
  [is : {"file"}, directory : Paths, path : Paths, expand : BOOLEAN]
    \cup [is : {"inline"}, name : DOMAIN given.tree.inline, parent : Paths, directory : Paths]

OfFile(directory, path, expand) ==
  [is |-> "file", directory |-> directory, path |-> path, expand |-> expand]

OfObject(name, parent, directory) ==
  [is |-> "inline", name |-> name, parent |-> parent, directory |-> directory]

\* The projects of a list so far, with the files they come from.
NoProjects == [error |-> "none", seen |-> {}, list |-> <<>>]

Add(acc, config, path) ==
  IF config.error # "none" THEN [acc EXCEPT !.error = config.error]
  ELSE [acc EXCEPT !.seen = @ \cup {path}, !.list = Append(@, config)]

\* load_project_path, of the file that was found. No two entries may lead to
\* one. load is what each request leads to.
AddFound(load, acc, found, path) ==
  IF found.error # "none" THEN [acc EXCEPT !.error = found.error]
  ELSE IF found.path \in acc.seen THEN [acc EXCEPT !.error = "DuplicateProject"]
  ELSE Add(acc, load[OfFile(DirectoryOf(path), found.path, FALSE)], found.path)

AddEntry(load, parent, directory, acc, e) ==
  IF acc.error # "none" THEN acc
  ELSE IF e.is = "inline" THEN Add(acc, load[OfObject(e.name, parent, directory)], <<>>)
  ELSE IF e.path \in ConfigFiles /\ ~IsConfigPath(e.path) THEN acc
  ELSE AddFound(load, acc, ConfigOf(e.path), e.path)

\* A list of projects, by normalize_projects and by load_project_paths: the
\* first error ends it, and a file that is no configuration is passed over.
LoadAll(load, entries, parent, directory) ==
  LET upTo[i \in 0 .. Len(entries)] ==
        IF i = 0 THEN NoProjects
        ELSE AddEntry(load, parent, directory, upTo[i - 1], entries[i])
  IN upTo[Len(entries)]

\* The options of the project itself, which are looked at behind its projects.
Complete(project, merged, all) ==
  IF all.error # "none" THEN Error(all.error)
  ELSE IF ErrorAfter(merged, project.roots) # "none"
       THEN Error(ErrorAfter(merged, project.roots))
  ELSE [project EXCEPT !.projects = all.list]

\* normalize, once the root and the preset are known.
NormalizeIn(load, root, raw, preset, merged, parent, directory) ==
  IF ErrorBefore(merged) # "none" THEN Error(ErrorBefore(merged))
  ELSE Complete(Project(merged, root, {Resolve(root, r) : r \in Option(merged, "roots", {<<>>})},
                        raw, preset),
                merged, LoadAll(load, Option(merged, "projects", <<>>), parent, directory))

RootOf(where, parent, relative) ==
  CASE where.anchor = "none" -> parent
    [] where.anchor = "token" -> Resolve(parent, where.names)
    [] where.anchor = "relative" -> Resolve(relative, where.names)

\* normalize: the root, the preset, the projects, then the project's own options.
Normalize(load, raw, parent, relative, directory) ==
  LET root == RootOf(Option(raw, "rootDir", [anchor |-> "none"]), parent, relative)
      preset == IF "preset" \in DOMAIN raw THEN given.tree.presets[raw.preset] ELSE <<>>
  IN IF root \notin given.tree.directories THEN Error("MissingRoot")
     ELSE IF "preset" \in DOMAIN raw /\ raw.preset \notin DOMAIN given.tree.presets
          THEN Error("NodeEvaluation")
     ELSE NormalizeIn(load, root, raw, preset, Merge(preset, raw), parent, directory)

\* load_internal, of the file that was named or found. A package.json may name
\* another file, and a child's own projects are not loaded.
LoadFound(load, found, directory, expand) ==
  LET home == Front(found.path)
      held == Content(found.path)
  IN IF found.error # "none" THEN found
     ELSE IF ~IsConfigPath(found.path) THEN Error("UnsupportedFormat")
     ELSE IF found.path \notin ConfigFiles THEN Error("Read")
     ELSE IF held.is = "broken" THEN Error("Json")
     ELSE IF held.is = "nothing" THEN Project(<<>>, home, {home}, <<>>, <<>>)
     ELSE IF held.is = "reference" THEN load[OfFile(directory, Resolve(home, held.to), expand)]
     ELSE Normalize(load, [o \in DOMAIN held.raw \ (IF expand THEN {} ELSE {"projects"}) |->
                             held.raw[o]],
                    home, home, directory)

\* load_internal and load_inline_json, with load for what they lead to.
LoadOne(load, request) ==
  IF request.is = "inline"
  THEN Normalize(load, given.tree.inline[request.name], request.parent, request.directory,
                 request.directory)
  ELSE LoadFound(load, IF request.path = <<>> THEN FindConfig(request.directory)
                       ELSE [error |-> "none", path |-> request.path],
                 request.directory, request.expand)

\* The program has no bound and follows a file that leads back to itself until
\* its stack is full.
LoadInternal[left \in 0 .. MaxLoads] ==
  [request \in Requests |->
     IF left = 0 THEN Error("StackOverflow") ELSE LoadOne(LoadInternal[left - 1], request)]

\* load_project_paths: one path keeps its own projects, of several the first
\* also stands for the run.
LoadPath(path, found) ==
  IF found.error # "none" THEN found
  ELSE LoadInternal[MaxLoads][OfFile(DirectoryOf(path), found.path, TRUE)]

Several(all) ==
  IF all.error # "none" THEN Error(all.error)
  ELSE IF all.list = <<>> THEN Error("NoProjects")
  ELSE [all.list[1] EXCEPT !.projects = all.list]

LoadPaths(paths) ==
  LET entries == [i \in DOMAIN paths |-> [is |-> "path", path |-> Resolve(given.dir, paths[i])]]
  IN IF Len(paths) = 1 THEN LoadPath(entries[1].path, ConfigOf(entries[1].path))
     ELSE Several(LoadAll(LoadInternal[MaxLoads], entries, given.dir, given.dir))

\* load_config: --config is JSON or a file.
LoadConfig(config) ==
  LoadInternal[MaxLoads][CASE config.is = "inline" -> OfObject(config.name, given.dir, given.dir)
                   [] config.is = "path" -> OfFile(given.dir, Resolve(given.dir, config.path), TRUE)
                   [] config.is = "none" -> OfFile(given.dir, <<>>, TRUE)]

\* load_execution_config: --projects replaces the projects of --config only.
Replaced(run, chosen) ==
  IF chosen.error # "none" THEN chosen
  ELSE IF run.error # "none" THEN run
  ELSE [run EXCEPT !.projects = IF chosen.projects = <<>> THEN <<chosen>> ELSE chosen.projects]

LoadExecution ==
  LET cli == given.cli
  IN IF cli.projects = <<>> THEN LoadConfig(cli.config)
     ELSE IF cli.config.is = "none" THEN LoadPaths(cli.projects)
     ELSE Replaced(LoadConfig(cli.config), LoadPaths(cli.projects))
-----------------------------------------------------------------------------
\* apply_cli_config_overrides. These options belong to the run: no project gets
\* them from the command line.
OfRun == {"bail", "testFailureExitCode"}

\* apply_global_execution_overrides, apply_discovery_overrides,
\* apply_transform_overrides and apply_cache_overrides: a list or map of the
\* command line replaces the merged one. A directory is taken below the root of
\* each project and is not normalized.
Overridden(c, options) ==
  [c EXCEPT
     !.roots = IF "roots" \in DOMAIN options THEN {c.root \o r : r \in options.roots} ELSE @,
     !.match = IF "testMatch" \in DOMAIN options THEN options.testMatch
               ELSE IF "testRegex" \in DOMAIN options /\ c.regex = {} /\ c.match = DefaultMatch
                    THEN {}
               ELSE @,
     !.regex = Option(options, "testRegex", @),
     !.ignored = Option(options, "testPathIgnorePatterns", @),
     !.options = [o \in Options |->
                    IF o \in OfRun \cup {"onlyChanged"} \/ o \notin DOMAIN options
                    THEN c.options[o]
                    ELSE IF o = "cacheDirectory" THEN c.root \o options[o] ELSE options[o]]]

\* apply_selection_overrides: the command line can only add to onlyChanged,
\* except that --all turns it off.
Selected(c, cli) ==
  [c EXCEPT !.options.onlyChanged =
     ~cli.all /\ (@ \/ cli.onlyChanged \/ cli.lastCommit \/ cli.ancestor \/ cli.since)]

Everywhere(c, cli) == Selected(Overridden(c, cli.options), cli)

\* The run itself and each of its projects. Projects of projects are never run.
Override(c, cli) ==
  LET run == Everywhere(c, cli)
  IN [run EXCEPT
        !.options = [o \in Options |-> IF o \in OfRun THEN Option(cli.options, o, @[o]) ELSE @[o]],
        !.projects = [i \in DOMAIN @ |-> Everywhere(@[i], cli)]]

\* execution_projects
Executed(c) == IF c.projects = <<>> THEN <<c>> ELSE c.projects

\* validate_cli_test_patterns
Exclusive(c) ==
  \A p \in {c} \cup ToSet(c.projects) : p.match = {} \/ p.regex = {}

\* run: what was loaded with the options of the command line.
Final(loaded) ==
  LET final == Override(loaded, given.cli)
  IN IF loaded.error # "none" THEN loaded
     ELSE IF ~Exclusive(final) THEN Error("ConflictingTestPatterns")
     ELSE final

\* The configuration an invocation works with.
Effective == Final(LoadExecution)
=============================================================================
