------------------------------- MODULE Selection -------------------------------
(***************************************************************************)
(* Which tests an invocation runs: the projects that the command line      *)
(* names, the files Git calls changed, and for each project the tests that *)
(* are related to them (the selection functions of main.rs and             *)
(* git_changed_files_with_options of crates/rjest-dependency).             *)
(*                                                                         *)
(* Git is asked by up to three commands, one after another, while the user *)
(* works on: a file may be staged between two of them.                     *)
(***************************************************************************)
EXTENDS Configuration, RelatedTests

CONSTANT MaxStaged    \* bound: files staged while Git is asked

VARIABLES
  config,        \* the effective configuration, or an error
  work,          \* the state of each file in the working tree and the index
  staged,        \* files staged since the first query
  asked,         \* commands answered
  changed,       \* ChangedFiles.files
  context,       \* position of the project whose related tests are searched
  chosen,        \* tests_by_context
  filters        \* coverage_by_context; Files where the code has None

selectionVars == <<work, staged, asked, changed, context, chosen, filters>>

WorkStates ==
  {"same", "untracked", "modified", "deleted", "staged", "stagedAndModified"}

\* execution_projects and filter_projects: an unnamed project is never selected
\* by name and never ignored.
Chosen(p) ==
  /\ given.cli.select = {} \/ p.name \in given.cli.select
  /\ p.name \notin given.cli.ignore

Contexts == {i \in DOMAIN Executed(config) : Chosen(Executed(config)[i])}

Roots(i) == Executed(config)[i].roots

BelowRoots(path, i) == \E r \in Roots(i) : path = r \/ Below(path, r)

\* changed_selection_enabled, without watch mode.
ChangedSelection ==
  /\ ~given.cli.all
  /\ given.cli.inputs = {}
  /\ \/ given.cli.onlyChanged \/ given.cli.lastCommit \/ given.cli.ancestor \/ given.cli.since
     \/ config.options.onlyChanged

FindRelated == given.cli.findRelated

\* There is a RelatedTestSelection.
Narrowed == FindRelated \/ ChangedSelection

SelectionTypeOK ==
  /\ work \in [Files -> WorkStates]
  /\ staged \subseteq Files /\ changed \subseteq Files
  /\ asked \in 0 .. 3
  /\ \A i \in DOMAIN chosen : chosen[i] \subseteq Files /\ filters[i] \subseteq Files

SelectionInit ==
  /\ RelatedInit
  /\ work = given.git.work
  /\ staged = {} /\ changed = {}
  /\ asked = 0
  /\ context = 0
  /\ chosen = <<>> /\ filters = <<>>
-----------------------------------------------------------------------------
\* Plausible mistakes, each shown by TLC to break ChangesAreSeen.

\* The working tree asked only when nothing is staged.
Queries_IndexFirst ==
  IF given.cli.lastCommit THEN <<"commit">>
  ELSE (IF given.cli.ancestor \/ given.cli.since THEN <<"range">> ELSE <<>>)
         \o (IF \E f \in Files : work[f] = "staged" THEN <<"index">> ELSE <<"index", "tree">>)
-----------------------------------------------------------------------------
\* The commands of git_changed_files_with_options: --lastCommit asks for the
\* files of HEAD only.
Queries ==
  IF given.cli.lastCommit THEN <<"commit">>
  ELSE (IF given.cli.ancestor \/ given.cli.since THEN <<"range">> ELSE <<>>)
         \o <<"index", "tree">>

\* What Git answers. --changedFilesWithAncestor goes before --changedSince.
Answer(query) ==
  CASE query = "commit" -> given.git.head
    [] query = "range" -> IF given.cli.ancestor THEN given.git.ancestor ELSE given.git.since
    [] query = "index" -> {f \in Files : work[f] \in {"staged", "stagedAndModified"}}
    [] query = "tree" -> {f \in Files : work[f] \in {"untracked", "modified", "deleted",
                                                     "stagedAndModified"}}

\* One command, as long as there is a repository.
AskGit ==
  /\ ChangedSelection /\ ~FindRelated
  /\ given.git.repository
  /\ asked < Len(Queries) /\ Queries[asked + 1] \notin given.git.fails
  /\ asked' = asked + 1
  /\ changed' = changed \cup
       {f \in Answer(Queries[asked + 1]) : \E i \in Contexts : BelowRoots(f, i)}
  /\ UNCHANGED <<work, staged, context, chosen, filters, relatedVars>>

\* The user runs git add on a file between two commands.
Stage(f) ==
  /\ ChangedSelection /\ ~FindRelated
  /\ 0 < asked /\ asked < Len(Queries)
  /\ Cardinality(staged) < MaxStaged
  /\ work[f] \notin {"same", "staged"}
  /\ work' = [work EXCEPT ![f] = "staged"]
  /\ staged' = staged \cup {f}
  /\ UNCHANGED <<asked, changed, context, chosen, filters, relatedVars>>

GitAnswered == ~given.git.repository \/ asked = Len(Queries)

\* The files whose related tests are wanted in a project: those below its roots.
Wanted(i) ==
  {f \in (IF FindRelated THEN given.cli.related ELSE changed) : BelowRoots(f, i)}

\* Files that are in the working tree; staging a removal brings nothing back.
Present == {f \in Files : given.git.work[f] # "deleted"} \ given.git.removed

\* What discovery finds in a project for the paths of the command line, which
\* are no patterns with --findRelatedTests.
Candidates(i) ==
  Discover(Executed(config)[i], IF FindRelated THEN {} ELSE given.cli.inputs,
           given.cli.byPath, Present, given.tree.directories)

\* No selection is wanted; or there are no changes, and every project gets none.
NoSearch ==
  /\ context = 0
  /\ ~Narrowed \/ (~FindRelated /\ GitAnswered /\ changed = {})
  /\ context' = Len(Executed(config)) + 1
  /\ chosen' = [i \in DOMAIN Executed(config) |-> {}]
  /\ filters' = [i \in DOMAIN Executed(config) |-> Files]
  /\ UNCHANGED <<work, staged, asked, changed, relatedVars>>

BeginSearch ==
  /\ context = 0
  /\ Narrowed /\ (FindRelated \/ (GitAnswered /\ changed # {}))
  /\ context' = 1
  /\ chosen' = [i \in DOMAIN Executed(config) |-> {}]
  /\ filters' = [i \in DOMAIN Executed(config) |-> Files]
  /\ UNCHANGED <<work, staged, asked, changed, relatedVars>>

Searching == context \in DOMAIN Executed(config)

\* A project that is not selected, or without files of its own: no tests. With
\* --findRelatedTests nothing of it is instrumented either.
SkipProject ==
  /\ Searching /\ search = "idle"
  /\ context \notin Contexts \/ (Candidates(context).error = "none" /\ Wanted(context) = {})
  /\ filters' = IF FindRelated /\ context \in Contexts
                THEN [filters EXCEPT ![context] = {}] ELSE filters
  /\ context' = context + 1
  /\ UNCHANGED <<work, staged, asked, changed, chosen, relatedVars>>

\* The graph of the project's modules is built and searched.
SearchProject ==
  /\ Searching /\ search = "idle"
  /\ context \in Contexts /\ Wanted(context) # {}
  /\ Candidates(context).error = "none"
  /\ context \notin given.unresolved
  /\ LET p == Executed(config)[context]
         modules == {f \in Present : \E r \in p.roots : Below(f, r)} \cap given.modules
     IN StartSearch(Wanted(context), Candidates(context).tests,
                    BuildGraph(modules, given.imports, given.ignored, Present), given.syncResolver)
  /\ UNCHANGED selectionVars

ExpandSearch == Expand /\ UNCHANGED selectionVars

\* The graph has answered: tests_by_context and coverage_by_context are filled.
FinishProject ==
  /\ Searching /\ search = "done"
  /\ chosen' = [chosen EXCEPT ![context] = related]
  /\ filters' = [filters EXCEPT ![context] = IF FindRelated THEN Wanted(context) ELSE instrumented]
  /\ context' = context + 1
  /\ search' = "idle"
  /\ UNCHANGED <<work, staged, asked, changed, graph, complete, candidates, seeds, frontier,
                 visited, related, instrumented>>

SelectStep ==
  \/ AskGit \/ NoSearch \/ BeginSearch \/ SkipProject
  \/ SearchProject \/ ExpandSearch \/ FinishProject

\* A query that Git answers with an error, a discovery that fails, or a graph:
\* the dependency bridge cannot resolve the imports of a project.
SelectionFails ==
  \/ /\ ChangedSelection /\ ~FindRelated /\ given.git.repository
     /\ asked < Len(Queries) /\ Queries[asked + 1] \in given.git.fails
  \/ /\ Searching /\ search = "idle" /\ context \in Contexts
     /\ \/ Candidates(context).error # "none"
        \/ Wanted(context) # {} /\ context \in given.unresolved

SelectionDone == context > Len(Executed(config))

\* selected_project_run: discovery once more, and what the selection left.
TestsOf(i) ==
  [Candidates(i) EXCEPT !.tests = IF Narrowed THEN @ \cap chosen[i] ELSE @]

\* allows_no_tests
NoTestsAllowed ==
  \/ given.cli.listTests
  \/ Narrowed /\ ~FindRelated
  \/ given.cli.passWithNoTests
  \/ config.options.passWithNoTests
-----------------------------------------------------------------------------
\* Every file below a selected root that differed from HEAD when Git was asked
\* is known as changed, also when it was staged and changed again meanwhile; only
\* a file that the user staged between the two commands can be missed. Nothing
\* else is known as changed but what the history asked for contains.
ChangesAreSeen ==
  (context > 0 /\ ChangedSelection /\ ~FindRelated /\ given.git.repository) =>
    LET history == given.git.head \cup given.git.ancestor \cup given.git.since
        mine == {f \in Files : \E i \in Contexts : BelowRoots(f, i)}
        dirty == {f \in mine : given.git.work[f] # "same"}
    IN /\ ~given.cli.lastCommit => dirty \ staged \subseteq changed
       /\ changed \subseteq dirty \cup history
=============================================================================
