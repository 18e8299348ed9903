------------------------------ MODULE TestCycle ------------------------------
(***************************************************************************)
(* One cycle of the coordinator, run_test_cycle of main.rs: it selects and *)
(* orders the tests of all projects, starts the bridge processes, runs the *)
(* pool once for each group of adjacent tests of one project, and closes   *)
(* what it started.                                                        *)
(*                                                                         *)
(* A unit is a test file in one project.  A project run is the group of    *)
(* units from position next on.  The pool is what BailRun says of it: with *)
(* a limit it retains results up to the one that reaches the limit.        *)
(*                                                                         *)
(* The module has no Next of its own: the watch loop starts cycles.        *)
(***************************************************************************)
EXTENDS Sharding, FiniteSets, SequencesExt

CONSTANTS
  Units,      \* test files, each in one project
  Projects,   \* the selected projects
  ProjectOf,  \* the project of a unit
  Paths,      \* paths of test files
  PathOf,     \* the path of a unit
  Owns,       \* <<p, u>>: u is below the root of p and has its display name
  ByHash,     \* the units in the order of shard_project_runs
  MostFailed, \* bound: failed tests of one failed file
  Setups      \* the settings of a process to consider

ASSUME CycleAssumption ==
  /\ IsFiniteSet(Units)
  /\ ProjectOf \in [Units -> Projects]
  /\ PathOf \in [Units -> Paths]
  /\ \A u, w \in Units : ProjectOf[u] = ProjectOf[w] /\ PathOf[u] = PathOf[w] => u = w
  /\ Owns \subseteq Projects \X Units
  /\ ByHash \in Seq(Units)
  /\ ToSet(ByHash) = Units /\ Len(ByHash) = Cardinality(Units)
  /\ MostFailed \in Nat \ {0}
  /\ Setups \subseteq [bail : Nat, shard : Shards, update : BOOLEAN, watch : BOOLEAN,
                       custom : BOOLEAN, hooked : BOOLEAN, reported : BOOLEAN,
                       interactive : BOOLEAN]

VARIABLES
  setup,     \* configuration and options that no key press changes
  mode,      \* those of cli and config that the watch loop changes
  token,     \* the CancellationToken of the cycle
  phase,     \* where the cycle is; "idle" outside a cycle
  selected,  \* units after discovery and related-test selection
  order,     \* units in the order of the sequencer
  next,      \* position in order of the next project run
  results,   \* of each position: its result, or "none"
  failures,  \* failed tests in the results: result.count(TestStatus::Failed)
  sessions,  \* the three bridge processes
  history,   \* the performance cache on disk: NativeSequencerCache
  outcome    \* of the latest cycle: "none", "done", "interrupted", "error"

cycleVars == <<phase, selected, order, next, results, failures, sessions, history, outcome>>

Kinds == {"passed", "failed", "error", "skipped"}

Modes == [watch : BOOLEAN, onlyChanged : BOOLEAN, onlyFailures : BOOLEAN,
          filtered : BOOLEAN, update : BOOLEAN]

Phases == {"idle", "discover", "order", "begin", "hooks", "reporters", "projects",
           "pool", "check", "complete", "teardown", "report", "over"}

\* "left": the process was started and neither closed nor killed.
SessionStates == {"none", "open", "closed", "killed", "left"}

NoSessions == [sequencer |-> "none", hooks |-> "none", reporters |-> "none"]

\* native_context_key: the digest of the project's configuration, of which
\* onlyChanged is the part that changes between cycles.
Keys == Projects \X BOOLEAN

NoHistory == [e \in Keys \X Paths |-> "none"]

CycleInit ==
  /\ setup \in Setups
  /\ token = FALSE
  /\ phase = "idle"
  /\ selected = {} /\ order = <<>> /\ next = 1 /\ results = <<>> /\ failures = 0
  /\ sessions = NoSessions
  /\ history = NoHistory
  /\ outcome = "none"

-----------------------------------------------------------------------------
\* The process of a session that is dropped unfinished is killed.
Dropped == [s \in DOMAIN sessions |-> IF sessions[s] = "open" THEN "killed" ELSE sessions[s]]

\* finish of a session, if there is one.
Closed(s) == IF sessions[s] = "open" THEN "closed" ELSE sessions[s]

\* The cycle returns.
Over(result, closed) ==
  /\ phase' = "over"
  /\ outcome' = result
  /\ sessions' = closed

BailReached == setup.bail > 0 /\ failures >= setup.bail

\* Discovery, and the related-test selection that was made before the cycle.
SelectTests ==
  /\ phase = "discover"
  /\ selected' \in (IF mode.watch \/ mode.filtered THEN SUBSET Units ELSE {Units})
  /\ phase' = "order"
  /\ UNCHANGED <<order, next, results, failures, sessions, history, outcome>>

\* What the cache says of a unit.
Performance(u) == history[<<ProjectOf[u], mode.onlyChanged>>, PathOf[u]]

\* Cached failures first, then units without an entry.  Durations and sizes
\* decide between units of one rank.
Rank(u) == CASE Performance(u) = "failed" -> 0
             [] Performance(u) = "none"   -> 1
             [] Performance(u) = "passed" -> 2

HashRank == [u \in Units |-> CHOOSE i \in DOMAIN ByHash : ByHash[i] = u]

\* Where a unit stands in the list of the selected units, sorted by hash.
Place(u) == Cardinality({w \in selected : HashRank[w] <= HashRank[u]})

TestsOfShard(shard) ==
  {u \in selected : Place(u) \in Positions(Cardinality(selected), shard)}

ShardedTests == TestsOfShard(setup.shard)

\* Sorted and, for onlyFailures, filtered by the cache.
NativeOrders ==
  LET units == {u \in ShardedTests : mode.onlyFailures => Performance(u) = "failed"}
  IN {o \in SetToSeqs(units) : \A i, j \in DOMAIN o : i < j => Rank(o[i]) <= Rank(o[j])}

\* A configured sequencer returns the tests it likes, also one of them twice.
CustomOrders == BoundedSeq(selected, Cardinality(selected))

\* Mutant: the aggregate of the cycle before is kept.
OrderTests_KeepResults ==
  /\ phase = "order"
  /\ order' \in (IF setup.custom THEN CustomOrders ELSE NativeOrders)
  /\ next' = 1
  /\ sessions' = [sessions EXCEPT !.sequencer = IF setup.custom THEN "open" ELSE "none"]
  /\ phase' = "begin"
  /\ UNCHANGED <<selected, results, failures, history, outcome>>

OrderTests ==
  /\ phase = "order"
  /\ order' \in (IF setup.custom THEN CustomOrders ELSE NativeOrders)
  /\ next' = 1
  /\ results' = [i \in DOMAIN order' |-> "none"]
  /\ failures' = 0
  /\ sessions' = [sessions EXCEPT !.sequencer = IF setup.custom THEN "open" ELSE "none"]
  /\ phase' = "begin"
  /\ UNCHANGED <<selected, history, outcome>>

\* Cancelled before the run, or nothing to run: a watch cycle passes then.
NothingToRun ==
  /\ phase = "begin"
  /\ token \/ order = <<>>
  /\ Over(IF token THEN "interrupted" ELSE "done",
          [sessions EXCEPT !.sequencer = Closed("sequencer")])
  /\ UNCHANGED <<selected, order, next, results, failures, history>>

BeginRun ==
  /\ phase = "begin"
  /\ ~token /\ order # <<>>
  /\ phase' = "hooks"
  /\ UNCHANGED <<selected, order, next, results, failures, sessions, history, outcome>>

\* GlobalHookSession::start runs the setups.
StartHooks ==
  /\ phase = "hooks"
  /\ sessions' = [sessions EXCEPT !.hooks = IF setup.hooked THEN "open" ELSE "none"]
  /\ phase' = "reporters"
  /\ UNCHANGED <<selected, order, next, results, failures, history, outcome>>

StartReporters ==
  /\ phase = "reporters"
  /\ sessions' = [sessions EXCEPT !.reporters = IF setup.reported THEN "open" ELSE "none"]
  /\ phase' = "projects"
  /\ UNCHANGED <<selected, order, next, results, failures, history, outcome>>

-----------------------------------------------------------------------------
\* The positions of the next project run: adjacent units of one project.
Group == {i \in next..Len(order) :
            \A j \in next..i : ProjectOf[order[j]] = ProjectOf[order[next]]}

\* Mutant: a project is started whatever failed before.
RunProject_PastBail ==
  /\ phase = "projects"
  /\ next <= Len(order) /\ ~token
  /\ phase' = "pool"
  /\ UNCHANGED <<selected, order, next, results, failures, sessions, history, outcome>>

RunProject ==
  /\ phase = "projects"
  /\ next <= Len(order) /\ ~token /\ ~BailReached
  /\ phase' = "pool"
  /\ UNCHANGED <<selected, order, next, results, failures, sessions, history, outcome>>

\* options.bail of the project run: what is left of the threshold, 0 for none.
Limit == IF setup.bail > failures THEN setup.bail - failures ELSE 0

\* What the pool may return for the group, with the number of failed tests: it
\* stops with the file that reaches the limit or at a cancellation, and else it
\* retains all results.
PoolResults ==
  {o \in [kept : [Group -> Kinds \cup {"none"}], failed : 0..(MostFailed * Cardinality(Group))] :
     LET files == Cardinality({i \in Group : o.kept[i] = "failed"})
         all == \A i \in Group : o.kept[i] # "none"
     IN /\ files <= o.failed /\ o.failed <= files * MostFailed
        /\ Limit > 0 => files <= Limit /\ o.failed < Limit + MostFailed
        /\ all \/ token \/ (Limit > 0 /\ o.failed >= Limit)}

PoolReturns ==
  /\ phase = "pool"
  /\ \E o \in PoolResults :
       /\ results' = [i \in DOMAIN results |-> IF i \in Group THEN o.kept[i] ELSE results[i]]
       /\ failures' = failures + o.failed
  /\ next' = next + Cardinality(Group)
  /\ phase' = "projects"
  /\ UNCHANGED <<selected, order, sessions, history, outcome>>

\* All project runs are done, or the loop breaks.
ProjectsDone ==
  /\ phase = "projects"
  /\ next > Len(order) \/ token \/ BailReached
  /\ phase' = "check"
  /\ UNCHANGED <<selected, order, next, results, failures, sessions, history, outcome>>

-----------------------------------------------------------------------------
\* Mutant: the hook session is dropped, not finished.
CloseInterrupted_NoTeardown ==
  /\ phase = "check" /\ token
  /\ Over("interrupted", [Dropped EXCEPT !.sequencer = Closed("sequencer")])
  /\ UNCHANGED <<selected, order, next, results, failures, history>>

\* A cancelled run closes the sequencer and tears down; the reporters do not
\* hear of its end.
CloseInterrupted ==
  /\ phase = "check" /\ token
  /\ Over("interrupted", [Dropped EXCEPT !.sequencer = Closed("sequencer"),
                                         !.hooks = Closed("hooks")])
  /\ UNCHANGED <<selected, order, next, results, failures, history>>

\* The positions whose result the cache entry of <<k, p>> can come from: those
\* of units that the owner matches, for a file that is not wholly skipped.
Sources(k, p) ==
  {i \in DOMAIN results : /\ results[i] # "skipped"
                          /\ PathOf[order[i]] = p
                          /\ <<k[1], order[i]>> \in Owns
                          /\ k[2] = mode.onlyChanged}

\* NativeSequencerCache::record: of several sources the last one stays.
Recorded ==
  [e \in Keys \X Paths |->
     LET from == Sources(e[1], e[2])
     IN IF from = {} THEN history[e]
        ELSE IF results[Max(from)] = "passed" THEN "passed" ELSE "failed"]

\* Mutant: the results of a run that bailed are recorded, too.
FinishSequencers_AfterBail ==
  /\ phase = "check" /\ ~token
  /\ history' = IF setup.custom THEN history ELSE Recorded
  /\ sessions' = [sessions EXCEPT !.sequencer = Closed("sequencer")]
  /\ phase' = "complete"
  /\ UNCHANGED <<selected, order, next, results, failures, outcome>>

\* finish_test_sequencers: with the result, unless the threshold was reached.
FinishSequencers ==
  /\ phase = "check" /\ ~token
  /\ history' = IF setup.custom \/ BailReached THEN history ELSE Recorded
  /\ sessions' = [sessions EXCEPT !.sequencer = Closed("sequencer")]
  /\ phase' = "complete"
  /\ UNCHANGED <<selected, order, next, results, failures, outcome>>

\* onRunComplete
FinishReporters ==
  /\ phase = "complete"
  /\ sessions' = [sessions EXCEPT !.reporters = Closed("reporters")]
  /\ phase' = "teardown"
  /\ UNCHANGED <<selected, order, next, results, failures, history, outcome>>

\* globalTeardown
FinishHooks ==
  /\ phase = "teardown"
  /\ sessions' = [sessions EXCEPT !.hooks = Closed("hooks")]
  /\ phase' = "report"
  /\ UNCHANGED <<selected, order, next, results, failures, history, outcome>>

\* Coverage report, results processor and output.
Report ==
  /\ phase = "report"
  /\ Over("done", sessions)
  /\ UNCHANGED <<selected, order, next, results, failures, history>>

\* The step at which the cycle is can return an error.
Fallible ==
  CASE phase = "hooks"     -> setup.hooked
    [] phase = "reporters" -> setup.reported
    [] phase = "complete"  -> setup.reported
    [] phase = "teardown"  -> setup.hooked
    [] OTHER               -> phase \in {"discover", "order", "begin", "pool", "check", "report"}

\* The error is passed up, and the sessions are dropped on the way.  A hook or
\* reporter process that was never made a session is not killed.  The cache file is
\* written in place: an error may leave one that cannot be parsed, which is none.
Fails ==
  /\ Fallible
  /\ Over("error",
          CASE phase = "hooks"     -> [Dropped EXCEPT !.hooks = "left"]
            [] phase = "reporters" -> [Dropped EXCEPT !.reporters = "left"]
            [] OTHER               -> Dropped)
  /\ history' \in IF phase = "check" /\ ~token /\ ~setup.custom /\ ~BailReached
                  THEN {history, NoHistory} ELSE {history}
  /\ UNCHANGED <<selected, order, next, results, failures>>

\* A step of the thread that runs the cycle, other than an error.
CycleStep ==
  \/ SelectTests \/ OrderTests \/ NothingToRun \/ BeginRun
  \/ StartHooks \/ StartReporters
  \/ RunProject \/ PoolReturns \/ ProjectsDone
  \/ CloseInterrupted \/ FinishSequencers \/ FinishReporters \/ FinishHooks \/ Report

-----------------------------------------------------------------------------
\* The types of a cycle, for TypeOK.
CycleTypes ==
  /\ phase \in Phases
  /\ selected \subseteq Units
  /\ order \in Seq(Units) /\ next \in 1..(Len(order) + 1)
  /\ results \in [1..Len(order) -> Kinds \cup {"none"}] /\ failures \in Nat
  /\ sessions \in [{"sequencer", "hooks", "reporters"} -> SessionStates]
  /\ history \in [Keys \X Paths -> {"none", "passed", "failed"}]
  /\ outcome \in {"none", "done", "interrupted", "error"}
=============================================================================
