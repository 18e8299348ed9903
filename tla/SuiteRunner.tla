----------------------------- MODULE SuiteRunner -----------------------------
(***************************************************************************)
(* A test file with one describe block, run by runSuite of                 *)
(* runtime/worker.mjs: sequential and concurrent tests, the three kinds of *)
(* retry, and what they leave in the snapshot journal.                     *)
(*                                                                         *)
(* The worker is a single-threaded event loop, so a step is what runs      *)
(* between two awaits.  Test bodies are asynchronous: several run at once  *)
(* in the concurrent group, and one that exceeded its timeout is not       *)
(* stopped: it may still match a snapshot later.                           *)
(***************************************************************************)
EXTENDS SnapshotJournal, FiniteSetsExt

CONSTANTS
  Position,        \* the declaration order of the tests
  Concurrent,      \* tests declared with test.concurrent
  Skipped,         \* tests that are not run: skip, todo, focus, name pattern
  MaxConcurrency,  \* request.maxConcurrency
  Outliving,       \* tests whose body may match after its timeout
  Policies,        \* the retry settings to consider
  Attempts,        \* retryTimes
  MaxMatches       \* bound: matches of one attempt

ASSUME SuiteAssumption ==
  /\ Position \in [Tests -> Nat]
  /\ \A t, u \in Tests : t # u => Position[t] # Position[u]
  /\ Concurrent \subseteq Tests
  /\ Skipped \subseteq Tests
  /\ Outliving \subseteq Tests
  /\ MaxConcurrency \in Nat \ {0}
  /\ Policies \subseteq {"immediate", "deferred", "describe"}
  /\ Attempts \in Nat
  /\ MaxMatches \in Nat

VARIABLES
  policy,        \* how failed tests are retried
  loadedDirty,   \* request.snapshotDirty: the file has an unknown header
  journal,       \* snapshotState
  place,         \* of each test: "waiting", "running", "settled"
  status,        \* of each test: its latest result
  retries,       \* retriesRemaining of retryTest
  made,          \* matches of the running attempt
  late,          \* tests with a timed-out body that still runs
  spoke,         \* tests of which such a body matched a snapshot: history
  hook,          \* beforeAll of this attempt of the block
  suiteRetries,  \* retriesRemaining of runSuite
  clearing,      \* tests whose journal a describe retry has still to clear
  phase          \* "loading", "suite", "finished", "pruned", "ended"

request == <<policy, loadedDirty>>
suite == <<hook, suiteRetries, clearing, phase>>
tests == <<place, status, retries, made>>
vars == <<request, journal, tests, late, spoke, suite>>

Init ==
  /\ policy \in Policies
  /\ \E u \in Updates :
       /\ loadedDirty \in (IF u = "none" THEN {FALSE} ELSE BOOLEAN)
       /\ journal = InitialJournal(u, loadedDirty)
  /\ place = [t \in Tests |-> "waiting"]
  /\ status = [t \in Tests |-> "none"]
  /\ retries = [t \in Tests |-> Attempts]
  /\ made = [t \in Tests |-> 0]
  /\ late = {}
  /\ spoke = {}
  /\ hook = "pending"
  /\ suiteRetries = Attempts
  /\ clearing = {}
  /\ phase = "loading"

-----------------------------------------------------------------------------
\* The order of runSuiteOnce: the concurrent tests form one group at the place
\* of the first of them.
GroupPosition == CHOOSE p \in {Position[t] : t \in Concurrent} :
                   \A t \in Concurrent : p <= Position[t]

Slot(t) == IF t \in Concurrent THEN GroupPosition ELSE Position[t]

Before(t, u) ==
  \/ Slot(t) < Slot(u)
  \/ t \in Concurrent /\ u \in Concurrent /\ Position[t] < Position[u]

\* A failed test that its retry policy runs again.
NeedsRetry(t) ==
  /\ policy \in {"immediate", "deferred"}
  /\ hook = "passed"
  /\ place[t] = "settled"
  /\ status[t] = "failed"
  /\ retries[t] > 0

\* executeTest is over: an immediate retry is part of it, a deferred one not.
Done(t) == place[t] = "settled" /\ ~(policy = "immediate" /\ NeedsRetry(t))

AllDone == \A t \in Tests : Done(t)

\* executeTest is called for the test now.
Turn(t) ==
  /\ phase = "suite" /\ clearing = {} /\ hook # "pending"
  /\ place[t] = "waiting"
  /\ IF t \in Concurrent
     THEN /\ \A u \in Tests \ Concurrent : Before(u, t) => Done(u)
          /\ \A u \in Concurrent : Before(u, t) => place[u] # "waiting"
          /\ Cardinality({u \in Concurrent : place[u] # "waiting" /\ ~Done(u)})
               < MaxConcurrency
     ELSE \A u \in Tests : Before(u, t) => Done(u)

-----------------------------------------------------------------------------
\* The test file is loaded: its tests are defined, or it throws and nothing runs.
Load ==
  /\ phase = "loading"
  /\ phase' \in {"suite", "pruned"}
  /\ UNCHANGED <<request, journal, tests, late, spoke, hook, suiteRetries, clearing>>

\* The beforeAll hooks of one attempt of the block.
BeforeAll ==
  /\ phase = "suite" /\ clearing = {} /\ hook = "pending"
  /\ hook' \in {"passed", "failed"}
  /\ UNCHANGED <<request, journal, tests, late, spoke, suiteRetries, clearing, phase>>

Skip(t) ==
  /\ Turn(t)
  /\ t \in Skipped
  /\ journal' = MarkSnapshotsChecked(journal, t)
  /\ status' = [status EXCEPT ![t] = "skipped"]
  /\ place' = [place EXCEPT ![t] = "settled"]
  /\ UNCHANGED <<request, retries, made, late, spoke, suite>>

\* A beforeAll error fails every test without running it.
FailWithHook(t) ==
  /\ Turn(t)
  /\ t \notin Skipped
  /\ hook = "failed"
  /\ status' = [status EXCEPT ![t] = "failed"]
  /\ place' = [place EXCEPT ![t] = "settled"]
  /\ UNCHANGED <<request, journal, retries, made, late, spoke, suite>>

Start(t) ==
  /\ Turn(t)
  /\ t \notin Skipped
  /\ hook = "passed"
  /\ place' = [place EXCEPT ![t] = "running"]
  /\ made' = [made EXCEPT ![t] = 0]
  /\ UNCHANGED <<request, journal, status, retries, late, spoke, suite>>

\* toMatchSnapshot in the body or the hooks of a running test.  The file's end
\* does not wait for bodies when the suite was aborted.
Match(t, v) ==
  /\ phase \in {"suite", "finished", "pruned"} /\ clearing = {}
  /\ place[t] = "running"
  /\ made[t] < MaxMatches
  /\ journal.counts[NameOf[t]] < MaxCount
  /\ journal' = MatchSnapshot(journal, t, v)
  /\ made' = [made EXCEPT ![t] = @ + 1]
  /\ UNCHANGED <<request, place, status, retries, late, spoke, suite>>

\* The same in a body that has exceeded its timeout: callAsync gave up on it.
LateMatch(t, v) ==
  /\ phase \in {"suite", "finished", "pruned"} /\ clearing = {}
  /\ t \in late
  /\ journal.counts[NameOf[t]] < MaxCount
  /\ journal' = MatchSnapshot(journal, t, v)
  /\ late' = late \ {t}
  /\ spoke' = spoke \cup {t}
  /\ UNCHANGED <<request, tests, suite>>

\* The attempt ends by itself.  That a test of test.failing passed means that
\* its body threw.
Finish(t, result) ==
  /\ phase = "suite" /\ clearing = {}
  /\ place[t] = "running"
  /\ status' = [status EXCEPT ![t] = result]
  /\ place' = [place EXCEPT ![t] = "settled"]
  /\ journal' = IF t \in Failing /\ result = "passed"
                THEN MarkSnapshotsChecked(journal, t) ELSE journal
  /\ UNCHANGED <<request, retries, made, late, spoke, suite>>

\* The timeout of callAsync; the body goes on.  What afterEach hooks match before
\* the result is made counts as matched before the timeout.  A timeout is an error like
\* another, with which a test of test.failing passes.
TimeOut(t) ==
  /\ phase = "suite" /\ clearing = {}
  /\ place[t] = "running"
  /\ status' = [status EXCEPT ![t] = IF t \in Failing THEN "passed" ELSE "failed"]
  /\ place' = [place EXCEPT ![t] = "settled"]
  /\ journal' = IF t \in Failing THEN MarkSnapshotsChecked(journal, t) ELSE journal
  /\ late' = late \cup ({t} \cap Outliving)
  /\ UNCHANGED <<request, retries, made, spoke, suite>>

\* Mutant: retriesRemaining is not counted down.
OneLess_Never(n) == n

OneLess(n) == n - 1

\* One turn of the loop of retryTest.  Deferred retries come after the last
\* test, in the order of the results.
Retry(t) ==
  /\ phase = "suite"
  /\ NeedsRetry(t)
  /\ policy = "deferred" =>
       AllDone /\ \A u \in Tests : Before(u, t) => ~NeedsRetry(u)
  /\ journal' = ClearSnapshotAttempt(journal, t)
  /\ retries' = [retries EXCEPT ![t] = OneLess(@)]
  /\ place' = [place EXCEPT ![t] = "running"]
  /\ made' = [made EXCEPT ![t] = 0]
  /\ UNCHANGED <<request, status, late, spoke, suite>>

\* An attempt of the block is over: its tests, their retries, its afterAll.
SuiteDone ==
  /\ phase = "suite" /\ clearing = {} /\ hook # "pending"
  /\ AllDone
  /\ \A t \in Tests : ~NeedsRetry(t)

\* Mutant: the retries of the block are not limited.
MayRetrySuite_Unlimited ==
  /\ policy = "describe"
  /\ \E t \in Tests : status[t] = "failed"

MayRetrySuite ==
  /\ policy = "describe"
  /\ \E t \in Tests : status[t] = "failed"
  /\ suiteRetries > 0

\* Mutant: only the failed tests are cleared.
RetryTests_Failed == {t \in Tests : status[t] = "failed"}

\* testsUnderSuite
RetryTests == Tests

\* runSuite discards the attempt.  Its loop over retryTests is ClearNext.
DiscardAttempt ==
  /\ SuiteDone
  /\ MayRetrySuite
  /\ suiteRetries' = OneLess(suiteRetries)
  /\ clearing' = RetryTests
  /\ place' = [t \in Tests |-> "waiting"]
  /\ status' = [t \in Tests |-> "none"]
  /\ hook' = "pending"
  /\ UNCHANGED <<request, journal, retries, made, late, spoke, phase>>

\* One turn of that loop, in declaration order.  The loop does not await: no
\* other action is possible before it is over.
ClearNext(t) ==
  /\ t \in clearing
  /\ \A u \in clearing : Position[t] <= Position[u]
  /\ journal' = ClearSnapshotAttempt(journal, t)
  /\ clearing' = clearing \ {t}
  /\ UNCHANGED <<request, tests, late, spoke, hook, suiteRetries, phase>>

\* The results of the attempt are final.  Errors outside the tests (afterAll,
\* the process) forbid the retry of the block, so this is possible even when
\* MayRetrySuite holds.
FinishSuite ==
  /\ SuiteDone
  /\ phase' = "finished"
  /\ UNCHANGED <<request, journal, tests, late, spoke, hook, suiteRetries, clearing>>

\* runSuite rejects: an event handler of the custom environment threw.
Abort ==
  /\ phase = "suite" /\ clearing = {}
  /\ phase' = "finished"
  /\ UNCHANGED <<request, journal, tests, late, spoke, hook, suiteRetries, clearing>>

\* The obsolete entries are removed, or reported as an error.
Prune ==
  /\ phase = "finished"
  /\ journal' = RemoveObsolete(journal)
  /\ phase' = "pruned"
  /\ UNCHANGED <<request, tests, late, spoke, hook, suiteRetries, clearing>>

\* The result is written to stdout and the process exits.
Report ==
  /\ phase = "pruned"
  /\ phase' = "ended"
  /\ UNCHANGED <<request, journal, tests, late, spoke, hook, suiteRetries, clearing>>

Over == phase = "ended" /\ UNCHANGED vars

Next ==
  \/ Load \/ BeforeAll \/ DiscardAttempt \/ FinishSuite \/ Abort \/ Prune \/ Report
  \/ \E t \in Tests :
       \/ Skip(t) \/ FailWithHook(t) \/ Start(t) \/ TimeOut(t) \/ Retry(t) \/ ClearNext(t)
       \/ \E v \in Values : Match(t, v) \/ LateMatch(t, v)
       \/ \E result \in {"passed", "failed"} : Finish(t, result)
  \/ Over

Spec == Init /\ [][Next]_vars

\* The event loop takes up what is ready, and every test has a timeout.  No
\* test has to match or to end by itself.
Fairness ==
  /\ WF_vars(Load \/ BeforeAll \/ DiscardAttempt \/ FinishSuite \/ Prune \/ Report)
  /\ \A t \in Tests :
       WF_vars(Skip(t) \/ FailWithHook(t) \/ Start(t) \/ TimeOut(t) \/ Retry(t) \/ ClearNext(t))

FairSpec == Spec /\ Fairness

-----------------------------------------------------------------------------
TestTypes ==
  /\ place \in [Tests -> {"waiting", "running", "settled"}]
  /\ status \in [Tests -> {"none", "passed", "failed", "skipped"}]
  /\ retries \in [Tests -> 0..Attempts]
  /\ made \in [Tests -> 0..MaxMatches]

SuiteTypes ==
  /\ hook \in {"pending", "passed", "failed"}
  /\ suiteRetries \in 0..Attempts
  /\ clearing \subseteq Tests
  /\ phase \in {"loading", "suite", "finished", "pruned", "ended"}

TypeOK ==
  /\ policy \in Policies /\ loadedDirty \in BOOLEAN
  /\ journal \in Journals
  /\ late \subseteq Tests /\ spoke \subseteq Tests
  /\ TestTypes
  /\ SuiteTypes

-----------------------------------------------------------------------------
OwnName(t) == \A u \in Tests \ {t} : NameOf[u] # NameOf[t]

\* The snapshot totals of the result are the totals of the attempts that were
\* kept: every clear subtracts exactly what its attempt had added, also when
\* attempts of other tests, or a body that timed out, match in between
\* (clearSnapshotAttempt, incrementSnapshotCount).
SummaryMatchesRecords ==
  \A s \in Statuses :
    journal.summary[s] =
      MapThenSumSet(LAMBDA t : journal.attempts[t].counts[s], journal.recorded)

\* A test without a journal record has left no trace: as long as the obsolete
\* entries are not removed, its entries are those of the file, its counter
\* starts again at 1, and its entries still count as unused.  So whatever a
\* discarded attempt did, the next attempt finds what the first one found.
\* For tests that share no name, and whose use of an entry is journaled at all
\* (markSnapshotsChecked, for test.failing and skipped tests, is not).
NoTraceWithoutRecord ==
  phase \in {"loading", "suite", "finished"} =>
    \A t \in Tests \ journal.recorded : OwnName(t) =>
      /\ journal.counts[NameOf[t]] = 0
      /\ \A k \in KeysOf(NameOf[t]) : journal.data[k] = Loaded[k]
      /\ t \notin Failing \cup Skipped => KeysOf(NameOf[t]) \cap LoadedKeys \subseteq journal.unchecked

\* A test that begins an attempt has no record of an earlier one, unless a body
\* of it that had timed out wrote one in the meantime: a describe retry clears
\* the passing tests as well as the failing ones.
FreshAttempt ==
  [][\A t \in Tests :
       place[t] # "running" /\ place'[t] = "running" =>
         t \notin journal'.recorded \/ t \in spoke']_vars

\* The file is written whenever it must be: if the data differ from the file's,
\* or the file had an unknown header, the dirty flag is up, although clearing
\* an attempt may lower it.  Interleaved writers make that delicate.  For files
\* whose tests share no name: a concurrent test that matched the entry another
\* test of its name had just written notes that entry, and its clear puts it
\* back after the writer's clear has removed it and lowered the flag.
DirtyWhenNeeded ==
  (\A t \in Tests : OwnName(t)) => (loadedDirty \/ journal.data # Loaded => journal.dirty)

\* An entry that a kept attempt matched or wrote is in the data of the result:
\* neither the clear of another test nor the removal of obsolete entries takes
\* it away.  For tests that share no name.
UsedEntriesSurvive ==
  \A t \in journal.recorded : OwnName(t) =>
    \A k \in Keys : journal.attempts[t].data[k] # Untouched => journal.data[k] # NoEntry

\* Without --updateSnapshot no entry of the file is changed or removed, used or
\* not: "Obsolete entries remain untouched" (docs/debugging.md).
FileEntriesUntouched ==
  journal.update # "all" => \A k \in LoadedKeys : journal.data[k] = Loaded[k]

\* The file ends, whatever its tests do: every retry uses up an attempt.
Termination == <>(phase = "ended")

\* The describe retry starts from the counters of the first attempt: "counters,
\* checked keys, serialized data, summary counts, and writes are restored before
\* a retry" (docs/adr/0014-circus-retry-scheduling.md).  Violated by tests that
\* share a name: the loop clears them in the order in which they ran, so the
\* count the second one found is put back last.
CountersRestored ==
  phase = "suite" /\ hook = "pending" /\ clearing = {} /\ spoke = {} =>
    \A n \in Names : journal.counts[n] = 0

\* --updateSnapshot is to "remove obsolete snapshots" (crates/rjest-cli/src/main.rs):
\* an entry of a test that failed is not known to be obsolete.  Violated by a
\* test that fails before it reaches its matcher, or whose beforeAll hook fails.
OnlyObsoleteRemoved ==
  \A k \in journal.removed : \A t \in Tests : NameOf[t] = k[1] => status[t] # "failed"
=============================================================================
