-------------------------- MODULE SuiteRunnerProofs --------------------------
(***************************************************************************)
(* Proofs about SuiteRunner and its journal for every set of tests, every  *)
(* naming, snapshot file, retry setting and number of attempts.            *)
(***************************************************************************)
EXTENDS SuiteRunner, FiniteSums, FiniteSetTheorems, TLAPS

-----------------------------------------------------------------------------
\* The operators of the journal are well typed.
LEMMA BlankType == Blank \in Records
BY JournalAssumption DEF Blank, Records

LEMMA InitialType ==
  ASSUME NEW u \in Updates, NEW d \in BOOLEAN
  PROVE  InitialJournal(u, d) \in Journals
<1>1. LoadedKeys \subseteq Keys
  BY DEF LoadedKeys
<1> QED
  BY <1>1, BlankType, JournalAssumption DEF InitialJournal, Journals

LEMMA NextKeyType ==
  ASSUME NEW j \in Journals, NEW t \in Tests, j.counts[NameOf[t]] < MaxCount
  PROVE  NextKey(j, t) \in Keys /\ NextKey(j, t)[1] = NameOf[t]
<1>1. NameOf[t] \in Names
  BY JournalAssumption
<1>2. j.counts[NameOf[t]] \in Nat
  BY <1>1 DEF Journals
<1>3. j.counts[NameOf[t]] + 1 \in 1..MaxCount
  BY <1>2, JournalAssumption
<1> QED
  BY <1>1, <1>3 DEF NextKey, Keys

LEMMA RecordOfType ==
  ASSUME NEW j \in Journals, NEW t \in Tests
  PROVE  RecordOf(j, t) \in Records
<1>1. NameOf[t] \in Names
  BY JournalAssumption
<1>2. j.counts[NameOf[t]] \in Nat /\ j.attempts[t] \in Records
  BY <1>1 DEF Journals
<1>3. [Blank EXCEPT !.before = j.counts[NameOf[t]]] \in Records
  BY <1>2, BlankType DEF Records
<1> QED
  BY <1>2, <1>3 DEF RecordOf

LEMMA NotedType ==
  ASSUME NEW j \in Journals, NEW r \in Records, NEW key \in Keys, NEW s
  PROVE  Noted(j, r, key, s) \in Records
BY DEF Noted, Records, Journals

LEMMA MatchType ==
  ASSUME NEW j \in Journals, NEW t \in Tests, NEW v \in Values,
         j.counts[NameOf[t]] < MaxCount
  PROVE  MatchSnapshot(j, t, v) \in Journals
<1> DEFINE key == NextKey(j, t)
           sort == MatchStatus(j, t, key, v)
           writes == sort \in {"updated", "added"}
           counts == [j.counts EXCEPT ![NameOf[t]] = @ + 1]
           summary == [s \in Statuses |-> j.summary[s] + (IF s = sort THEN 1 ELSE 0)]
           data == [k \in Keys |-> IF k = key /\ writes THEN v ELSE j.data[k]]
           attempts == [j.attempts EXCEPT ![t] = Noted(j, RecordOf(j, t), key, sort)]
<1>1. counts \in [Names -> Nat]
  BY JournalAssumption DEF Journals
<1>2. summary \in [Statuses -> Int]
  BY DEF Journals
<1>3. data \in [Keys -> Values \cup {NoEntry}]
  BY DEF Journals
<1>4. Noted(j, RecordOf(j, t), key, sort) \in Records
  BY NextKeyType, RecordOfType, NotedType
<1>5. attempts \in [Tests -> Records]
  BY <1>4 DEF Journals
<1>6. j.writeCount + (IF writes THEN 1 ELSE 0) \in Nat
  BY DEF Journals
<1>7. Unchecked(j, key) \in SUBSET Keys
  BY DEF Journals, Unchecked
<1>8. (j.dirty \/ writes) \in BOOLEAN /\ j.recorded \cup {t} \in SUBSET Tests
  BY DEF Journals
<1>9. MatchSnapshot(j, t, v) =
        [j EXCEPT !.counts = counts, !.unchecked = Unchecked(j, key), !.summary = summary,
                  !.data = data, !.dirty = j.dirty \/ writes,
                  !.writeCount = j.writeCount + (IF writes THEN 1 ELSE 0),
                  !.recorded = j.recorded \cup {t}, !.attempts = attempts]
  BY DEF MatchSnapshot
<1> HIDE DEF key, sort, writes, counts, summary, data, attempts
<1> QED
  BY <1>1, <1>2, <1>3, <1>5, <1>6, <1>7, <1>8, <1>9 DEF Journals

LEMMA RestoredType ==
  ASSUME NEW j \in Journals, NEW t \in Tests
  PROVE  Restored(j, t) \in Journals
<1> DEFINE r == j.attempts[t]
           totals == Totals(j, r)
           data == [k \in Keys |-> IF r.data[k] = Untouched THEN j.data[k] ELSE r.data[k]]
           counts == [j.counts EXCEPT ![NameOf[t]] = r.before]
           attempts == [j.attempts EXCEPT ![t] = Blank]
           dirty == IF OnlyWriter(j, r) THEN r.dirtyBefore ELSE j.dirty
           writeCount == IF OnlyWriter(j, r) THEN r.writesBefore ELSE j.writeCount
<1>1. r \in Records
  BY DEF Journals
<1>2. totals \in [Statuses -> Int]
  BY <1>1 DEF Totals, Journals, Records
<1>3. data \in [Keys -> Values \cup {NoEntry}]
  BY <1>1 DEF Journals, Records
<1>4. counts \in [Names -> Nat]
  BY <1>1, JournalAssumption DEF Journals, Records
<1>5. attempts \in [Tests -> Records]
  BY BlankType DEF Journals
<1>6. dirty \in BOOLEAN
  BY <1>1 DEF Journals, Records
<1>7. writeCount \in Nat
  BY <1>1 DEF Journals, Records
<1>8. j.unchecked \cup r.checked \in SUBSET Keys /\ j.recorded \ {t} \in SUBSET Tests
  BY <1>1 DEF Journals, Records
<1>9. Restored(j, t) =
        [j EXCEPT !.recorded = j.recorded \ {t}, !.attempts = attempts, !.summary = totals,
                  !.data = data, !.unchecked = j.unchecked \cup r.checked, !.counts = counts,
                  !.dirty = dirty, !.writeCount = writeCount]
  BY DEF Restored, Counter
<1> HIDE DEF r, totals, data, counts, attempts, dirty, writeCount
<1> QED
  BY <1>2, <1>3, <1>4, <1>5, <1>6, <1>7, <1>8, <1>9 DEF Journals

LEMMA ClearType ==
  ASSUME NEW j \in Journals, NEW t \in Tests
  PROVE  ClearSnapshotAttempt(j, t) \in Journals
BY RestoredType DEF ClearSnapshotAttempt

LEMMA MarkType ==
  ASSUME NEW j \in Journals, NEW t \in Tests
  PROVE  MarkSnapshotsChecked(j, t) \in Journals
BY DEF MarkSnapshotsChecked, Journals

LEMMA RemoveType ==
  ASSUME NEW j \in Journals
  PROVE  RemoveObsolete(j) \in Journals
BY DEF RemoveObsolete, Journals

-----------------------------------------------------------------------------
\* Every action keeps the types.
LEMMA TestTypesStay == TestTypes /\ UNCHANGED tests => TestTypes'
BY DEF TestTypes, tests

LEMMA SuiteTypesStay == SuiteTypes /\ UNCHANGED suite => SuiteTypes'
BY DEF SuiteTypes, suite

LEMMA SuiteStepTypes ==
  ASSUME TypeOK,
         Load \/ BeforeAll \/ DiscardAttempt \/ FinishSuite \/ Abort \/ Prune \/ Report
  PROVE  TypeOK'
<1>1. CASE Load
  BY <1>1, TestTypesStay DEF Load, TypeOK, SuiteTypes, request
<1>2. CASE BeforeAll
  BY <1>2, TestTypesStay DEF BeforeAll, TypeOK, SuiteTypes, request
<1>3. CASE DiscardAttempt
  BY <1>3, SuiteAssumption
     DEF DiscardAttempt, MayRetrySuite, OneLess, RetryTests, TypeOK, SuiteTypes, TestTypes, request
<1>4. CASE FinishSuite
  BY <1>4, TestTypesStay DEF FinishSuite, TypeOK, SuiteTypes, request
<1>5. CASE Abort
  BY <1>5, TestTypesStay DEF Abort, TypeOK, SuiteTypes, request
<1>6. CASE Prune
  BY <1>6, TestTypesStay, RemoveType DEF Prune, TypeOK, SuiteTypes, request
<1>7. CASE Report
  BY <1>7, TestTypesStay DEF Report, TypeOK, SuiteTypes, request
<1> QED
  BY <1>1, <1>2, <1>3, <1>4, <1>5, <1>6, <1>7

LEMMA TestStepTypes ==
  ASSUME TypeOK, NEW t \in Tests,
         Skip(t) \/ FailWithHook(t) \/ Start(t) \/ TimeOut(t) \/ Retry(t) \/ ClearNext(t)
  PROVE  TypeOK'
<1>1. CASE Skip(t)
  BY <1>1, SuiteTypesStay, MarkType DEF Skip, TypeOK, TestTypes, request
<1>2. CASE FailWithHook(t)
  BY <1>2, SuiteTypesStay DEF FailWithHook, TypeOK, TestTypes, request
<1>3. CASE Start(t)
  BY <1>3, SuiteTypesStay, SuiteAssumption DEF Start, TypeOK, TestTypes, request
<1>4. CASE TimeOut(t)
  BY <1>4, SuiteTypesStay, MarkType DEF TimeOut, TypeOK, TestTypes, request
<1>5. CASE Retry(t)
  BY <1>5, SuiteTypesStay, ClearType, SuiteAssumption
     DEF Retry, NeedsRetry, OneLess, TypeOK, TestTypes, request
<1>6. CASE ClearNext(t)
  BY <1>6, TestTypesStay, ClearType DEF ClearNext, TypeOK, SuiteTypes, request
<1> QED
  BY <1>1, <1>2, <1>3, <1>4, <1>5, <1>6

LEMMA BodyStepTypes ==
  ASSUME TypeOK, NEW t \in Tests,
         \/ \E v \in Values : Match(t, v) \/ LateMatch(t, v)
         \/ \E result \in {"passed", "failed"} : Finish(t, result)
  PROVE  TypeOK'
<1>1. CASE \E v \in Values : Match(t, v)
  BY <1>1, SuiteTypesStay, MatchType, SuiteAssumption DEF Match, TypeOK, TestTypes, request
<1>2. CASE \E v \in Values : LateMatch(t, v)
  BY <1>2, SuiteTypesStay, TestTypesStay, MatchType DEF LateMatch, TypeOK, request
<1>3. CASE \E result \in {"passed", "failed"} : Finish(t, result)
  BY <1>3, SuiteTypesStay, MarkType DEF Finish, TypeOK, TestTypes, request
<1> QED
  BY <1>1, <1>2, <1>3

LEMMA InitType == Init => TypeOK
<1> SUFFICES ASSUME Init PROVE TypeOK
  OBVIOUS
<1>1. loadedDirty \in BOOLEAN /\ journal \in Journals
  <2>1. PICK u \in Updates :
          /\ loadedDirty \in (IF u = "none" THEN {FALSE} ELSE BOOLEAN)
          /\ journal = InitialJournal(u, loadedDirty)
    BY DEF Init
  <2>2. loadedDirty \in BOOLEAN
    BY <2>1, Zenon
  <2> QED
    BY <2>1, <2>2, InitialType
<1>2. TestTypes /\ SuiteTypes
  BY SuiteAssumption DEF Init, TestTypes, SuiteTypes
<1> QED
  BY <1>1, <1>2 DEF Init, TypeOK

LEMMA TypeStep ==
  ASSUME TypeOK, [Next]_vars
  PROVE  TypeOK'
<1>1. CASE UNCHANGED vars
  BY <1>1, TestTypesStay, SuiteTypesStay DEF vars, request, TypeOK
<1> QED
  BY <1>1, SuiteStepTypes, TestStepTypes, BodyStepTypes DEF Next, Over

\* Every variable keeps its type, the journal with all its records included.
THEOREM TypeCorrect == Spec => []TypeOK
<1>1. Init => TypeOK
  BY InitType
<1>2. TypeOK /\ [Next]_vars => TypeOK'
  BY TypeStep
<1> QED
  BY <1>1, <1>2, PTL DEF Spec

-----------------------------------------------------------------------------
\* The fields that an operator of the journal gives its result.
LEMMA MatchFields ==
  ASSUME NEW j \in Journals, NEW t \in Tests, NEW v \in Values
  PROVE  LET key == NextKey(j, t)
             sort == MatchStatus(j, t, key, v)
             m == MatchSnapshot(j, t, v)
         IN /\ m.update = j.update
            /\ m.recorded = j.recorded \cup {t}
            /\ \A u \in Tests : m.attempts[u] = IF u = t THEN Noted(j, RecordOf(j, t), key, sort)
                                                          ELSE j.attempts[u]
            /\ \A k \in Keys : m.data[k] = IF k = key /\ sort \in {"updated", "added"}
                                          THEN v ELSE j.data[k]
            /\ m.unchecked = j.unchecked \ {key}
            /\ \A n \in Names \ {NameOf[t]} : m.counts[n] = j.counts[n]
BY DEF MatchSnapshot, Unchecked, Journals

LEMMA RestoredFields ==
  ASSUME NEW j \in Journals, NEW t \in Tests
  PROVE  LET r == j.attempts[t]
             c == Restored(j, t)
         IN /\ c.update = j.update
            /\ c.recorded = j.recorded \ {t}
            /\ \A u \in Tests : c.attempts[u] = IF u = t THEN Blank ELSE j.attempts[u]
            /\ \A k \in Keys : c.data[k] = IF r.data[k] = Untouched THEN j.data[k] ELSE r.data[k]
            /\ c.unchecked = j.unchecked \cup r.checked
            /\ \A n \in Names : c.counts[n] = IF n = NameOf[t] THEN r.before ELSE j.counts[n]
BY DEF Restored, Counter, Journals

LEMMA MarkFields ==
  ASSUME NEW j \in Journals, NEW t \in Tests
  PROVE  LET m == MarkSnapshotsChecked(j, t)
         IN /\ m.update = j.update /\ m.recorded = j.recorded /\ m.attempts = j.attempts
            /\ m.data = j.data /\ m.counts = j.counts
            /\ m.unchecked = j.unchecked \ KeysOf(NameOf[t])
BY DEF MarkSnapshotsChecked, Journals

LEMMA RemoveFields ==
  ASSUME NEW j \in Journals
  PROVE  LET p == RemoveObsolete(j)
         IN /\ p.update = j.update /\ p.recorded = j.recorded /\ p.attempts = j.attempts
            /\ j.update # "all" => p = j
BY DEF RemoveObsolete, Journals

-----------------------------------------------------------------------------
\* Without --updateSnapshot: what the file held is in the data, and whatever a
\* clear would put back for such an entry is what the file held.
FileKept(j) ==
  j.update # "all" =>
    \A k \in LoadedKeys :
      /\ j.data[k] = Loaded[k]
      /\ \A t \in Tests : j.attempts[t].data[k] \in {Untouched, Loaded[k]}

LEMMA MatchKeepsFile ==
  ASSUME NEW j \in Journals, NEW t \in Tests, NEW v \in Values, FileKept(j)
  PROVE  FileKept(MatchSnapshot(j, t, v))
<1> DEFINE m == MatchSnapshot(j, t, v)
           key == NextKey(j, t)
           s == MatchStatus(j, t, key, v)
<1> SUFFICES ASSUME m.update # "all", NEW k \in LoadedKeys
             PROVE  /\ m.data[k] = Loaded[k]
                    /\ \A u \in Tests : m.attempts[u].data[k] \in {Untouched, Loaded[k]}
  BY DEF FileKept
<1>1. /\ j.update # "all" /\ k \in Keys /\ Loaded[k] # NoEntry
      /\ j.data[k] = Loaded[k]
      /\ \A u \in Tests : j.attempts[u].data[k] \in {Untouched, Loaded[k]}
  BY MatchFields DEF FileKept, LoadedKeys
<1>2. k = key => s \notin {"updated", "added"}
  BY <1>1 DEF MatchStatus, Rewrites
<1>3. m.data[k] = Loaded[k]
  BY <1>1, <1>2, MatchFields
<1>4. RecordOf(j, t).data[k] \in {Untouched, Loaded[k]}
  BY <1>1 DEF RecordOf, Blank
<1>5. Noted(j, RecordOf(j, t), key, s).data[k] \in {Untouched, Loaded[k]}
  BY <1>1, <1>4 DEF Noted
<1>6. ASSUME NEW u \in Tests PROVE m.attempts[u].data[k] \in {Untouched, Loaded[k]}
  <2>1. m.attempts[u] = IF u = t THEN Noted(j, RecordOf(j, t), key, s) ELSE j.attempts[u]
    BY MatchFields
  <2> QED
    BY <1>1, <1>5, <2>1
<1> QED
  BY <1>3, <1>6

LEMMA ClearKeepsFile ==
  ASSUME NEW j \in Journals, NEW t \in Tests, FileKept(j)
  PROVE  FileKept(ClearSnapshotAttempt(j, t))
<1>1. CASE t \notin j.recorded
  BY <1>1 DEF ClearSnapshotAttempt
<1>2. CASE t \in j.recorded
  <2> DEFINE c == Restored(j, t)
  <2> SUFFICES ASSUME c.update # "all", NEW k \in LoadedKeys
               PROVE  /\ c.data[k] = Loaded[k]
                      /\ \A u \in Tests : c.attempts[u].data[k] \in {Untouched, Loaded[k]}
    BY <1>2 DEF FileKept, ClearSnapshotAttempt
  <2>1. /\ k \in Keys
        /\ j.data[k] = Loaded[k]
        /\ \A u \in Tests : j.attempts[u].data[k] \in {Untouched, Loaded[k]}
    BY RestoredFields DEF FileKept, LoadedKeys
  <2>2. c.data[k] = Loaded[k]
    BY <2>1, RestoredFields
  <2>3. \A u \in Tests : c.attempts[u] = IF u = t THEN Blank ELSE j.attempts[u]
    BY RestoredFields
  <2>4. Blank.data[k] = Untouched
    BY <2>1 DEF Blank
  <2> QED
    BY <2>1, <2>2, <2>3, <2>4
<1> QED
  BY <1>1, <1>2

LEMMA MarkKeepsFile ==
  ASSUME NEW j \in Journals, NEW t \in Tests, FileKept(j)
  PROVE  FileKept(MarkSnapshotsChecked(j, t))
BY MarkFields DEF FileKept

LEMMA RemoveKeepsFile ==
  ASSUME NEW j \in Journals, FileKept(j)
  PROVE  FileKept(RemoveObsolete(j))
BY RemoveFields DEF FileKept

\* What a step may do with the journal.
JournalStep ==
  \/ journal' = journal
  \/ \E t \in Tests, v \in Values :
       journal.counts[NameOf[t]] < MaxCount /\ journal' = MatchSnapshot(journal, t, v)
  \/ \E t \in Tests : journal' = ClearSnapshotAttempt(journal, t)
  \/ \E t \in Failing \cup Skipped : t \in Tests /\ journal' = MarkSnapshotsChecked(journal, t)
  \/ phase' = "pruned" /\ journal' = RemoveObsolete(journal)

LEMMA StepOnJournal == Next => JournalStep
<1> SUFFICES ASSUME Next PROVE JournalStep
  OBVIOUS
<1>1. CASE Load \/ BeforeAll \/ DiscardAttempt \/ FinishSuite \/ Abort \/ Prune \/ Report
  BY <1>1 DEF Load, BeforeAll, DiscardAttempt, FinishSuite, Abort, Prune, Report, JournalStep
<1>2. CASE Over
  BY <1>2 DEF Over, vars, JournalStep
<1>3. ASSUME NEW t \in Tests,
             \/ Skip(t) \/ FailWithHook(t) \/ Start(t) \/ TimeOut(t) \/ Retry(t) \/ ClearNext(t)
             \/ \E result \in {"passed", "failed"} : Finish(t, result)
      PROVE  JournalStep
  BY <1>3 DEF Skip, FailWithHook, Start, TimeOut, Retry, ClearNext, Finish, JournalStep
<1>4. ASSUME NEW t \in Tests, NEW v \in Values, Match(t, v) \/ LateMatch(t, v)
      PROVE  JournalStep
  BY <1>4 DEF Match, LateMatch, JournalStep
<1> QED
  BY <1>1, <1>2, <1>3, <1>4 DEF Next

FileKeptNow == FileKept(journal)

\* Without --updateSnapshot no entry of the snapshot file is changed or removed,
\* whatever is retried, discarded or late.
THEOREM FileEntriesStay == Spec => []FileEntriesUntouched
<1>1. Init => FileKeptNow
  BY JournalAssumption DEF Init, InitialJournal, Blank, FileKept, FileKeptNow, LoadedKeys
<1>2. TypeOK /\ FileKeptNow /\ [Next]_vars => FileKeptNow'
  <2> SUFFICES ASSUME TypeOK, FileKept(journal), [Next]_vars PROVE FileKept(journal')
    BY DEF FileKeptNow
  <2>1. journal \in Journals
    BY DEF TypeOK
  <2>2. CASE UNCHANGED vars
    BY <2>2 DEF vars
  <2>3. CASE Next
    BY <2>1, <2>3, StepOnJournal, MatchKeepsFile, ClearKeepsFile, MarkKeepsFile, RemoveKeepsFile
       DEF JournalStep
  <2> QED
    BY <2>2, <2>3
<1>3. FileKeptNow => FileEntriesUntouched
  BY DEF FileKeptNow, FileKept, FileEntriesUntouched
<1> QED
  BY <1>1, <1>2, <1>3, TypeCorrect, PTL DEF Spec

-----------------------------------------------------------------------------
\* A test that waits and is not about to be cleared has no record, unless a
\* timed-out body of it has made one.
WaitingIsClear ==
  \A t \in Tests :
    place[t] = "waiting" /\ t \notin clearing => t \notin journal.recorded \/ t \in spoke

LEMMA ClearedHasNoRecord ==
  ASSUME NEW j \in Journals, NEW t \in Tests
  PROVE  /\ t \notin ClearSnapshotAttempt(j, t).recorded
         /\ ClearSnapshotAttempt(j, t).recorded \subseteq j.recorded
BY RestoredFields DEF ClearSnapshotAttempt

LEMMA WaitingStep ==
  ASSUME TypeOK, WaitingIsClear, Next
  PROVE  WaitingIsClear'
<1>1. journal \in Journals /\ TestTypes
  BY DEF TypeOK
<1>2. CASE Load \/ BeforeAll \/ FinishSuite \/ Abort \/ Report \/ Over
  BY <1>2 DEF WaitingIsClear, Load, BeforeAll, FinishSuite, Abort, Report, Over, vars, tests, suite
<1>3. CASE Prune
  BY <1>1, <1>3, RemoveFields DEF WaitingIsClear, Prune, tests
<1>4. CASE DiscardAttempt
  BY <1>4 DEF WaitingIsClear, DiscardAttempt, RetryTests
<1>5. ASSUME NEW t \in Tests, Skip(t) \/ TimeOut(t) \/ \E r \in {"passed", "failed"} : Finish(t, r)
      PROVE  WaitingIsClear'
  BY <1>1, <1>5, MarkFields DEF WaitingIsClear, Skip, TimeOut, Finish, TestTypes, suite
<1>6. ASSUME NEW t \in Tests, FailWithHook(t) \/ Start(t)
      PROVE  WaitingIsClear'
  BY <1>1, <1>6 DEF WaitingIsClear, FailWithHook, Start, TestTypes, suite
<1>7. ASSUME NEW t \in Tests, Retry(t) PROVE WaitingIsClear'
  BY <1>1, <1>7, ClearedHasNoRecord DEF WaitingIsClear, Retry, TestTypes, suite
<1>8. ASSUME NEW t \in Tests, ClearNext(t) PROVE WaitingIsClear'
  BY <1>1, <1>8, ClearedHasNoRecord DEF WaitingIsClear, ClearNext, tests
<1>9. ASSUME NEW t \in Tests, NEW v \in Values, Match(t, v) PROVE WaitingIsClear'
  BY <1>1, <1>9, MatchFields DEF WaitingIsClear, Match, suite
<1>10. ASSUME NEW t \in Tests, NEW v \in Values, LateMatch(t, v) PROVE WaitingIsClear'
  BY <1>1, <1>10, MatchFields DEF WaitingIsClear, LateMatch, tests, suite
<1> QED
  BY <1>2, <1>3, <1>4, <1>5, <1>6, <1>7, <1>8, <1>9, <1>10 DEF Next

\* Every attempt of every test begins without a record of an earlier one, in a
\* retry of the test or of the block, unless a timed-out body has written one.
THEOREM AttemptsAreFresh == Spec => FreshAttempt
<1>1. Init => WaitingIsClear
  BY DEF Init, InitialJournal, WaitingIsClear
<1>2. TypeOK /\ WaitingIsClear /\ [Next]_vars => WaitingIsClear'
  BY WaitingStep DEF vars, tests, suite, WaitingIsClear
<1>3. TypeOK /\ WaitingIsClear /\ [Next]_vars =>
        [\A t \in Tests :
           place[t] # "running" /\ place'[t] = "running" =>
             t \notin journal'.recorded \/ t \in spoke']_vars
  <2> SUFFICES ASSUME TypeOK, WaitingIsClear, Next, NEW t \in Tests,
                      place[t] # "running", place'[t] = "running"
               PROVE  t \notin journal'.recorded \/ t \in spoke'
    OBVIOUS
  <2>1. journal \in Journals /\ place \in [Tests -> {"waiting", "running", "settled"}]
    BY DEF TypeOK, TestTypes
  <2>2. Start(t) \/ Retry(t)
    BY <2>1 DEF Next, Load, BeforeAll, DiscardAttempt, FinishSuite, Abort, Prune, Report, Over,
                Skip, FailWithHook, Start, TimeOut, Retry, ClearNext, Match, LateMatch, Finish,
                vars, tests
  <2>3. CASE Start(t)
    BY <2>3 DEF Start, Turn, WaitingIsClear
  <2>4. CASE Retry(t)
    BY <2>1, <2>4, ClearedHasNoRecord DEF Retry
  <2> QED
    BY <2>2, <2>3, <2>4
<1> QED
  BY <1>1, <1>2, <1>3, TypeCorrect, PTL DEF Spec, FreshAttempt

-----------------------------------------------------------------------------
\* What a journal must satisfy for a clear to restore it: records speak only of
\* entries of their test's name, a test without a record has a blank one, and the
\* record of a test with a name of its own holds what the file held.
OwnKeysOnly(j) ==
  \A t \in Tests : \A k \in Keys : j.attempts[t].data[k] # Untouched => k \in KeysOf(NameOf[t])

BlankUnlessRecorded(j) == \A t \in Tests \ j.recorded : j.attempts[t] = Blank

CounterKnown(j, t) ==
  IF t \in j.recorded THEN j.attempts[t].before = 0 ELSE j.counts[NameOf[t]] = 0

DataKnown(j, t) ==
  \A k \in KeysOf(NameOf[t]) :
    IF j.attempts[t].data[k] = Untouched THEN j.data[k] = Loaded[k]
                                         ELSE j.attempts[t].data[k] = Loaded[k]

UseKnown(j, t) ==
  t \notin Failing \cup Skipped =>
    KeysOf(NameOf[t]) \cap LoadedKeys \subseteq j.unchecked \cup j.attempts[t].checked

Restorable(j) ==
  /\ OwnKeysOnly(j)
  /\ BlankUnlessRecorded(j)
  /\ \A t \in Tests : OwnName(t) => CounterKnown(j, t) /\ DataKnown(j, t) /\ UseKnown(j, t)

\* The entries of two names are different.
LEMMA KeysDiffer ==
  ASSUME NEW m, NEW n, m # n, NEW k, k \in KeysOf(m)
  PROVE  k \notin KeysOf(n)
BY DEF KeysOf

LEMMA InitiallyRestorable ==
  ASSUME NEW u \in Updates, NEW d \in BOOLEAN
  PROVE  Restorable(InitialJournal(u, d))
<1> DEFINE j == InitialJournal(u, d)
<1>1. \A t \in Tests : j.attempts[t] = Blank /\ NameOf[t] \in Names
  BY JournalAssumption DEF InitialJournal
<1>2. /\ j.recorded = {} /\ j.data = Loaded /\ j.unchecked = LoadedKeys
      /\ \A n \in Names : j.counts[n] = 0
  BY DEF InitialJournal
<1>3. \A k \in Keys : Blank.data[k] = Untouched
  BY DEF Blank
<1>4. \A t \in Tests : KeysOf(NameOf[t]) \subseteq Keys
  BY DEF KeysOf
<1> HIDE DEF j
<1>5. OwnKeysOnly(j) /\ BlankUnlessRecorded(j)
  BY <1>1, <1>3 DEF OwnKeysOnly, BlankUnlessRecorded
<1>6. \A t \in Tests : CounterKnown(j, t) /\ DataKnown(j, t) /\ UseKnown(j, t)
  BY <1>1, <1>2, <1>3, <1>4 DEF CounterKnown, DataKnown, UseKnown
<1> QED
  BY <1>5, <1>6 DEF Restorable, j

\* A match of u.
LEMMA MatchKeepsRestorable ==
  ASSUME NEW j \in Journals, NEW u \in Tests, NEW v \in Values,
         j.counts[NameOf[u]] < MaxCount, Restorable(j)
  PROVE  Restorable(MatchSnapshot(j, u, v))
<1> DEFINE m == MatchSnapshot(j, u, v)
           key == NextKey(j, u)
           s == MatchStatus(j, u, key, v)
           old == RecordOf(j, u)
           new == Noted(j, old, key, s)
<1>1. key \in Keys /\ key \in KeysOf(NameOf[u])
  BY NextKeyType DEF KeysOf
<1>2. /\ m.recorded = j.recorded \cup {u}
      /\ \A t \in Tests : m.attempts[t] = IF t = u THEN new ELSE j.attempts[t]
      /\ \A k \in Keys : m.data[k] = IF k = key /\ s \in {"updated", "added"} THEN v ELSE j.data[k]
      /\ m.unchecked = j.unchecked \ {key}
      /\ \A n \in Names \ {NameOf[u]} : m.counts[n] = j.counts[n]
  BY MatchFields
<1>3. /\ old.checked = j.attempts[u].checked
      /\ old.data = j.attempts[u].data
      /\ old.before = IF u \in j.recorded THEN j.attempts[u].before ELSE j.counts[NameOf[u]]
  BY DEF RecordOf, Restorable, BlankUnlessRecorded, Blank
<1>4. /\ new.before = old.before
      /\ new.checked = old.checked \cup ({key} \cap j.unchecked)
      /\ \A k \in Keys : new.data[k] =
           IF k = key /\ s \in {"matched", "updated", "added"} /\ old.data[k] = Untouched
           THEN j.data[k] ELSE old.data[k]
  BY DEF Noted
<1> HIDE DEF m, key, s, old, new
<1>5. OwnKeysOnly(m)
  BY <1>1, <1>2, <1>3, <1>4 DEF Restorable, OwnKeysOnly
<1>6. BlankUnlessRecorded(m)
  BY <1>2 DEF Restorable, BlankUnlessRecorded
<1>7. ASSUME NEW t \in Tests, OwnName(t)
      PROVE  CounterKnown(m, t) /\ DataKnown(m, t) /\ UseKnown(m, t)
  <2>1. CounterKnown(j, t) /\ DataKnown(j, t) /\ UseKnown(j, t)
    BY <1>7 DEF Restorable
  <2>2. KeysOf(NameOf[t]) \subseteq Keys /\ NameOf[t] \in Names
    BY JournalAssumption DEF KeysOf
  <2>3. CASE t = u
    <3>1. CounterKnown(m, t)
      BY <1>2, <1>3, <1>4, <2>1, <2>3 DEF CounterKnown
    <3>2. DataKnown(m, t)
      <4> SUFFICES ASSUME NEW k \in KeysOf(NameOf[t])
                   PROVE  IF new.data[k] = Untouched THEN m.data[k] = Loaded[k]
                                                     ELSE new.data[k] = Loaded[k]
        BY <1>2, <2>3 DEF DataKnown
      <4>1. k \in Keys /\ j.data[k] # Untouched
        BY <2>2, JournalAssumption DEF Journals
      <4>2. IF old.data[k] = Untouched THEN j.data[k] = Loaded[k] ELSE old.data[k] = Loaded[k]
        BY <1>3, <2>1, <2>3 DEF DataKnown
      <4> QED
        BY <1>2, <1>4, <4>1, <4>2
    <3>3. UseKnown(m, t)
      BY <1>2, <1>3, <1>4, <2>1, <2>3 DEF UseKnown
    <3> QED
      BY <3>1, <3>2, <3>3
  <2>4. CASE t # u
    <3>1. NameOf[u] # NameOf[t]
      BY <1>7, <2>4 DEF OwnName
    <3>2. key \notin KeysOf(NameOf[t])
      BY <1>1, <3>1, KeysDiffer
    <3>3. m.attempts[t] = j.attempts[t] /\ m.counts[NameOf[t]] = j.counts[NameOf[t]]
      BY <1>2, <2>2, <2>4, <3>1
    <3>4. CounterKnown(m, t)
      BY <1>2, <2>1, <2>4, <3>3 DEF CounterKnown
    <3>5. DataKnown(m, t)
      BY <1>2, <2>1, <2>2, <3>2, <3>3 DEF DataKnown
    <3>6. UseKnown(m, t)
      BY <1>2, <2>1, <3>2, <3>3 DEF UseKnown
    <3> QED
      BY <3>4, <3>5, <3>6
  <2> QED
    BY <2>3, <2>4
<1> QED
  BY <1>5, <1>6, <1>7 DEF Restorable, m

\* The clear of u.
LEMMA ClearKeepsRestorable ==
  ASSUME NEW j \in Journals, NEW u \in Tests, Restorable(j)
  PROVE  Restorable(ClearSnapshotAttempt(j, u))
<1>1. CASE u \notin j.recorded
  BY <1>1 DEF ClearSnapshotAttempt
<1>2. CASE u \in j.recorded
  <2> DEFINE c == Restored(j, u)
             r == j.attempts[u]
  <2>1. /\ c.recorded = j.recorded \ {u}
        /\ \A t \in Tests : c.attempts[t] = IF t = u THEN Blank ELSE j.attempts[t]
        /\ \A k \in Keys : c.data[k] = IF r.data[k] = Untouched THEN j.data[k] ELSE r.data[k]
        /\ c.unchecked = j.unchecked \cup r.checked
        /\ \A n \in Names : c.counts[n] = IF n = NameOf[u] THEN r.before ELSE j.counts[n]
    BY RestoredFields
  <2>2. \A k \in Keys : Blank.data[k] = Untouched
    BY DEF Blank
  <2> HIDE DEF c, r
  <2>3. OwnKeysOnly(c)
    BY <2>1, <2>2 DEF Restorable, OwnKeysOnly
  <2>4. BlankUnlessRecorded(c)
    BY <2>1 DEF Restorable, BlankUnlessRecorded
  <2>5. ASSUME NEW t \in Tests, OwnName(t)
        PROVE  CounterKnown(c, t) /\ DataKnown(c, t) /\ UseKnown(c, t)
    <3>1. CounterKnown(j, t) /\ DataKnown(j, t) /\ UseKnown(j, t)
      BY <2>5 DEF Restorable
    <3>2. KeysOf(NameOf[t]) \subseteq Keys /\ NameOf[t] \in Names
      BY JournalAssumption DEF KeysOf
    <3>3. CASE t = u
      <4>1. CounterKnown(c, t)
        BY <1>2, <2>1, <3>1, <3>2, <3>3 DEF CounterKnown, r
      <4>2. DataKnown(c, t)
        BY <2>1, <2>2, <3>1, <3>2, <3>3 DEF DataKnown, r
      <4>3. UseKnown(c, t)
        BY <2>1, <3>1, <3>3 DEF UseKnown, r
      <4> QED
        BY <4>1, <4>2, <4>3
    <3>4. CASE t # u
      <4>1. NameOf[u] # NameOf[t]
        BY <2>5, <3>4 DEF OwnName
      <4>2. \A k \in KeysOf(NameOf[t]) : r.data[k] = Untouched
        BY <3>2, <4>1, KeysDiffer DEF Restorable, OwnKeysOnly, r
      <4>3. CounterKnown(c, t)
        BY <2>1, <3>1, <3>2, <3>4, <4>1 DEF CounterKnown
      <4>4. DataKnown(c, t)
        BY <2>1, <3>1, <3>2, <3>4, <4>2 DEF DataKnown
      <4>5. UseKnown(c, t)
        BY <2>1, <3>1, <3>4 DEF UseKnown
      <4> QED
        BY <4>3, <4>4, <4>5
    <3> QED
      BY <3>3, <3>4
  <2> QED
    BY <1>2, <2>3, <2>4, <2>5 DEF Restorable, ClearSnapshotAttempt, c
<1> QED
  BY <1>1, <1>2

\* The entries of a skipped or failing test count as used.
LEMMA MarkKeepsRestorable ==
  ASSUME NEW j \in Journals, NEW u \in Tests, u \in Failing \cup Skipped, Restorable(j)
  PROVE  Restorable(MarkSnapshotsChecked(j, u))
<1> DEFINE m == MarkSnapshotsChecked(j, u)
<1>1. /\ m.recorded = j.recorded /\ m.attempts = j.attempts
      /\ m.data = j.data /\ m.counts = j.counts
      /\ m.unchecked = j.unchecked \ KeysOf(NameOf[u])
  BY MarkFields
<1> HIDE DEF m
<1>2. OwnKeysOnly(m) /\ BlankUnlessRecorded(m)
  BY <1>1 DEF Restorable, OwnKeysOnly, BlankUnlessRecorded
<1>3. ASSUME NEW t \in Tests, OwnName(t)
      PROVE  CounterKnown(m, t) /\ DataKnown(m, t) /\ UseKnown(m, t)
  <2>1. CounterKnown(j, t) /\ DataKnown(j, t) /\ UseKnown(j, t)
    BY <1>3 DEF Restorable
  <2>2. CounterKnown(m, t) /\ DataKnown(m, t)
    BY <1>1, <2>1 DEF CounterKnown, DataKnown
  <2>3. UseKnown(m, t)
    <3>1. CASE t = u
      BY <3>1 DEF UseKnown
    <3>2. CASE t # u
      <4>1. \A k \in KeysOf(NameOf[t]) : k \notin KeysOf(NameOf[u])
        BY <1>3, <3>2, KeysDiffer DEF OwnName
      <4> QED
        BY <1>1, <2>1, <4>1 DEF UseKnown
    <3> QED
      BY <3>1, <3>2
  <2> QED
    BY <2>2, <2>3
<1> QED
  BY <1>2, <1>3 DEF Restorable, m

RestorableNow == phase \in {"loading", "suite", "finished"} => Restorable(journal)

LEMMA PhaseOnlyAdvances ==
  Next /\ phase' \in {"loading", "suite", "finished"} => phase \in {"loading", "suite", "finished"}
BY DEF Next, SuiteDone, Load, BeforeAll, DiscardAttempt, FinishSuite, Abort, Prune, Report, Over, Skip,
       FailWithHook, Start, TimeOut, Retry, ClearNext, Match, LateMatch, Finish, vars, suite

\* A test without a journal record has left no trace in the snapshot state, so
\* that every attempt finds what the first one found, however matches and clears
\* of other tests, late bodies and describe retries interleave.
THEOREM DiscardedLeavesNoTrace == Spec => []NoTraceWithoutRecord
<1>1. Init => RestorableNow
  BY InitiallyRestorable DEF Init, RestorableNow, Updates
<1>2. TypeOK /\ RestorableNow /\ [Next]_vars => RestorableNow'
  <2> SUFFICES ASSUME TypeOK, RestorableNow, [Next]_vars,
                      phase' \in {"loading", "suite", "finished"}
               PROVE  Restorable(journal')
    BY DEF RestorableNow
  <2>1. journal \in Journals
    BY DEF TypeOK
  <2>2. CASE UNCHANGED vars
    BY <2>2 DEF vars, suite, RestorableNow
  <2>3. CASE Next
    <3>1. Restorable(journal)
      BY <2>3, PhaseOnlyAdvances DEF RestorableNow
    <3>2. JournalStep /\ phase' # "pruned"
      BY <2>3, StepOnJournal
    <3> QED
      BY <2>1, <3>1, <3>2, MatchKeepsRestorable, ClearKeepsRestorable, MarkKeepsRestorable
         DEF JournalStep
  <2> QED
    BY <2>2, <2>3
<1>3. RestorableNow => NoTraceWithoutRecord
  <2> SUFFICES ASSUME Restorable(journal), NEW t \in Tests \ journal.recorded, OwnName(t)
               PROVE  /\ journal.counts[NameOf[t]] = 0
                      /\ \A k \in KeysOf(NameOf[t]) : journal.data[k] = Loaded[k]
                      /\ t \notin Failing \cup Skipped =>
                           KeysOf(NameOf[t]) \cap LoadedKeys \subseteq journal.unchecked
    BY DEF RestorableNow, NoTraceWithoutRecord
  <2>1. CounterKnown(journal, t) /\ DataKnown(journal, t) /\ UseKnown(journal, t)
    BY DEF Restorable
  <2>2. journal.attempts[t] = Blank
    BY DEF Restorable, BlankUnlessRecorded
  <2>3. Blank.checked = {} /\ \A k \in KeysOf(NameOf[t]) : Blank.data[k] = Untouched
    BY DEF Blank, KeysOf
  <2> QED
    BY <2>1, <2>2, <2>3 DEF CounterKnown, DataKnown, UseKnown
<1> QED
  BY <1>1, <1>2, <1>3, TypeCorrect, PTL DEF Spec
-----------------------------------------------------------------------------
\* What keeps the used entries in the data: the keys an attempt has noted or
\* taken from the unchecked ones are entries of its test's name, and while the
\* record of a test with a name of its own stands, the entries it noted are
\* there and are not about to be removed.
OwnUseOnly(j) == \A t \in Tests : j.attempts[t].checked \subseteq KeysOf(NameOf[t])

EntriesHeld(j, t) ==
  \A k \in Keys : j.attempts[t].data[k] # Untouched => j.data[k] # NoEntry /\ k \notin j.unchecked

Holding(j) ==
  /\ OwnKeysOnly(j)
  /\ OwnUseOnly(j)
  /\ BlankUnlessRecorded(j)
  /\ \A t \in Tests : OwnName(t) => EntriesHeld(j, t)

\* A match of u: the entry it notes is there when the match is over.
LEMMA MatchKeepsHolding ==
  ASSUME NEW j \in Journals, NEW u \in Tests, NEW v \in Values,
         j.counts[NameOf[u]] < MaxCount, Holding(j)
  PROVE  Holding(MatchSnapshot(j, u, v))
<1> DEFINE m == MatchSnapshot(j, u, v)
           key == NextKey(j, u)
           s == MatchStatus(j, u, key, v)
           old == RecordOf(j, u)
           new == Noted(j, old, key, s)
<1>1. key \in Keys /\ key \in KeysOf(NameOf[u])
  BY NextKeyType DEF KeysOf
<1>2. /\ m.recorded = j.recorded \cup {u}
      /\ \A t \in Tests : m.attempts[t] = IF t = u THEN new ELSE j.attempts[t]
      /\ \A k \in Keys : m.data[k] = IF k = key /\ s \in {"updated", "added"} THEN v ELSE j.data[k]
      /\ m.unchecked = j.unchecked \ {key}
  BY MatchFields
<1>3. old.checked = j.attempts[u].checked /\ old.data = j.attempts[u].data
  BY DEF RecordOf, Holding, BlankUnlessRecorded, Blank
<1>4. /\ new.checked = old.checked \cup ({key} \cap j.unchecked)
      /\ \A k \in Keys : new.data[k] =
           IF k = key /\ s \in {"matched", "updated", "added"} /\ old.data[k] = Untouched
           THEN j.data[k] ELSE old.data[k]
  BY DEF Noted
<1>5. s = "matched" => j.data[key] = v
  BY DEF MatchStatus
<1>6. v # NoEntry
  BY JournalAssumption
<1> HIDE DEF m, key, s, old, new
<1>7. OwnKeysOnly(m)
  BY <1>1, <1>2, <1>3, <1>4 DEF Holding, OwnKeysOnly
<1>8. OwnUseOnly(m)
  BY <1>1, <1>2, <1>3, <1>4 DEF Holding, OwnUseOnly
<1>9. BlankUnlessRecorded(m)
  BY <1>2 DEF Holding, BlankUnlessRecorded
<1>10. ASSUME NEW t \in Tests, OwnName(t)
       PROVE  EntriesHeld(m, t)
  <2>1. EntriesHeld(j, t)
    BY <1>10 DEF Holding
  <2>2. CASE t = u
    <3> SUFFICES ASSUME NEW k \in Keys, new.data[k] # Untouched
                 PROVE  m.data[k] # NoEntry /\ k \notin m.unchecked
      BY <1>2, <2>2 DEF EntriesHeld
    <3>1. CASE k = key
      BY <1>2, <1>3, <1>4, <1>5, <1>6, <2>1, <2>2, <3>1 DEF EntriesHeld
    <3>2. CASE k # key
      BY <1>2, <1>3, <1>4, <2>1, <2>2, <3>2 DEF EntriesHeld
    <3> QED
      BY <3>1, <3>2
  <2>3. CASE t # u
    <3>1. key \notin KeysOf(NameOf[t])
      BY <1>1, <1>10, <2>3, KeysDiffer DEF OwnName
    <3>2. \A k \in Keys : j.attempts[t].data[k] # Untouched => k # key
      BY <3>1 DEF Holding, OwnKeysOnly
    <3> QED
      BY <1>2, <2>1, <2>3, <3>2 DEF EntriesHeld
  <2> QED
    BY <2>2, <2>3
<1> QED
  BY <1>7, <1>8, <1>9, <1>10 DEF Holding, m

\* The clear of u touches entries of u's name only.
LEMMA ClearKeepsHolding ==
  ASSUME NEW j \in Journals, NEW u \in Tests, Holding(j)
  PROVE  Holding(ClearSnapshotAttempt(j, u))
<1>1. CASE u \notin j.recorded
  BY <1>1 DEF ClearSnapshotAttempt
<1>2. CASE u \in j.recorded
  <2> DEFINE c == Restored(j, u)
             r == j.attempts[u]
  <2>1. /\ c.recorded = j.recorded \ {u}
        /\ \A t \in Tests : c.attempts[t] = IF t = u THEN Blank ELSE j.attempts[t]
        /\ \A k \in Keys : c.data[k] = IF r.data[k] = Untouched THEN j.data[k] ELSE r.data[k]
        /\ c.unchecked = j.unchecked \cup r.checked
    BY RestoredFields
  <2>2. Blank.checked = {} /\ \A k \in Keys : Blank.data[k] = Untouched
    BY DEF Blank
  <2>3. r.checked \subseteq KeysOf(NameOf[u])
    BY DEF Holding, OwnUseOnly
  <2>4. \A k \in Keys : r.data[k] # Untouched => k \in KeysOf(NameOf[u])
    BY DEF Holding, OwnKeysOnly
  <2> HIDE DEF c, r
  <2>5. OwnKeysOnly(c)
    BY <2>1, <2>2 DEF Holding, OwnKeysOnly
  <2>6. OwnUseOnly(c)
    BY <2>1, <2>2 DEF Holding, OwnUseOnly
  <2>7. BlankUnlessRecorded(c)
    BY <2>1 DEF Holding, BlankUnlessRecorded
  <2>8. ASSUME NEW t \in Tests, OwnName(t)
        PROVE  EntriesHeld(c, t)
    <3>1. CASE t = u
      BY <2>1, <2>2, <3>1 DEF EntriesHeld
    <3>2. CASE t # u
      <4>1. NameOf[u] # NameOf[t]
        BY <2>8, <3>2 DEF OwnName
      <4>2. EntriesHeld(j, t)
        BY <2>8 DEF Holding
      <4>3. \A k \in Keys : j.attempts[t].data[k] # Untouched => k \notin KeysOf(NameOf[u])
        BY <4>1, KeysDiffer DEF Holding, OwnKeysOnly
      <4> QED
        BY <2>1, <2>3, <2>4, <3>2, <4>2, <4>3 DEF EntriesHeld
    <3> QED
      BY <3>1, <3>2
  <2> QED
    BY <1>2, <2>5, <2>6, <2>7, <2>8 DEF Holding, ClearSnapshotAttempt, c
<1> QED
  BY <1>1, <1>2

\* Entries that count as used stay so.
LEMMA MarkKeepsHolding ==
  ASSUME NEW j \in Journals, NEW u \in Tests, Holding(j)
  PROVE  Holding(MarkSnapshotsChecked(j, u))
BY MarkFields DEF Holding, OwnKeysOnly, OwnUseOnly, BlankUnlessRecorded, EntriesHeld

\* Only unused entries are removed.
LEMMA RemoveKeepsHolding ==
  ASSUME NEW j \in Journals, Holding(j)
  PROVE  Holding(RemoveObsolete(j))
<1> DEFINE p == RemoveObsolete(j)
<1>1. /\ p.recorded = j.recorded /\ p.attempts = j.attempts
      /\ p.unchecked \subseteq j.unchecked
      /\ \A k \in Keys : k \notin j.unchecked => p.data[k] = j.data[k]
  BY DEF RemoveObsolete, Journals
<1> HIDE DEF p
<1>2. OwnKeysOnly(p) /\ OwnUseOnly(p) /\ BlankUnlessRecorded(p)
  BY <1>1 DEF Holding, OwnKeysOnly, OwnUseOnly, BlankUnlessRecorded
<1>3. \A t \in Tests : OwnName(t) => EntriesHeld(p, t)
  BY <1>1 DEF Holding, EntriesHeld
<1> QED
  BY <1>2, <1>3 DEF Holding, p

HoldingNow == Holding(journal)

\* What a kept attempt matched or wrote is in the result: neither the clear of
\* another test, nor a late body, nor the removal of obsolete entries, before
\* or after which bodies may still match, takes it away.
THEOREM UsedEntriesStay == Spec => []UsedEntriesSurvive
<1>1. Init => HoldingNow
  <2> SUFFICES ASSUME Init PROVE Holding(journal)
    BY DEF HoldingNow
  <2>1. /\ \A t \in Tests : journal.attempts[t] = Blank
        /\ Blank.checked = {} /\ \A k \in Keys : Blank.data[k] = Untouched
    BY DEF Init, InitialJournal, Blank
  <2> QED
    BY <2>1 DEF Holding, OwnKeysOnly, OwnUseOnly, BlankUnlessRecorded, EntriesHeld
<1>2. TypeOK /\ HoldingNow /\ [Next]_vars => HoldingNow'
  <2> SUFFICES ASSUME TypeOK, Holding(journal), [Next]_vars PROVE Holding(journal')
    BY DEF HoldingNow
  <2>1. journal \in Journals
    BY DEF TypeOK
  <2>2. CASE UNCHANGED vars
    BY <2>2 DEF vars
  <2>3. CASE Next
    BY <2>1, <2>3, StepOnJournal, MatchKeepsHolding, ClearKeepsHolding, MarkKeepsHolding,
       RemoveKeepsHolding DEF JournalStep
  <2> QED
    BY <2>2, <2>3
<1>3. TypeOK /\ HoldingNow => UsedEntriesSurvive
  BY DEF TypeOK, Journals, HoldingNow, Holding, EntriesHeld, UsedEntriesSurvive
<1> QED
  BY <1>1, <1>2, <1>3, TypeCorrect, PTL DEF Spec
-----------------------------------------------------------------------------
\* The dirty flag.  The attempts whose writes are in the journal:
Writers(j) == {t \in Tests : j.attempts[t].ownWrites > 0}

Own(j, t) == j.attempts[t].ownWrites
First(j, t) == j.attempts[t].writesBefore

\* Every writer began to write at a different count, and between then and the
\* present count lies room for its own writes and for those of all the writers
\* that began after it: f says how much is reserved.
Reserved(j, f) ==
  \A t \in Writers(j) :
    /\ f[t] >= Own(j, t)
    /\ First(j, t) + f[t] <= j.writeCount
    /\ \A u \in Writers(j) \ {t} :
         \/ First(j, t) < First(j, u) /\ f[t] >= Own(j, t) + f[u]
         \/ First(j, u) < First(j, t)

Ledger(j) == \E f \in [Tests -> Nat] : Reserved(j, f)

\* A flag that is down, now or in a record, was never owed to anybody: the file
\* need not be written for its header, and nobody had written.
FlagKnown(j) ==
  /\ ~j.dirty => ~loadedDirty /\ Writers(j) = {}
  /\ \A t \in Writers(j) : ~j.attempts[t].dirtyBefore =>
       ~loadedDirty /\ \A u \in Writers(j) \ {t} : First(j, t) < First(j, u)

\* An entry that is not the file's is one of a writer.
ChangesOwned(j) ==
  \A k \in Keys : j.data[k] # Loaded[k] => \E t \in Writers(j) : k \in KeysOf(NameOf[t])

Clean(j) == Restorable(j) /\ Ledger(j) /\ FlagKnown(j) /\ ChangesOwned(j)

\* What a match does to the numbers.
LEMMA MatchNumbers ==
  ASSUME NEW j \in Journals, NEW u \in Tests, NEW v \in Values, BlankUnlessRecorded(j)
  PROVE  LET m == MatchSnapshot(j, u, v)
             writes == MatchStatus(j, u, NextKey(j, u), v) \in {"updated", "added"}
         IN /\ \A t \in Tests \ {u} : m.attempts[t] = j.attempts[t]
            /\ ~writes => /\ m.writeCount = j.writeCount /\ m.dirty = j.dirty
                          /\ Own(m, u) = Own(j, u)
                          /\ First(m, u) = First(j, u)
                          /\ m.attempts[u].dirtyBefore = j.attempts[u].dirtyBefore
            /\ writes => /\ m.writeCount = j.writeCount + 1 /\ m.dirty
                         /\ Own(m, u) = Own(j, u) + 1
                         /\ First(m, u) = IF Own(j, u) = 0 THEN j.writeCount ELSE First(j, u)
                         /\ m.attempts[u].dirtyBefore =
                              IF Own(j, u) = 0 THEN j.dirty ELSE j.attempts[u].dirtyBefore
<1> DEFINE key == NextKey(j, u)
           s == MatchStatus(j, u, key, v)
           old == RecordOf(j, u)
           new == Noted(j, old, key, s)
           m == MatchSnapshot(j, u, v)
           writes == s \in {"updated", "added"}
<1>1. \A t \in Tests : m.attempts[t] = IF t = u THEN new ELSE j.attempts[t]
  BY MatchFields
<1>2. m.writeCount = j.writeCount + (IF writes THEN 1 ELSE 0) /\ m.dirty = (j.dirty \/ writes)
  BY DEF MatchSnapshot, Journals
<1>3. /\ old.ownWrites = j.attempts[u].ownWrites
      /\ old.writesBefore = j.attempts[u].writesBefore
      /\ old.dirtyBefore = j.attempts[u].dirtyBefore
  BY DEF RecordOf, BlankUnlessRecorded, Blank
<1>4. /\ new.ownWrites = old.ownWrites + (IF writes THEN 1 ELSE 0)
      /\ new.dirtyBefore = IF writes /\ old.ownWrites = 0 THEN j.dirty ELSE old.dirtyBefore
      /\ new.writesBefore = IF writes /\ old.ownWrites = 0 THEN j.writeCount ELSE old.writesBefore
  BY DEF Noted
<1>5. j.attempts[u].ownWrites \in Nat /\ j.writeCount \in Nat /\ j.dirty \in BOOLEAN
  BY DEF Journals, Records
<1> HIDE DEF key, s, old, new, m
<1>6. /\ \A t \in Tests \ {u} : m.attempts[t] = j.attempts[t]
      /\ m.attempts[u] = new
  BY <1>1
<1>7. ~writes => /\ m.writeCount = j.writeCount /\ m.dirty = j.dirty
                 /\ Own(m, u) = Own(j, u)
                 /\ First(m, u) = First(j, u)
                 /\ m.attempts[u].dirtyBefore = j.attempts[u].dirtyBefore
  BY <1>2, <1>3, <1>4, <1>5, <1>6 DEF Own, First
<1>8. writes => /\ m.writeCount = j.writeCount + 1 /\ m.dirty
                /\ Own(m, u) = Own(j, u) + 1
                /\ First(m, u) = IF Own(j, u) = 0 THEN j.writeCount ELSE First(j, u)
                /\ m.attempts[u].dirtyBefore =
                     IF Own(j, u) = 0 THEN j.dirty ELSE j.attempts[u].dirtyBefore
  BY <1>2, <1>3, <1>4, <1>5, <1>6 DEF Own, First
<1> QED
  BY <1>6, <1>7, <1>8 DEF key, s, m

\* What a clear does to them.
LEMMA RestoredNumbers ==
  ASSUME NEW j \in Journals, NEW x \in Tests
  PROVE  LET c == Restored(j, x)
         IN /\ \A t \in Tests \ {x} : c.attempts[t] = j.attempts[t]
            /\ c.attempts[x] = Blank
            /\ OnlyWriter(j, j.attempts[x]) => /\ c.writeCount = First(j, x)
                                               /\ c.dirty = j.attempts[x].dirtyBefore
            /\ ~OnlyWriter(j, j.attempts[x]) => c.writeCount = j.writeCount /\ c.dirty = j.dirty
BY DEF Restored, Journals, First

LEMMA NumberTypes ==
  ASSUME NEW j \in Journals
  PROVE  /\ j.writeCount \in Nat /\ j.dirty \in BOOLEAN
         /\ \A t \in Tests : Own(j, t) \in Nat /\ First(j, t) \in Nat
                             /\ j.attempts[t].dirtyBefore \in BOOLEAN
BY DEF Journals, Records, Own, First

\* A write finds room: it is reserved with every writer that began before it.
LEMMA MatchKeepsLedger ==
  ASSUME NEW j \in Journals, NEW u \in Tests, NEW v \in Values,
         j.counts[NameOf[u]] < MaxCount, BlankUnlessRecorded(j), Ledger(j)
  PROVE  Ledger(MatchSnapshot(j, u, v))
<1> DEFINE m == MatchSnapshot(j, u, v)
           writes == MatchStatus(j, u, NextKey(j, u), v) \in {"updated", "added"}
<1>1. \A t \in Tests \ {u} : m.attempts[t] = j.attempts[t]
  BY MatchNumbers
<1>2. \A t \in Tests \ {u} : Own(m, t) = Own(j, t) /\ First(m, t) = First(j, t)
  BY <1>1 DEF Own, First
<1>3. PICK f \in [Tests -> Nat] : Reserved(j, f)
  BY DEF Ledger
<1>4. /\ j.writeCount \in Nat /\ m.writeCount \in Nat
      /\ \A t \in Tests : Own(j, t) \in Nat /\ First(j, t) \in Nat /\ f[t] \in Nat
  BY NumberTypes, MatchType
<1>5. CASE ~writes
  <2>1. m.writeCount = j.writeCount /\ Own(m, u) = Own(j, u) /\ First(m, u) = First(j, u)
    BY <1>5, MatchNumbers
  <2> HIDE DEF m, writes
  <2>2. \A t \in Tests : Own(m, t) = Own(j, t) /\ First(m, t) = First(j, t)
    BY <1>2, <2>1
  <2>3. Writers(m) = Writers(j)
    BY <2>2 DEF Writers, Own
  <2>4. Reserved(m, f)
    BY <1>3, <2>1, <2>2, <2>3 DEF Reserved, Writers
  <2> QED
    BY <2>4 DEF Ledger, m
<1>6. CASE writes
  <2>1. /\ m.writeCount = j.writeCount + 1 /\ Own(m, u) = Own(j, u) + 1
        /\ First(m, u) = IF Own(j, u) = 0 THEN j.writeCount ELSE First(j, u)
    BY <1>6, MatchNumbers
  <2> HIDE DEF m, writes
  <2>2. Writers(m) = Writers(j) \cup {u}
    BY <1>2, <1>4, <2>1 DEF Writers, Own
  <2>3. \A t \in Tests : t \in Writers(j) <=> Own(j, t) > 0
    BY DEF Writers, Own
  <2>4. /\ \A t \in Writers(j) : /\ f[t] >= Own(j, t)
                                 /\ First(j, t) + f[t] <= j.writeCount
        /\ \A t, x \in Writers(j) : t # x =>
             \/ First(j, t) < First(j, x) /\ f[t] >= Own(j, t) + f[x]
             \/ First(j, x) < First(j, t)
    BY <1>3 DEF Reserved
  <2>5. CASE u \in Writers(j)
    <3> DEFINE g == [t \in Tests |-> IF First(j, t) <= First(j, u) THEN f[t] + 1 ELSE f[t]]
    <3>1. g \in [Tests -> Nat]
      BY <1>4
    <3>2. First(m, u) = First(j, u)
      BY <1>4, <2>1, <2>3, <2>5
    <3>3. Writers(m) = Writers(j) /\ Writers(j) \subseteq Tests
      BY <2>2, <2>5 DEF Writers
    <3>4. \A t \in Tests : g[t] = IF First(j, t) <= First(j, u) THEN f[t] + 1 ELSE f[t]
      OBVIOUS
    <3> HIDE DEF g
    <3>5. ASSUME NEW t \in Writers(j)
          PROVE  g[t] >= Own(m, t) /\ First(m, t) + g[t] <= m.writeCount
      <4>1. t \in Tests /\ f[t] >= Own(j, t) /\ First(j, t) + f[t] <= j.writeCount
        BY <2>4, <3>3
      <4>2. CASE t = u
        BY <1>4, <2>1, <3>2, <3>4, <4>1, <4>2
      <4>3. CASE t # u
        BY <1>2, <1>4, <2>1, <3>4, <4>1, <4>3
      <4> QED
        BY <4>2, <4>3
    <3>6. ASSUME NEW t \in Writers(j), NEW x \in Writers(j) \ {t}
          PROVE  \/ First(m, t) < First(m, x) /\ g[t] >= Own(m, t) + g[x]
                 \/ First(m, x) < First(m, t)
      <4>1. /\ t \in Tests /\ x \in Tests
            /\ \/ First(j, t) < First(j, x) /\ f[t] >= Own(j, t) + f[x]
               \/ First(j, x) < First(j, t)
        BY <2>4, <3>3
      <4>2. First(m, t) = First(j, t) /\ First(m, x) = First(j, x)
        BY <1>2, <3>2, <4>1
      <4>3. CASE t = u
        BY <1>4, <2>1, <3>4, <4>1, <4>2, <4>3
      <4>4. CASE t # u
        <5>1. Own(m, t) = Own(j, t)
          BY <1>2, <4>1, <4>4
        <5>2. \/ First(j, t) < First(j, u)
              \/ First(j, u) < First(j, t)
          BY <2>4, <2>5, <4>4
        <5> QED
          BY <1>4, <3>4, <4>1, <4>2, <5>1, <5>2
      <4> QED
        BY <4>3, <4>4
    <3>7. Reserved(m, g)
      BY <3>3, <3>5, <3>6 DEF Reserved
    <3> QED
      BY <3>1, <3>7 DEF Ledger, m
  <2>6. CASE u \notin Writers(j)
    <3> DEFINE g == [t \in Tests |-> IF t = u THEN 1 ELSE f[t] + 1]
    <3>1. g \in [Tests -> Nat]
      BY <1>4
    <3>2. Own(j, u) = 0 /\ First(m, u) = j.writeCount /\ Own(m, u) = 1
      BY <1>4, <2>1, <2>3, <2>6
    <3>3. \A t \in Tests : g[t] = IF t = u THEN 1 ELSE f[t] + 1
      OBVIOUS
    <3> HIDE DEF g
    <3>4. ASSUME NEW t \in Writers(j)
          PROVE  /\ t \in Tests /\ t # u
                 /\ First(m, t) = First(j, t) /\ Own(m, t) = Own(j, t) /\ g[t] = f[t] + 1
                 /\ f[t] >= Own(m, t) /\ First(m, t) + f[t] <= j.writeCount
                 /\ Own(m, t) > 0
      BY <1>2, <2>3, <2>4, <2>6, <3>3 DEF Writers
    <3>5. ASSUME NEW t \in Writers(m)
          PROVE  g[t] >= Own(m, t) /\ First(m, t) + g[t] <= m.writeCount
      <4>1. CASE t = u
        BY <1>4, <2>1, <3>2, <3>3, <4>1
      <4>2. CASE t \in Writers(j)
        BY <1>4, <2>1, <3>4, <4>2
      <4> QED
        BY <2>2, <4>1, <4>2
    <3>6. ASSUME NEW t \in Writers(m), NEW x \in Writers(m) \ {t}
          PROVE  \/ First(m, t) < First(m, x) /\ g[t] >= Own(m, t) + g[x]
                 \/ First(m, x) < First(m, t)
      <4>1. CASE t = u
        <5>1. x \in Writers(j)
          BY <2>2, <4>1
        <5> QED
          BY <1>4, <3>2, <3>4, <4>1, <5>1
      <4>2. CASE x = u
        <5>1. t \in Writers(j)
          BY <2>2, <4>2
        <5>2. g[x] = 1 /\ First(m, x) = j.writeCount
          BY <3>2, <3>3, <4>2
        <5> QED
          BY <1>4, <3>4, <5>1, <5>2
      <4>3. CASE t # u /\ x # u
        <5>1. t \in Writers(j) /\ x \in Writers(j) /\ t # x
          BY <2>2, <4>3
        <5>2. \/ First(j, t) < First(j, x) /\ f[t] >= Own(j, t) + f[x]
              \/ First(j, x) < First(j, t)
          BY <2>4, <5>1
        <5>3. /\ First(m, t) = First(j, t) /\ Own(m, t) = Own(j, t) /\ g[t] = f[t] + 1
              /\ First(m, x) = First(j, x) /\ g[x] = f[x] + 1 /\ t \in Tests /\ x \in Tests
          BY <3>4, <5>1
        <5> QED
          BY <1>4, <5>2, <5>3
      <4> QED
        BY <4>1, <4>2, <4>3
    <3>7. Reserved(m, g)
      BY <3>5, <3>6 DEF Reserved
    <3> QED
      BY <3>1, <3>7 DEF Ledger, m
  <2> QED
    BY <2>5, <2>6
<1> QED
  BY <1>5, <1>6

\* Only the last writer may lower the count, and it gives back its own room.
LEMMA LastWriter ==
  ASSUME NEW j \in Journals, NEW x \in Tests, NEW f \in [Tests -> Nat], Reserved(j, f),
         OnlyWriter(j, j.attempts[x]),
         NEW t \in Writers(j) \ {x}
  PROVE  /\ x \in Writers(j)
         /\ First(j, t) < First(j, x)
         /\ f[t] >= Own(j, t) + f[x]
         /\ f[x] >= Own(j, x)
<1>1. Own(j, x) > 0 /\ j.writeCount - First(j, x) = Own(j, x) /\ x \in Writers(j)
  BY DEF OnlyWriter, Own, First, Writers
<1>2. /\ j.writeCount \in Nat /\ t \in Tests
      /\ \A y \in Tests : Own(j, y) \in Nat /\ First(j, y) \in Nat /\ f[y] \in Nat
  BY NumberTypes DEF Writers
<1>3. /\ f[x] >= Own(j, x) /\ First(j, x) + f[x] <= j.writeCount
      /\ f[t] >= Own(j, t) /\ First(j, t) + f[t] <= j.writeCount
  BY <1>1 DEF Reserved
<1>4. \/ First(j, t) < First(j, x) /\ f[t] >= Own(j, t) + f[x]
      \/ First(j, x) < First(j, t)
  BY <1>1 DEF Reserved
<1>5. \/ First(j, x) < First(j, t) /\ f[x] >= Own(j, x) + f[t]
      \/ First(j, t) < First(j, x)
  BY <1>1 DEF Reserved
<1>6. Own(j, t) > 0
  BY DEF Writers, Own
<1> QED
  BY <1>1, <1>2, <1>3, <1>4, <1>5, <1>6

LEMMA RestoredWriters ==
  ASSUME NEW j \in Journals, NEW x \in Tests
  PROVE  /\ Writers(Restored(j, x)) = Writers(j) \ {x}
         /\ \A t \in Tests \ {x} : /\ Own(Restored(j, x), t) = Own(j, t)
                                   /\ First(Restored(j, x), t) = First(j, t)
<1> DEFINE c == Restored(j, x)
<1>1. (\A t \in Tests \ {x} : c.attempts[t] = j.attempts[t]) /\ c.attempts[x] = Blank
  BY RestoredNumbers
<1>2. Blank.ownWrites = 0
  BY DEF Blank
<1> HIDE DEF c
<1>3. Writers(c) = Writers(j) \ {x}
  BY <1>1, <1>2 DEF Writers
<1> QED
  BY <1>1, <1>3 DEF Own, First, c

LEMMA RestoredKeepsLedger ==
  ASSUME NEW j \in Journals, NEW x \in Tests, Ledger(j)
  PROVE  Ledger(Restored(j, x))
<1> DEFINE c == Restored(j, x)
<1>1. PICK f \in [Tests -> Nat] : Reserved(j, f)
  BY DEF Ledger
<1>2. /\ Writers(c) = Writers(j) \ {x}
      /\ \A t \in Tests \ {x} : Own(c, t) = Own(j, t) /\ First(c, t) = First(j, t)
  BY RestoredWriters
<1>3. /\ j.writeCount \in Nat /\ Writers(j) \subseteq Tests
      /\ \A t \in Tests : Own(j, t) \in Nat /\ First(j, t) \in Nat /\ f[t] \in Nat
  BY NumberTypes DEF Writers
<1>4. CASE ~OnlyWriter(j, j.attempts[x])
  <2>1. c.writeCount = j.writeCount
    BY <1>4, RestoredNumbers
  <2> HIDE DEF c
  <2>2. ASSUME NEW t \in Writers(c)
        PROVE  t \in Writers(j) /\ Own(c, t) = Own(j, t) /\ First(c, t) = First(j, t)
    BY <1>2, <1>3
  <2>3. Reserved(c, f)
    BY <1>1, <2>1, <2>2 DEF Reserved
  <2> QED
    BY <2>3 DEF Ledger, c
<1>5. CASE OnlyWriter(j, j.attempts[x])
  <2> DEFINE g == [t \in Tests |-> IF t \in Writers(c) THEN f[t] - Own(j, x) ELSE 0]
  <2>1. c.writeCount = First(j, x) /\ j.writeCount - First(j, x) = Own(j, x)
    BY <1>5, RestoredNumbers DEF OnlyWriter, Own, First
  <2>2. ASSUME NEW t \in Writers(c)
        PROVE  /\ t \in Tests /\ t \in Writers(j) /\ t # x
               /\ f[t] >= Own(j, t) + Own(j, x)
               /\ First(j, t) + f[t] <= j.writeCount
               /\ Own(c, t) = Own(j, t) /\ First(c, t) = First(j, t)
    <3>1. t \in Writers(j) \ {x} /\ t \in Tests
      BY <1>2, <1>3
    <3>2. f[t] >= Own(j, t) + f[x] /\ f[x] >= Own(j, x)
      BY <1>1, <1>5, <3>1, LastWriter
    <3>3. First(j, t) + f[t] <= j.writeCount
      BY <1>1, <3>1 DEF Reserved
    <3> QED
      BY <1>2, <1>3, <3>1, <3>2, <3>3
  <2> HIDE DEF c
  <2>3. g \in [Tests -> Nat]
    BY <1>3, <2>2
  <2>4. \A t \in Writers(c) : g[t] = f[t] - Own(j, x)
    BY <2>2
  <2> HIDE DEF g
  <2>5. ASSUME NEW t \in Writers(c)
        PROVE  g[t] >= Own(c, t) /\ First(c, t) + g[t] <= c.writeCount
    BY <1>3, <2>1, <2>2, <2>4
  <2>6. ASSUME NEW t \in Writers(c), NEW u \in Writers(c) \ {t}
        PROVE  \/ First(c, t) < First(c, u) /\ g[t] >= Own(c, t) + g[u]
               \/ First(c, u) < First(c, t)
    <3>1. \/ First(j, t) < First(j, u) /\ f[t] >= Own(j, t) + f[u]
          \/ First(j, u) < First(j, t)
      BY <1>1, <2>2 DEF Reserved
    <3> QED
      BY <1>3, <2>2, <2>4, <3>1
  <2>7. Reserved(c, g)
    BY <2>5, <2>6 DEF Reserved
  <2> QED
    BY <2>3, <2>7 DEF Ledger, c
<1> QED
  BY <1>4, <1>5

\* A writer that finds the flag down is the first one.
LEMMA MatchKeepsFlag ==
  ASSUME NEW j \in Journals, NEW u \in Tests, NEW v \in Values,
         BlankUnlessRecorded(j), Ledger(j), FlagKnown(j)
  PROVE  FlagKnown(MatchSnapshot(j, u, v))
<1> DEFINE m == MatchSnapshot(j, u, v)
           writes == MatchStatus(j, u, NextKey(j, u), v) \in {"updated", "added"}
<1>1. \A t \in Tests \ {u} : /\ m.attempts[t] = j.attempts[t]
                             /\ Own(m, t) = Own(j, t) /\ First(m, t) = First(j, t)
  BY MatchNumbers DEF Own, First
<1>2. PICK f \in [Tests -> Nat] : Reserved(j, f)
  BY DEF Ledger
<1>3. /\ j.writeCount \in Nat /\ j.dirty \in BOOLEAN
      /\ \A t \in Tests : Own(j, t) \in Nat /\ First(j, t) \in Nat /\ f[t] \in Nat
  BY NumberTypes
<1>4. ASSUME NEW t \in Writers(j)
      PROVE  t \in Tests /\ First(j, t) < j.writeCount
  <2>1. t \in Tests /\ Own(j, t) > 0
    BY DEF Writers, Own
  <2>2. f[t] >= Own(j, t) /\ First(j, t) + f[t] <= j.writeCount
    BY <1>2 DEF Reserved
  <2> QED
    BY <1>3, <2>1, <2>2
<1>5. CASE ~writes
  <2>1. /\ m.writeCount = j.writeCount /\ m.dirty = j.dirty
        /\ Own(m, u) = Own(j, u) /\ First(m, u) = First(j, u)
        /\ m.attempts[u].dirtyBefore = j.attempts[u].dirtyBefore
    BY <1>5, MatchNumbers
  <2> HIDE DEF m, writes
  <2>2. \A t \in Tests : /\ Own(m, t) = Own(j, t) /\ First(m, t) = First(j, t)
                         /\ m.attempts[t].dirtyBefore = j.attempts[t].dirtyBefore
    BY <1>1, <2>1
  <2>3. Writers(m) = Writers(j) /\ Writers(j) \subseteq Tests
    BY <2>2 DEF Writers, Own
  <2> QED
    BY <2>1, <2>2, <2>3 DEF FlagKnown, m
<1>6. CASE writes
  <2>1. /\ m.dirty /\ Own(m, u) = Own(j, u) + 1
        /\ First(m, u) = IF Own(j, u) = 0 THEN j.writeCount ELSE First(j, u)
        /\ m.attempts[u].dirtyBefore = IF Own(j, u) = 0 THEN j.dirty ELSE j.attempts[u].dirtyBefore
    BY <1>6, MatchNumbers
  <2> HIDE DEF m, writes
  <2>2. Writers(m) = Writers(j) \cup {u} /\ \A t \in Tests : t \in Writers(j) <=> Own(j, t) > 0
    BY <1>1, <1>3, <2>1 DEF Writers, Own
  <2>3. ASSUME NEW t \in Writers(m), ~m.attempts[t].dirtyBefore
        PROVE  ~loadedDirty /\ \A x \in Writers(m) \ {t} : First(m, t) < First(m, x)
    <3>1. CASE u \in Writers(j)
      <4>1. Writers(m) = Writers(j)
        BY <2>2, <3>1
      <4>2. \A x \in Writers(j) : /\ First(m, x) = First(j, x)
                                  /\ m.attempts[x].dirtyBefore = j.attempts[x].dirtyBefore
        BY <1>1, <1>3, <1>4, <2>1, <2>2, <3>1
      <4> QED
        BY <2>3, <4>1, <4>2 DEF FlagKnown
    <3>2. CASE u \notin Writers(j)
      <4>1. First(m, u) = j.writeCount /\ m.attempts[u].dirtyBefore = j.dirty
        BY <1>3, <2>1, <2>2, <3>2
      <4>2. CASE t = u
        <5>1. ~loadedDirty /\ Writers(j) = {}
          BY <2>3, <4>1, <4>2 DEF FlagKnown
        <5> QED
          BY <2>2, <4>2, <5>1
      <4>3. CASE t # u
        <5>1. t \in Writers(j) /\ t \in Tests \ {u}
          BY <1>4, <2>2, <4>3
        <5>2. ~j.attempts[t].dirtyBefore /\ First(m, t) = First(j, t)
          BY <1>1, <2>3, <5>1
        <5>3. ~loadedDirty /\ \A x \in Writers(j) \ {t} : First(j, t) < First(j, x)
          BY <5>1, <5>2 DEF FlagKnown
        <5>4. ASSUME NEW x \in Writers(m) \ {t} PROVE First(m, t) < First(m, x)
          <6>1. CASE x = u
            BY <1>4, <4>1, <5>1, <5>2, <6>1
          <6>2. CASE x # u
            BY <1>1, <1>4, <2>2, <5>2, <5>3, <6>2
          <6> QED
            BY <6>1, <6>2
        <5> QED
          BY <5>3, <5>4
      <4> QED
        BY <4>2, <4>3
    <3> QED
      BY <3>1, <3>2
  <2> QED
    BY <2>1, <2>3 DEF FlagKnown, m
<1> QED
  BY <1>5, <1>6

\* A clear that puts the flag down leaves no writer behind.
LEMMA RestoredKeepsFlag ==
  ASSUME NEW j \in Journals, NEW x \in Tests, Ledger(j), FlagKnown(j)
  PROVE  FlagKnown(Restored(j, x))
<1> DEFINE c == Restored(j, x)
<1>1. PICK f \in [Tests -> Nat] : Reserved(j, f)
  BY DEF Ledger
<1>2. /\ Writers(c) = Writers(j) \ {x} /\ Writers(j) \subseteq Tests
      /\ \A t \in Tests \ {x} : /\ c.attempts[t] = j.attempts[t]
                                /\ First(c, t) = First(j, t)
  BY RestoredWriters, RestoredNumbers DEF Writers
<1>3. ASSUME NEW t \in Writers(c), ~c.attempts[t].dirtyBefore
      PROVE  ~loadedDirty /\ \A u \in Writers(c) \ {t} : First(c, t) < First(c, u)
  BY <1>2, <1>3 DEF FlagKnown
<1>4. ASSUME ~c.dirty
      PROVE  ~loadedDirty /\ Writers(c) = {}
  <2>1. CASE ~OnlyWriter(j, j.attempts[x])
    <3>1. ~j.dirty
      BY <1>4, <2>1, RestoredNumbers
    <3> QED
      BY <1>2, <3>1 DEF FlagKnown
  <2>2. CASE OnlyWriter(j, j.attempts[x])
    <3>1. ~j.attempts[x].dirtyBefore
      BY <1>4, <2>2, RestoredNumbers
    <3>2. x \in Writers(j)
      BY <2>2 DEF OnlyWriter, Writers
    <3>3. ~loadedDirty /\ \A u \in Writers(j) \ {x} : First(j, x) < First(j, u)
      BY <3>1, <3>2 DEF FlagKnown
    <3>4. ASSUME NEW t \in Writers(j) \ {x} PROVE FALSE
      <4>1. First(j, t) < First(j, x) /\ First(j, x) < First(j, t)
        BY <1>1, <2>2, <3>3, <3>4, LastWriter
      <4>2. First(j, t) \in Nat /\ First(j, x) \in Nat
        BY <1>2, NumberTypes
      <4> QED
        BY <4>1, <4>2
    <3> QED
      BY <1>2, <3>3, <3>4
  <2> QED
    BY <2>1, <2>2
<1> QED
  BY <1>3, <1>4 DEF FlagKnown

\* A match that changes an entry makes its test a writer.
LEMMA MatchKeepsChanges ==
  ASSUME NEW j \in Journals, NEW u \in Tests, NEW v \in Values,
         j.counts[NameOf[u]] < MaxCount, BlankUnlessRecorded(j), ChangesOwned(j)
  PROVE  ChangesOwned(MatchSnapshot(j, u, v))
<1> DEFINE m == MatchSnapshot(j, u, v)
           key == NextKey(j, u)
           writes == MatchStatus(j, u, key, v) \in {"updated", "added"}
<1>1. key \in KeysOf(NameOf[u])
  BY NextKeyType DEF KeysOf
<1>2. \A k \in Keys : m.data[k] = IF k = key /\ writes THEN v ELSE j.data[k]
  BY MatchFields
<1>3. /\ \A t \in Tests \ {u} : m.attempts[t] = j.attempts[t]
      /\ ~writes => Own(m, u) = Own(j, u)
      /\ writes => Own(m, u) = Own(j, u) + 1
  BY MatchNumbers
<1>4. Own(j, u) \in Nat
  BY NumberTypes
<1> HIDE DEF m, key, writes
<1>5. Writers(j) \subseteq Writers(m) /\ (writes => u \in Writers(m))
  BY <1>3, <1>4 DEF Writers, Own
<1> QED
  BY <1>1, <1>2, <1>5 DEF ChangesOwned, m

\* A clear takes back the changes of its attempt, which are all of its name.
LEMMA RestoredKeepsChanges ==
  ASSUME NEW j \in Journals, NEW x \in Tests, OwnName(x), Restorable(j), ChangesOwned(j)
  PROVE  ChangesOwned(Restored(j, x))
<1> DEFINE c == Restored(j, x)
           r == j.attempts[x]
<1>1. \A k \in Keys : c.data[k] = IF r.data[k] = Untouched THEN j.data[k] ELSE r.data[k]
  BY RestoredFields
<1>2. Writers(c) = Writers(j) \ {x}
  BY RestoredWriters
<1>3. \A k \in KeysOf(NameOf[x]) :
        IF r.data[k] = Untouched THEN j.data[k] = Loaded[k] ELSE r.data[k] = Loaded[k]
  BY DEF Restorable, DataKnown
<1>4. \A k \in Keys : r.data[k] # Untouched => k \in KeysOf(NameOf[x])
  BY DEF Restorable, OwnKeysOnly
<1> HIDE DEF c, r
<1> SUFFICES ASSUME NEW k \in Keys, c.data[k] # Loaded[k]
             PROVE  \E t \in Writers(c) : k \in KeysOf(NameOf[t])
  BY DEF ChangesOwned, c
<1>5. k \notin KeysOf(NameOf[x])
  BY <1>1, <1>3
<1>6. j.data[k] # Loaded[k]
  BY <1>1, <1>4, <1>5
<1> QED
  BY <1>2, <1>5, <1>6 DEF ChangesOwned

-----------------------------------------------------------------------------
AllOwnNames == \A t \in Tests : OwnName(t)

LEMMA RequestStays == Next => UNCHANGED request
BY DEF Next, Load, BeforeAll, DiscardAttempt, FinishSuite, Abort, Prune, Report, Over, Skip,
       FailWithHook, Start, TimeOut, Retry, ClearNext, Match, LateMatch, Finish, vars

\* The block is retried, and the journal cleared, only while it runs.
LEMMA ClearingStays ==
  ASSUME Next, clearing # {} => phase = "suite"
  PROVE  clearing' # {} => phase' = "suite"
BY DEF Next, SuiteDone, Load, BeforeAll, DiscardAttempt, FinishSuite, Abort, Prune, Report, Over, Skip,
       FailWithHook, Start, TimeOut, Retry, ClearNext, Match, LateMatch, Finish, vars, suite

\* Once the obsolete entries are removed no attempt is cleared any more.
LEMMA LateSteps ==
  ASSUME Next, clearing # {} => phase = "suite", phase' \notin {"loading", "suite", "finished"}
  PROVE  \/ journal' = journal
         \/ \E t \in Tests, v \in Values : journal' = MatchSnapshot(journal, t, v)
         \/ journal' = RemoveObsolete(journal)
BY DEF Next, Turn, SuiteDone, Load, BeforeAll, DiscardAttempt, FinishSuite, Abort, Prune, Report, Over, Skip,
       FailWithHook, Start, TimeOut, Retry, ClearNext, Match, LateMatch, Finish, vars, suite

LEMMA JournalStepKeepsClean ==
  ASSUME TypeOK, AllOwnNames, JournalStep, phase' # "pruned", Clean(journal), loadedDirty' = loadedDirty
  PROVE  Clean(journal')
<1>1. journal \in Journals
  BY DEF TypeOK
<1>2. ASSUME NEW t \in Tests, NEW v \in Values, journal.counts[NameOf[t]] < MaxCount,
             journal' = MatchSnapshot(journal, t, v)
      PROVE  Clean(journal')
  <2>1. BlankUnlessRecorded(journal)
    BY DEF Clean, Restorable
  <2>2. /\ Restorable(MatchSnapshot(journal, t, v)) /\ Ledger(MatchSnapshot(journal, t, v))
        /\ FlagKnown(MatchSnapshot(journal, t, v)) /\ ChangesOwned(MatchSnapshot(journal, t, v))
    BY <1>1, <1>2, <2>1, MatchKeepsRestorable, MatchKeepsLedger, MatchKeepsFlag, MatchKeepsChanges
       DEF Clean
  <2> QED
    BY <1>2, <2>2 DEF Clean, FlagKnown
<1>3. ASSUME NEW t \in Tests, journal' = ClearSnapshotAttempt(journal, t)
      PROVE  Clean(journal')
  <2>1. CASE t \notin journal.recorded
    BY <1>3, <2>1 DEF ClearSnapshotAttempt, Clean, FlagKnown
  <2>2. CASE t \in journal.recorded
    <3>1. Restorable(journal')
      BY <1>1, <1>3, ClearKeepsRestorable DEF Clean
    <3>2. /\ Ledger(Restored(journal, t)) /\ FlagKnown(Restored(journal, t))
          /\ ChangesOwned(Restored(journal, t))
      BY <1>1, RestoredKeepsLedger, RestoredKeepsFlag, RestoredKeepsChanges DEF Clean, AllOwnNames
    <3>3. journal' = Restored(journal, t)
      BY <1>3, <2>2 DEF ClearSnapshotAttempt
    <3> QED
      BY <3>1, <3>2, <3>3 DEF Clean, FlagKnown
  <2> QED
    BY <2>1, <2>2
<1>4. ASSUME NEW t \in Tests, t \in Failing \cup Skipped,
             journal' = MarkSnapshotsChecked(journal, t)
      PROVE  Clean(journal')
  <2>1. Restorable(journal')
    BY <1>1, <1>4, MarkKeepsRestorable DEF Clean
  <2>2. /\ journal'.attempts = journal.attempts /\ journal'.data = journal.data
        /\ journal'.writeCount = journal.writeCount /\ journal'.dirty = journal.dirty
    BY <1>1, <1>4 DEF MarkSnapshotsChecked, Journals
  <2> QED
    BY <2>1, <2>2
       DEF Clean, Ledger, Reserved, FlagKnown, ChangesOwned, Writers, Own, First
<1>5. CASE journal' = journal
  BY <1>5 DEF Clean, FlagKnown
<1> QED
  BY <1>2, <1>3, <1>4, <1>5 DEF JournalStep

\* When the flag is down there is nothing to write.
LEMMA CleanIsWritten ==
  ASSUME NEW j \in Journals, Clean(j)
  PROVE  loadedDirty \/ j.data # Loaded => j.dirty
<1> SUFFICES ASSUME ~j.dirty PROVE ~loadedDirty /\ j.data = Loaded
  OBVIOUS
<1>1. ~loadedDirty /\ Writers(j) = {}
  BY DEF Clean, FlagKnown
<1>2. \A k \in Keys : j.data[k] = Loaded[k]
  BY <1>1 DEF Clean, ChangesOwned
<1> QED
  BY <1>1, <1>2, JournalAssumption DEF Journals

CleanNow ==
  /\ AllOwnNames => (phase \in {"loading", "suite", "finished"} => Clean(journal))
  /\ clearing # {} => phase = "suite"

\* While an attempt may still be cleared the numbers of the journal tell when
\* the flag may go down; afterwards nothing lowers it.  The file is written
\* whenever it must be, however writers and clears interleave.
THEOREM ChangesAreWritten == Spec => []DirtyWhenNeeded
<1>1. Init => CleanNow
  <2> SUFFICES ASSUME Init PROVE Clean(journal) /\ clearing = {}
    BY DEF CleanNow
  <2>1. /\ Restorable(journal) /\ journal.data = Loaded /\ journal.dirty = loadedDirty
        /\ loadedDirty \in BOOLEAN
        /\ \A t \in Tests : journal.attempts[t] = Blank
    <3>1. PICK u \in Updates :
            /\ loadedDirty \in (IF u = "none" THEN {FALSE} ELSE BOOLEAN)
            /\ journal = InitialJournal(u, loadedDirty)
      BY DEF Init
    <3>2. loadedDirty \in BOOLEAN
      BY <3>1, Zenon
    <3> QED
      BY <3>1, <3>2, InitiallyRestorable DEF InitialJournal
  <2>2. Writers(journal) = {}
    BY <2>1 DEF Writers, Blank
  <2>3. [t \in Tests |-> 0] \in [Tests -> Nat] /\ Reserved(journal, [t \in Tests |-> 0])
    BY <2>2 DEF Reserved
  <2> QED
    BY <2>1, <2>2, <2>3 DEF Init, Clean, Ledger, FlagKnown, ChangesOwned
<1>2. TypeOK /\ CleanNow /\ DirtyWhenNeeded /\ [Next]_vars => CleanNow' /\ DirtyWhenNeeded'
  <2> SUFFICES ASSUME TypeOK, CleanNow, DirtyWhenNeeded, [Next]_vars
               PROVE  CleanNow' /\ DirtyWhenNeeded'
    OBVIOUS
  <2>1. journal \in Journals
    BY DEF TypeOK
  <2>2. CASE UNCHANGED vars
    BY <2>2 DEF vars, request, suite, CleanNow, Clean, FlagKnown, DirtyWhenNeeded
  <2>3. CASE Next
    <3>1. JournalStep /\ loadedDirty' = loadedDirty
      BY <2>3, StepOnJournal, RequestStays DEF request
    <3>2. clearing' # {} => phase' = "suite"
      BY <2>3, ClearingStays DEF CleanNow
    <3>3. journal' \in Journals
      BY <2>3, TypeStep DEF TypeOK
    <3>4. ASSUME AllOwnNames, phase' \in {"loading", "suite", "finished"}
          PROVE  Clean(journal')
      <4>1. phase \in {"loading", "suite", "finished"}
        BY <2>3, <3>4, PhaseOnlyAdvances
      <4> QED
        BY <3>1, <3>4, <4>1, JournalStepKeepsClean DEF CleanNow
    <3>5. ASSUME AllOwnNames, phase' \notin {"loading", "suite", "finished"}
          PROVE  loadedDirty \/ journal'.data # Loaded => journal'.dirty
      <4>1. \/ journal' = journal
            \/ \E t \in Tests, v \in Values : journal' = MatchSnapshot(journal, t, v)
            \/ journal' = RemoveObsolete(journal)
        BY <2>3, <3>5, LateSteps DEF CleanNow
      <4>2. CASE journal' = journal
        BY <3>5, <4>2 DEF DirtyWhenNeeded, AllOwnNames
      <4>3. ASSUME NEW t \in Tests, NEW v \in Values, journal' = MatchSnapshot(journal, t, v)
            PROVE  loadedDirty \/ journal'.data # Loaded => journal'.dirty
        <5>1. CASE MatchStatus(journal, t, NextKey(journal, t), v) \in {"updated", "added"}
          BY <2>1, <4>3, <5>1 DEF MatchSnapshot, Journals
        <5>2. CASE MatchStatus(journal, t, NextKey(journal, t), v) \notin {"updated", "added"}
          <6>1. journal'.data = journal.data /\ journal'.dirty = journal.dirty
            BY <2>1, <4>3, <5>2 DEF MatchSnapshot, Journals
          <6> QED
            BY <3>5, <6>1 DEF DirtyWhenNeeded, AllOwnNames
        <5> QED
          BY <5>1, <5>2
      <4>4. CASE journal' = RemoveObsolete(journal)
        <5>1. journal'.dirty \/ journal' = journal
          BY <2>1, <4>4 DEF RemoveObsolete, Journals
        <5> QED
          BY <3>5, <5>1 DEF DirtyWhenNeeded, AllOwnNames
      <4> QED
        BY <4>1, <4>2, <4>3, <4>4
    <3>6. DirtyWhenNeeded'
      <4> SUFFICES ASSUME AllOwnNames
                   PROVE  loadedDirty \/ journal'.data # Loaded => journal'.dirty
        BY <3>1 DEF DirtyWhenNeeded, AllOwnNames
      <4> QED
        BY <3>3, <3>4, <3>5, CleanIsWritten
    <3> QED
      BY <3>1, <3>2, <3>4, <3>6 DEF CleanNow, Clean, FlagKnown
  <2> QED
    BY <2>2, <2>3
<1>3. CleanNow /\ TypeOK /\ Init => DirtyWhenNeeded
  BY CleanIsWritten DEF CleanNow, TypeOK, Init, DirtyWhenNeeded, AllOwnNames
<1> QED
  BY <1>1, <1>2, <1>3, TypeCorrect, PTL DEF Spec
-----------------------------------------------------------------------------
\* The totals of a file, by the sums of FiniteSums.

\* The sum of the counts of a set of tests is such a function's value.
CountsOf(j, s) == [t \in Tests |-> j.attempts[t].counts[s]]

KeptTotal(j, s) == MapThenSumSet(LAMBDA t : j.attempts[t].counts[s], j.recorded)

LEMMA TotalSumsUp ==
  ASSUME NEW j \in Journals, NEW s, IsFiniteSet(j.recorded)
  PROVE  \E h : SumsUp(h, CountsOf(j, s), j.recorded) /\ KeptTotal(j, s) = h[j.recorded]
<1> DEFINE R == j.recorded
           Adds(h) == h = [q \in SUBSET R |->
                            IF q = {} THEN 0
                            ELSE j.attempts[CHOOSE x \in q : TRUE].counts[s]
                                   + h[q \ {CHOOSE x \in q : TRUE}]]
           iter == CHOOSE h : Adds(h)
<1>1. KeptTotal(j, s) = iter[R]
  BY DEF KeptTotal, MapThenSumSet, MapThenFoldSet
<1>2. R \subseteq Tests
  BY DEF Journals
<1>3. ASSUME NEW h PROVE SumsUp(h, CountsOf(j, s), R) <=> Adds(h)
  <2>1. \A q \in SUBSET R : q # {} =>
          CountsOf(j, s)[Pick(q)] = j.attempts[CHOOSE x \in q : TRUE].counts[s]
    BY <1>2, PickIn DEF CountsOf, Pick
  <2>2. [q \in SUBSET R |-> IF q = {} THEN 0 ELSE CountsOf(j, s)[Pick(q)] + h[q \ {Pick(q)}]]
        = [q \in SUBSET R |-> IF q = {} THEN 0
                              ELSE j.attempts[CHOOSE x \in q : TRUE].counts[s]
                                     + h[q \ {CHOOSE x \in q : TRUE}]]
    BY <2>1 DEF Pick
  <2> QED
    BY <2>2 DEF SumsUp
<1>4. \E h : Adds(h)
  <2>1. \E h : SumsUp(h, CountsOf(j, s), R)
    BY SumsExist
  <2> HIDE DEF Adds
  <2> QED
    BY <1>3, <2>1
<1>5. Adds(iter)
  <2> HIDE DEF Adds
  <2> QED
    BY <1>4
<1> HIDE DEF Adds, iter
<1>6. SumsUp(iter, CountsOf(j, s), R)
  BY <1>3, <1>5
<1> QED
  BY <1>1, <1>6

\* What the record of one test contributes.
Share(j, t, s) == IF t \in j.recorded THEN j.attempts[t].counts[s] ELSE 0

\* When only t's record changes, so does only its share.
LEMMA TotalChanges ==
  ASSUME NEW j \in Journals, NEW m \in Journals, NEW t \in Tests, NEW s \in Statuses,
         IsFiniteSet(j.recorded), IsFiniteSet(m.recorded),
         j.recorded \ {t} = m.recorded \ {t},
         \A u \in Tests \ {t} : m.attempts[u] = j.attempts[u]
  PROVE  /\ KeptTotal(j, s) \in Int /\ KeptTotal(m, s) \in Int
         /\ KeptTotal(m, s) = KeptTotal(j, s) - Share(j, t, s) + Share(m, t, s)
<1> DEFINE B == j.recorded \ {t}
           g == CountsOf(j, s)
           d == CountsOf(m, s)
<1>1. PICK h : SumsUp(h, g, j.recorded) /\ KeptTotal(j, s) = h[j.recorded]
  BY TotalSumsUp
<1>2. PICK i : SumsUp(i, d, m.recorded) /\ KeptTotal(m, s) = i[m.recorded]
  BY TotalSumsUp
<1>3. /\ j.recorded \subseteq Tests /\ m.recorded \subseteq Tests
      /\ \A u \in Tests : g[u] \in Int /\ d[u] \in Int
      /\ g[t] = j.attempts[t].counts[s] /\ d[t] = m.attempts[t].counts[s]
  BY DEF CountsOf, Journals, Records
<1>4. \A u \in B : g[u] = d[u]
  BY <1>3 DEF CountsOf
<1> HIDE DEF g, d
<1>5. B \subseteq j.recorded \cap m.recorded
  OBVIOUS
<1>6. h[B] = i[B]
  <2>1. \A q \in SUBSET B : h[q] = i[q]
    BY <1>1, <1>2, <1>4, <1>5, SumsAgree
  <2> QED
    BY <2>1
<1>7. \A q \in SUBSET j.recorded : h[q] \in Int /\ \A x \in q : h[q] = g[x] + h[q \ {x}]
  <2>1. SumsUp(h, g, j.recorded) /\ IntValued(g, j.recorded)
    BY <1>1, <1>3 DEF IntValued
  <2>2. RestSums(h, g, j.recorded)
    BY <2>1, SumOfRest
  <2> QED
    BY <2>2 DEF RestSums
<1>8. \A q \in SUBSET m.recorded : i[q] \in Int /\ \A x \in q : i[q] = d[x] + i[q \ {x}]
  <2>1. SumsUp(i, d, m.recorded) /\ IntValued(d, m.recorded)
    BY <1>2, <1>3 DEF IntValued
  <2>2. RestSums(i, d, m.recorded)
    BY <2>1, SumOfRest
  <2> QED
    BY <2>2 DEF RestSums
<1>9. h[B] \in Int /\ h[j.recorded] \in Int /\ i[m.recorded] \in Int
  BY <1>7, <1>8
<1>10. h[j.recorded] = Share(j, t, s) + h[B]
  <2>1. CASE t \in j.recorded
    <3>1. h[j.recorded] = g[t] + h[j.recorded \ {t}]
      BY <1>7, <2>1
    <3> QED
      BY <1>3, <2>1, <3>1 DEF Share
  <2>2. CASE t \notin j.recorded
    <3>1. B = j.recorded /\ Share(j, t, s) = 0
      BY <2>2 DEF Share
    <3>2. h[j.recorded] = h[B]
      BY <3>1
    <3> HIDE DEF B
    <3> QED
      BY <1>9, <3>1, <3>2
  <2> QED
    BY <2>1, <2>2
<1>11. i[m.recorded] = Share(m, t, s) + i[B]
  <2>1. CASE t \in m.recorded
    <3>1. i[m.recorded] = d[t] + i[m.recorded \ {t}]
      BY <1>8, <2>1
    <3>2. B = m.recorded \ {t}
      OBVIOUS
    <3>3. i[m.recorded] = d[t] + i[B]
      BY <3>1, <3>2
    <3> HIDE DEF B
    <3> QED
      BY <1>3, <2>1, <3>3 DEF Share
  <2>2. CASE t \notin m.recorded
    <3>1. B = m.recorded /\ Share(m, t, s) = 0
      BY <2>2 DEF Share
    <3>2. i[m.recorded] = i[B]
      BY <3>1
    <3> HIDE DEF B
    <3> QED
      BY <1>6, <1>9, <3>1, <3>2
  <2> QED
    BY <2>1, <2>2
<1>12. Share(j, t, s) \in Int /\ Share(m, t, s) \in Int
  BY <1>3 DEF Share
<1> HIDE DEF B
<1> QED
  BY <1>1, <1>2, <1>6, <1>9, <1>10, <1>11, <1>12

SummaryTrue(j) ==
  /\ IsFiniteSet(j.recorded)
  /\ BlankUnlessRecorded(j)
  /\ \A s \in Statuses : j.summary[s] = KeptTotal(j, s)

LEMMA MatchKeepsSummary ==
  ASSUME NEW j \in Journals, NEW u \in Tests, NEW v \in Values,
         j.counts[NameOf[u]] < MaxCount, SummaryTrue(j)
  PROVE  SummaryTrue(MatchSnapshot(j, u, v))
<1> DEFINE m == MatchSnapshot(j, u, v)
           key == NextKey(j, u)
           sort == MatchStatus(j, u, key, v)
           old == RecordOf(j, u)
           new == Noted(j, old, key, sort)
<1>1. m \in Journals
  BY MatchType
<1>2. /\ m.recorded = j.recorded \cup {u}
      /\ \A t \in Tests : m.attempts[t] = IF t = u THEN new ELSE j.attempts[t]
  BY MatchFields
<1>3. \A s \in Statuses : m.summary[s] = j.summary[s] + (IF s = sort THEN 1 ELSE 0)
  BY DEF MatchSnapshot, Journals
<1>4. \A s \in Statuses : new.counts[s] = old.counts[s] + (IF s = sort THEN 1 ELSE 0)
  BY DEF Noted
<1>5. ASSUME NEW s \in Statuses
      PROVE  old.counts[s] = Share(j, u, s) /\ old.counts[s] \in Int
  <2>1. CASE u \in j.recorded
    BY <2>1 DEF RecordOf, Share, Journals, Records
  <2>2. CASE u \notin j.recorded
    BY <2>2 DEF RecordOf, Share, Blank
  <2> QED
    BY <2>1, <2>2
<1>6. IsFiniteSet(j.recorded) /\ IsFiniteSet(m.recorded)
  BY <1>2, FS_AddElement DEF SummaryTrue
<1> HIDE DEF m, key, sort, old, new
<1>7. BlankUnlessRecorded(m)
  BY <1>2 DEF SummaryTrue, BlankUnlessRecorded
<1>8. ASSUME NEW s \in Statuses PROVE m.summary[s] = KeptTotal(m, s)
  <2>1. j.recorded \ {u} = m.recorded \ {u} /\ \A t \in Tests \ {u} : m.attempts[t] = j.attempts[t]
    BY <1>2
  <2>2. /\ KeptTotal(j, s) \in Int
        /\ KeptTotal(m, s) = KeptTotal(j, s) - Share(j, u, s) + Share(m, u, s)
    BY <1>1, <1>6, <2>1, TotalChanges
  <2>3. Share(m, u, s) = Share(j, u, s) + (IF s = sort THEN 1 ELSE 0)
    BY <1>2, <1>4, <1>5 DEF Share
  <2>4. j.summary[s] = KeptTotal(j, s)
    BY DEF SummaryTrue
  <2>5. Share(j, u, s) \in Int
    BY <1>5
  <2> QED
    BY <1>3, <2>2, <2>3, <2>4, <2>5
<1> QED
  BY <1>6, <1>7, <1>8 DEF SummaryTrue, m

LEMMA ClearKeepsSummary ==
  ASSUME NEW j \in Journals, NEW u \in Tests, SummaryTrue(j)
  PROVE  SummaryTrue(ClearSnapshotAttempt(j, u))
<1>1. CASE u \notin j.recorded
  BY <1>1 DEF ClearSnapshotAttempt
<1>2. CASE u \in j.recorded
  <2> DEFINE c == Restored(j, u)
             r == j.attempts[u]
  <2>1. c \in Journals
    BY RestoredType
  <2>2. /\ c.recorded = j.recorded \ {u}
        /\ \A t \in Tests : c.attempts[t] = IF t = u THEN Blank ELSE j.attempts[t]
    BY RestoredFields
  <2>3. \A s \in Statuses : c.summary[s] = j.summary[s] - r.counts[s]
    BY DEF Restored, Totals, Journals
  <2>4. IsFiniteSet(j.recorded) /\ IsFiniteSet(c.recorded)
    BY <2>2, FS_RemoveElement DEF SummaryTrue
  <2> HIDE DEF c
  <2>5. BlankUnlessRecorded(c)
    BY <2>2 DEF SummaryTrue, BlankUnlessRecorded
  <2>6. ASSUME NEW s \in Statuses PROVE c.summary[s] = KeptTotal(c, s)
    <3>1. /\ j.recorded \ {u} = c.recorded \ {u}
          /\ \A t \in Tests \ {u} : c.attempts[t] = j.attempts[t]
      BY <2>2
    <3>2. /\ KeptTotal(j, s) \in Int
          /\ KeptTotal(c, s) = KeptTotal(j, s) - Share(j, u, s) + Share(c, u, s)
      BY <2>1, <2>4, <3>1, TotalChanges
    <3>3. Share(c, u, s) = 0 /\ Share(j, u, s) = r.counts[s]
      BY <1>2, <2>2 DEF Share
    <3>4. j.summary[s] = KeptTotal(j, s) /\ r.counts[s] \in Nat
      BY DEF SummaryTrue, Journals, Records
    <3> QED
      BY <2>3, <3>2, <3>3, <3>4
  <2> QED
    BY <1>2, <2>4, <2>5, <2>6 DEF SummaryTrue, ClearSnapshotAttempt, c
<1> QED
  BY <1>1, <1>2

SummaryTrueNow == SummaryTrue(journal)

\* The totals of the result are those of the attempts that were kept, whatever
\* was cleared and matched in between.  By induction over the sets of records.
THEOREM TotalsAreTrue == Spec => []SummaryMatchesRecords
<1>1. Init => SummaryTrueNow
  <2> SUFFICES ASSUME Init PROVE SummaryTrue(journal)
    BY DEF SummaryTrueNow
  <2>1. PICK u \in Updates : journal = InitialJournal(u, loadedDirty)
    BY DEF Init
  <2>2. /\ journal \in Journals /\ journal.recorded = {}
        /\ BlankUnlessRecorded(journal)
        /\ \A s \in Statuses : journal.summary[s] = 0
    <3>1. journal \in Journals
      BY InitType DEF TypeOK
    <3> QED
      BY <2>1, <3>1 DEF InitialJournal, BlankUnlessRecorded
  <2>3. IsFiniteSet(journal.recorded)
    BY <2>2, FS_EmptySet
  <2>4. ASSUME NEW s \in Statuses PROVE KeptTotal(journal, s) = 0
    <3>1. PICK h : SumsUp(h, CountsOf(journal, s), journal.recorded)
                   /\ KeptTotal(journal, s) = h[journal.recorded]
      BY <2>2, <2>3, TotalSumsUp
    <3> QED
      BY <2>2, <3>1 DEF SumsUp
  <2> QED
    BY <2>2, <2>3, <2>4 DEF SummaryTrue
<1>2. TypeOK /\ SummaryTrueNow /\ [Next]_vars => SummaryTrueNow'
  <2> SUFFICES ASSUME TypeOK, SummaryTrue(journal), [Next]_vars PROVE SummaryTrue(journal')
    BY DEF SummaryTrueNow
  <2>1. journal \in Journals
    BY DEF TypeOK
  <2>2. CASE UNCHANGED vars
    BY <2>2 DEF vars
  <2>3. ASSUME NEW j \in Journals, /\ j.recorded = journal.recorded
                                   /\ j.attempts = journal.attempts
                                   /\ j.summary = journal.summary
        PROVE  SummaryTrue(j)
    <3>1. \A s : KeptTotal(j, s) = KeptTotal(journal, s)
      BY <2>3 DEF KeptTotal
    <3> QED
      BY <2>3, <3>1 DEF SummaryTrue, BlankUnlessRecorded
  <2>4. CASE Next
    <3>1. JournalStep
      BY <2>4, StepOnJournal
    <3>2. ASSUME NEW t \in Tests, journal' = MarkSnapshotsChecked(journal, t)
          PROVE  SummaryTrue(journal')
      <4>1. /\ journal' \in Journals
            /\ journal'.recorded = journal.recorded /\ journal'.attempts = journal.attempts
            /\ journal'.summary = journal.summary
        BY <2>1, <3>2, MarkType DEF MarkSnapshotsChecked, Journals
      <4> QED
        BY <2>3, <4>1
    <3>3. CASE journal' = RemoveObsolete(journal)
      <4>1. /\ journal' \in Journals
            /\ journal'.recorded = journal.recorded /\ journal'.attempts = journal.attempts
            /\ journal'.summary = journal.summary
        BY <2>1, <3>3, RemoveType DEF RemoveObsolete, Journals
      <4> QED
        BY <2>3, <4>1
    <3> QED
      BY <2>1, <3>1, <3>2, <3>3, MatchKeepsSummary, ClearKeepsSummary DEF JournalStep
  <2> QED
    BY <2>2, <2>4
<1>3. SummaryTrueNow => SummaryMatchesRecords
  BY DEF SummaryTrueNow, SummaryTrue, SummaryMatchesRecords, KeptTotal
<1> QED
  BY <1>1, <1>2, <1>3, TypeCorrect, PTL DEF Spec
=============================================================================
