--------------------------- MODULE SnapshotJournal ---------------------------
(***************************************************************************)
(* snapshotState of runtime/worker.mjs: the snapshots of one test file     *)
(* while its tests run, with the journal that lets a retry take back what  *)
(* an attempt did.  A journal is a record that follows the fields of       *)
(* snapshotState; the operators are its functions.                         *)
(*                                                                         *)
(* Left out: inline snapshots, which follow the same discipline in a list  *)
(* of their own; hints, which only add names; and the legacy format, in    *)
(* which a matching entry is replaced without marking the file dirty.      *)
(***************************************************************************)
EXTENDS Integers

CONSTANTS
  Tests,      \* the test nodes of the file
  Names,      \* full names; several tests may share one
  NameOf,     \* fullName(test)
  Failing,    \* tests declared with test.failing
  Values,     \* what a test may serialize
  NoEntry,    \* stands for an absent entry of the snapshot data
  Untouched,  \* stands for a key an attempt has not written
  MaxCount,   \* bound: matches of one name
  Loaded      \* the entries of the snapshot file

Keys == Names \X (1..MaxCount)

ASSUME JournalAssumption ==
  /\ NameOf \in [Tests -> Names]
  /\ Failing \subseteq Tests
  /\ NoEntry \notin Values
  /\ Untouched \notin Values \cup {NoEntry}
  /\ MaxCount \in Nat
  /\ Loaded \in [Keys -> Values \cup {NoEntry}]

Statuses == {"added", "matched", "unmatched", "updated"}
Updates == {"none", "new", "all"}

LoadedKeys == {k \in Keys : Loaded[k] # NoEntry}
KeysOf(name) == {k \in Keys : k[1] = name}

Records ==
  [checked : SUBSET Keys,
   before : Nat,
   counts : [Statuses -> Nat],
   data : [Keys -> Values \cup {NoEntry, Untouched}],
   ownWrites : Nat,
   dirtyBefore : BOOLEAN,
   writesBefore : Nat]

Journals ==
  [update : Updates,
   data : [Keys -> Values \cup {NoEntry}],
   unchecked : SUBSET Keys,
   counts : [Names -> Nat],
   summary : [Statuses -> Int],
   dirty : BOOLEAN,
   writeCount : Nat,
   recorded : SUBSET Tests,
   attempts : [Tests -> Records],
   removed : SUBSET Keys]

\* A record as snapshotAttemptRecord makes it.  A counter of 0 stands for one
\* that is not in the map: the code reads both as 0.
Blank ==
  [checked |-> {},
   before |-> 0,
   counts |-> [s \in Statuses |-> 0],
   data |-> [k \in Keys |-> Untouched],
   ownWrites |-> 0,
   dirtyBefore |-> FALSE,
   writesBefore |-> 0]

InitialJournal(update, dirty) ==
  [update |-> update,
   data |-> Loaded,
   unchecked |-> LoadedKeys,
   counts |-> [n \in Names |-> 0],
   summary |-> [s \in Statuses |-> 0],
   dirty |-> dirty,
   writeCount |-> 0,
   recorded |-> {},
   attempts |-> [t \in Tests |-> Blank],
   removed |-> {}]

-----------------------------------------------------------------------------
\* matchSnapshot
\* The entry the next match of a test concerns: bumpSnapshotCounter.
NextKey(j, t) == <<NameOf[t], j.counts[NameOf[t]] + 1>>

\* Mutant: mode "new" rewrites entries that differ.
Rewrites_New(j) == j.update # "none"

Rewrites(j) == j.update = "all"

\* What matching v against the entry of key counts as; "ignored" for a test
\* that is expected to fail, whose matches only use up their key.
MatchStatus(j, t, key, v) ==
  CASE t \in Failing -> "ignored"
    [] t \notin Failing /\ j.data[key] = v -> "matched"
    [] t \notin Failing /\ j.data[key] \notin {v, NoEntry} /\ Rewrites(j) -> "updated"
    [] t \notin Failing /\ j.data[key] = NoEntry /\ j.update # "none" -> "added"
    [] OTHER -> "unmatched"

\* snapshotAttemptRecord, with the counter that bumpSnapshotCounter notes.
RecordOf(j, t) ==
  IF t \in j.recorded THEN j.attempts[t]
  ELSE [Blank EXCEPT !.before = j.counts[NameOf[t]]]

\* recordSnapshotData, recordSnapshotWrite and incrementSnapshotCount, on the
\* record of the attempt.
Noted(j, r, key, status) ==
  LET writes == status \in {"updated", "added"}
      notesData == writes \/ status = "matched"
      first == writes /\ r.ownWrites = 0
  IN [checked |-> r.checked \cup ({key} \cap j.unchecked),
      before |-> r.before,
      counts |-> [s \in Statuses |-> r.counts[s] + (IF s = status THEN 1 ELSE 0)],
      data |-> [k \in Keys |->
                 IF k = key /\ notesData /\ r.data[k] = Untouched THEN j.data[k] ELSE r.data[k]],
      ownWrites |-> r.ownWrites + (IF writes THEN 1 ELSE 0),
      dirtyBefore |-> IF first THEN j.dirty ELSE r.dirtyBefore,
      writesBefore |-> IF first THEN j.writeCount ELSE r.writesBefore]

\* Mutant: the key is marked before its number is counted.
Unchecked_BeforeBump(j, key) == j.unchecked \ {<<key[1], key[2] - 1>>}

\* markSnapshotChecked
Unchecked(j, key) == j.unchecked \ {key}

MatchSnapshot(j, t, v) ==
  LET key == NextKey(j, t)
      status == MatchStatus(j, t, key, v)
      writes == status \in {"updated", "added"}
  IN [j EXCEPT
       !.counts = [j.counts EXCEPT ![NameOf[t]] = @ + 1],
       !.unchecked = Unchecked(j, key),
       !.summary = [s \in Statuses |-> j.summary[s] + (IF s = status THEN 1 ELSE 0)],
       !.data = [k \in Keys |-> IF k = key /\ writes THEN v ELSE j.data[k]],
       !.dirty = j.dirty \/ writes,
       !.writeCount = j.writeCount + (IF writes THEN 1 ELSE 0),
       !.recorded = j.recorded \cup {t},
       !.attempts = [j.attempts EXCEPT ![t] = Noted(j, RecordOf(j, t), key, status)]]

\* markSnapshotsChecked: every entry of a test's name counts as used.  No
\* record keeps this.
MarkSnapshotsChecked(j, t) ==
  [j EXCEPT !.unchecked = @ \ KeysOf(NameOf[t])]

\* Mutant: failed matches stay in the totals.
Totals_KeepUnmatched(j, r) ==
  [s \in Statuses |-> j.summary[s] - (IF s = "unmatched" THEN 0 ELSE r.counts[s])]

\* The totals without those of one attempt.
Totals(j, r) == [s \in Statuses |-> j.summary[s] - r.counts[s]]

\* Mutant: the next attempt goes on counting.
Counter_GoesOn(j, t) == j.counts[NameOf[t]]

\* The counter that an attempt found.
Counter(j, t) == j.attempts[t].before

\* Mutant: writes of other tests since then are not looked for.
OnlyWriter_Unchecked(j, r) == r.ownWrites > 0

\* No other test has written since the first write of the attempt.
OnlyWriter(j, r) == r.ownWrites > 0 /\ j.writeCount - r.writesBefore = r.ownWrites

\* clearSnapshotAttempt for a test that has a record: what the attempt did is
\* taken back, the dirty flag only if that is safe.
Restored(j, t) ==
  LET r == j.attempts[t]
  IN [j EXCEPT
       !.recorded = j.recorded \ {t},
       !.attempts = [j.attempts EXCEPT ![t] = Blank],
       !.summary = Totals(j, r),
       !.data = [k \in Keys |-> IF r.data[k] = Untouched THEN j.data[k] ELSE r.data[k]],
       !.unchecked = j.unchecked \cup r.checked,
       !.counts = [j.counts EXCEPT ![NameOf[t]] = Counter(j, t)],
       !.dirty = IF OnlyWriter(j, r) THEN r.dirtyBefore ELSE j.dirty,
       !.writeCount = IF OnlyWriter(j, r) THEN r.writesBefore ELSE j.writeCount]

ClearSnapshotAttempt(j, t) == IF t \in j.recorded THEN Restored(j, t) ELSE j

\* The end of the file: with update "all" the entries no test used go away.
RemoveObsolete(j) ==
  IF j.update = "all" /\ j.unchecked # {}
  THEN [j EXCEPT
         !.data = [k \in Keys |-> IF k \in j.unchecked THEN NoEntry ELSE j.data[k]],
         !.removed = j.unchecked,
         !.unchecked = {},
         !.dirty = TRUE]
  ELSE j
=============================================================================
