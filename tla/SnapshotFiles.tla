----------------------------- MODULE SnapshotFiles -----------------------------
(***************************************************************************)
(* The external snapshot files of one run (crates/rjest-snapshot). Every   *)
(* thread of the runner's pool loads the file of its test, hands it to the *)
(* worker and persists what comes back, and each call of std::fs is a step *)
(* of its own: the __snapshots__ directory is shared by the tests of one   *)
(* source directory, and nothing orders the threads that use it.           *)
(*                                                                         *)
(* The bytes of a file are abstracted to its first line and to the set of  *)
(* keys the parser finds behind it. The worker is any choice of keys.      *)
(***************************************************************************)
EXTENDS FiniteSets, Naturals

CONSTANTS
  Suites,         \* test files, each with the snapshot file of its own
  Folder,         \* snapshot_path: the __snapshots__ directory of a suite's file
  Keys,           \* snapshot keys
  Threads,        \* how many suites the pool works on at once
  Foreign         \* __snapshots__ directories that hold other files as well

Folders == {Folder[s] : s \in Suites}

\* "none" is CI: no snapshot may be written.
Updates == {"all", "new", "none"}

\* The first line is one of the two that load supports or another one; the
\* lines behind it may be anything but export statements ("broken").
Missing == [header |-> "missing", keys |-> {}]

Contents == {Missing} \cup [header : {"v1", "legacy", "other", "broken"}, keys : SUBSET Keys]

NoData == [keys |-> {}, dirty |-> FALSE]

Data == [keys : SUBSET Keys, dirty : BOOLEAN]

ASSUME SnapshotAssumption ==
  /\ Threads \in Nat \ {0}
  /\ IsFiniteSet(Suites)
  /\ DOMAIN Folder = Suites
  /\ Foreign \subseteq Folders

VARIABLES
  update,         \* SnapshotUpdate of the run
  before,         \* the snapshot files when the run began
  disk,           \* the snapshot files now
  folders,        \* the directories that exist
  step,           \* where the thread of a suite is
  held            \* what load returned, then what the worker gave back

snapshotVars == <<update, before, disk, folders, step, held>>

\* The calls of persist that lie ahead of a thread.
Persisting == {"persist", "write", "fill", "unlink", "list", "rmdir"}

\* "idle": not in this run; "refused": load fails; "failed": persist does.
Steps == {"idle", "queued", "running", "done", "failed", "refused"} \cup Persisting

Broken == {s \in Suites : step[s] \in {"failed", "refused"}}

IsEmpty(d) == d \notin Foreign /\ \A s \in Suites : Folder[s] = d => disk[s] = Missing

Go(s, place) == step' = [step EXCEPT ![s] = place]

SnapshotTypeOK ==
  /\ update \in Updates
  /\ before \in [Suites -> Contents]
  /\ disk \in [Suites -> Contents]
  /\ folders \subseteq Folders
  /\ step \in [Suites -> Steps]
  /\ held \in [Suites -> Data]

SnapshotInit(u, files) ==
  /\ update = u
  /\ before = files
  /\ disk = files
  /\ folders = Foreign \cup {Folder[s] : s \in {x \in Suites : files[x] # Missing}}
  /\ step = [s \in Suites |-> "idle"]
  /\ held = [s \in Suites |-> NoData]
-----------------------------------------------------------------------------
\* Plausible mistakes, each shown by TLC to break SnapshotsOnDisk.

\* The directory removed without a look at what is in it.
ListFolder_Unchecked(s) ==
  /\ step[s] = "list"
  /\ disk' = [x \in Suites |-> IF Folder[x] = Folder[s] THEN Missing ELSE disk[x]]
  /\ folders' = folders \ {Folder[s]}
  /\ Go(s, "done")
  /\ UNCHANGED <<update, before, held>>
-----------------------------------------------------------------------------
\* The pool is given the tests of a run.
StartPool(tests) ==
  /\ before' = disk
  /\ step' = [s \in Suites |-> IF s \in tests THEN "queued" ELSE "idle"]
  /\ held' = [s \in Suites |-> NoData]
  /\ UNCHANGED <<update, disk, folders>>

\* load: a file that is not there is empty and clean; one whose first line is
\* not supported is dirty, or an error in CI; contents that do not parse are
\* an error. A worker is free for it, and no error has ended the run.
Load(s) ==
  /\ step[s] = "queued"
  /\ Broken = {}
  /\ Cardinality({x \in Suites : step[x] \in {"running"} \cup Persisting}) < Threads
  /\ LET foreign == disk[s].header \notin {"missing", "v1", "legacy"}
     IN IF disk[s].header = "broken" \/ (foreign /\ update = "none")
        THEN Go(s, "refused") /\ UNCHANGED held
        ELSE /\ Go(s, "running")
             /\ held' = [held EXCEPT ![s] = [keys |-> disk[s].keys, dirty |-> foreign]]
  /\ UNCHANGED <<update, before, disk, folders>>

\* The worker gives back the keys to keep, dirty when one of them was added or
\* removed or has another value now, which needs a mode that may write; what
\* it may do to them SuiteRunner shows. A file that times out, crashes its worker
\* or is cancelled is dropped before persist.
Return(s) ==
  /\ step[s] = "running"
  /\ \/ \E keys \in SUBSET Keys, touched \in BOOLEAN :
          /\ keys # held[s].keys => touched
          /\ touched => update # "none"
          /\ held' = [held EXCEPT ![s] = [keys |-> keys, dirty |-> held[s].dirty \/ touched]]
          /\ Go(s, "persist")
     \/ /\ held' = [held EXCEPT ![s] = [keys |-> disk[s].keys, dirty |-> FALSE]]
        /\ Go(s, "done")
  /\ UNCHANGED <<update, before, disk, folders>>

\* persist has nothing to do for clean data, nor for none without a file;
\* otherwise it removes the file or creates the directory for it.
Persist_Begin(s) ==
  /\ step[s] = "persist"
  /\ \/ /\ ~held[s].dirty \/ (held[s].keys = {} /\ disk[s] = Missing)
        /\ Go(s, "done") /\ UNCHANGED folders
     \/ /\ held[s].dirty /\ held[s].keys = {} /\ disk[s] # Missing
        /\ Go(s, "unlink") /\ UNCHANGED folders
     \/ /\ held[s].dirty /\ held[s].keys # {}
        /\ Go(s, "write") /\ folders' = folders \cup {Folder[s]}
  /\ UNCHANGED <<update, before, disk, held>>

\* existing_supported_header keeps the line of a legacy file.
Header(s) == IF disk[s].header = "legacy" THEN "legacy" ELSE "v1"

\* fs::write opens the file, which creates or truncates it ...
Open(s) ==
  /\ step[s] = "write"
  /\ \/ /\ Folder[s] \in folders
        /\ disk' = [disk EXCEPT ![s] = [header |-> Header(s), keys |-> {}]]
        /\ Go(s, "fill")
     \/ Folder[s] \notin folders /\ Go(s, "failed") /\ UNCHANGED disk
  /\ UNCHANGED <<update, before, folders, held>>

\* ... and fills it.
Fill(s) ==
  /\ step[s] = "fill"
  /\ disk' = [disk EXCEPT ![s].keys = held[s].keys]
  /\ Go(s, "done")
  /\ UNCHANGED <<update, before, folders, held>>

\* fs::remove_file of a file that has no entries any more.
Unlink(s) ==
  /\ step[s] = "unlink"
  /\ disk' = [disk EXCEPT ![s] = Missing]
  /\ Go(s, "list")
  /\ UNCHANGED <<update, before, folders, held>>

\* remove_empty_parent: read_dir, an error when the directory is gone ...
ListFolder(s) ==
  /\ step[s] = "list"
  /\ Go(s, IF Folder[s] \notin folders THEN "failed"
           ELSE IF IsEmpty(Folder[s]) THEN "rmdir" ELSE "done")
  /\ UNCHANGED <<update, before, disk, folders, held>>

\* ... and remove_dir, an error when it is gone or no longer empty.
RemoveFolder(s) ==
  /\ step[s] = "rmdir"
  /\ \/ /\ Folder[s] \in folders /\ IsEmpty(Folder[s])
        /\ Go(s, "done") /\ folders' = folders \ {Folder[s]}
     \/ /\ Folder[s] \notin folders \/ ~IsEmpty(Folder[s])
        /\ Go(s, "failed") /\ UNCHANGED folders
  /\ UNCHANGED <<update, before, disk, held>>

SnapshotStep(s) ==
  \/ Load(s) \/ Return(s) \/ Persist_Begin(s) \/ Open(s) \/ Fill(s)
  \/ Unlink(s) \/ ListFolder(s) \/ RemoveFolder(s)

\* No thread has anything left to do: after an error the queue is not served.
SnapshotsSettled ==
  \A s \in Suites : \/ step[s] \in {"idle", "done", "failed", "refused"}
                    \/ step[s] = "queued" /\ Broken # {}

\* The pools of a run one after another; an error in one of them ends the run.
SnapshotNext ==
  \/ SnapshotsSettled /\ Broken = {} /\ \E tests \in SUBSET Suites : StartPool(tests)
  \/ \E s \in Suites : SnapshotStep(s)

SnapshotSpec ==
  /\ \E u \in Updates, files \in [Suites -> Contents] : SnapshotInit(u, files)
  /\ [][SnapshotNext]_snapshotVars
  /\ \A s \in Suites : WF_snapshotVars(SnapshotStep(s))
-----------------------------------------------------------------------------
\* A file lies in a directory that exists, although threads remove directories.
FilesHaveFolders == \A s \in Suites : disk[s] # Missing => Folder[s] \in folders

\* What other threads do to the directory never costs a suite its entries: the
\* file of a suite that is done holds what was to be kept, and no file at all
\* when that is nothing. The file of a suite that failed to write is untouched.
DoneIsOnDisk ==
  \A s \in Suites :
    /\ step[s] = "done" => disk[s].keys = held[s].keys
    /\ step[s] = "done" /\ held[s].dirty => (held[s].keys = {} <=> disk[s] = Missing)
    /\ step[s] = "failed" => disk[s] \in {before[s], Missing}

\* A run without an error leaves no empty directory behind.
NoFolderIsLeft == SnapshotsSettled /\ Broken = {} => \A d \in folders : ~IsEmpty(d)

\* persist fails only where two suites of one directory collide: another one
\* created its file or removed its last entry in the same run, and one thread
\* alone never fails.
FailureIsCollision ==
  \A s \in Suites : step[s] = "failed" =>
    /\ Threads > 1
    /\ \E t \in Suites \ {s} :
         /\ Folder[t] = Folder[s] /\ held[t].dirty
         /\ held[s].keys = {} \/ held[t].keys = {}

\* The files of a run, whatever the threads do to their directories
\* (rjest_snapshot::load and persist).
SnapshotsOnDisk ==
  FilesHaveFolders /\ DoneIsOnDisk /\ NoFolderIsLeft /\ FailureIsCollision
=============================================================================
