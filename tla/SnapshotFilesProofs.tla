-------------------------- MODULE SnapshotFilesProofs --------------------------
(***************************************************************************)
(* What the threads of a pool do to the directories they share never costs *)
(* a suite its snapshots, for any number of suites, threads and            *)
(* directories. The invariant says for each thread what it knows of its    *)
(* file, who watches an empty directory, and who is to blame when a        *)
(* directory is not as a thread has left it.                               *)
(***************************************************************************)
EXTENDS SnapshotFiles, FiniteSetTheorems, TLAPS

\* The suites whose threads are at work.
Active == {x \in Suites : step[x] \in {"running"} \cup Persisting}

WithinThreads == IsFiniteSet(Active) /\ Cardinality(Active) <= Threads

\* A thread alone changes the file of its suite.
OwnFile(s) ==
  /\ step[s] \in {"idle", "queued", "running", "persist", "write", "unlink", "refused"}
       => disk[s] = before[s]
  /\ step[s] = "running" => held[s].keys = disk[s].keys
  /\ step[s] = "persist" => held[s].dirty \/ held[s].keys = disk[s].keys
  /\ step[s] \in {"write", "fill"} => held[s].dirty /\ held[s].keys # {}
  /\ step[s] \in {"unlink", "list", "rmdir"} => held[s].dirty /\ held[s].keys = {}
  /\ step[s] = "unlink" => disk[s] # Missing
  /\ step[s] \in {"list", "rmdir"} => disk[s] = Missing
  /\ step[s] = "fill" => disk[s].header # "missing"
  /\ step[s] = "done" =>
       /\ disk[s].keys = held[s].keys
       /\ held[s].dirty => (held[s].keys = {} <=> disk[s] = Missing)
  /\ step[s] = "failed" => disk[s] \in {before[s], Missing}

OwnFiles == \A s \in Suites : OwnFile(s)

\* An empty directory has a thread that will fill it or look at it again.
EmptyIsWatched ==
  \A d \in folders : IsEmpty(d) =>
    \E s \in Suites : Folder[s] = d /\ step[s] \in {"write", "list", "rmdir", "failed"}

\* Another suite has changed the directory of this one.
Collided(s) ==
  /\ Threads > 1
  /\ \E t \in Suites \ {s} :
       /\ Folder[t] = Folder[s] /\ held[t].dirty
       /\ step[t] \notin {"idle", "queued", "running"}
       /\ held[s].keys = {} \/ held[t].keys = {}

\* A thread that does not find its directory as it left it has been disturbed.
Surprised(s) ==
  \/ step[s] \in {"write", "list"} /\ Folder[s] \notin folders
  \/ step[s] = "rmdir" /\ (Folder[s] \notin folders \/ ~IsEmpty(Folder[s]))
  \/ step[s] = "failed"

SurpriseIsCollision == \A s \in Suites : Surprised(s) => Collided(s)

FilesInv ==
  /\ SnapshotTypeOK /\ WithinThreads /\ FilesHaveFolders /\ OwnFiles
  /\ EmptyIsWatched /\ SurpriseIsCollision
-----------------------------------------------------------------------------
\* Types.

LEMMA TypeInit ==
  ASSUME NEW u \in Updates, NEW files \in [Suites -> Contents], SnapshotInit(u, files)
  PROVE  SnapshotTypeOK
  BY SnapshotAssumption DEF SnapshotInit, SnapshotTypeOK, Folders, Steps, Data, NoData

LEMMA TypeStart ==
  ASSUME SnapshotTypeOK, NEW tests \in SUBSET Suites, StartPool(tests)
  PROVE  SnapshotTypeOK'
  BY DEF StartPool, SnapshotTypeOK, Steps, Data, NoData

LEMMA HeaderType == \A s \in Suites : Header(s) \in {"v1", "legacy"}
  BY DEF Header

LEMMA MissingType == Missing \in Contents
  BY DEF Contents

LEMMA MissingIsEmpty == Missing.keys = {} /\ Missing.header = "missing"
  BY DEF Missing

LEMMA KeysType ==
  ASSUME SnapshotTypeOK, NEW s \in Suites
  PROVE  disk[s].keys \in SUBSET Keys
  <1>1. disk[s] \in Contents
    BY DEF SnapshotTypeOK
  <1> QED BY <1>1 DEF Contents, Missing

LEMMA DataType ==
  ASSUME NEW keys \in SUBSET Keys, NEW dirty \in BOOLEAN
  PROVE  [keys |-> keys, dirty |-> dirty] \in Data
  BY DEF Data

LEMMA TypeStep ==
  ASSUME SnapshotTypeOK, NEW s \in Suites, OwnFile(s), SnapshotStep(s)
  PROVE  SnapshotTypeOK'
  <1> USE DEF SnapshotTypeOK, Go
  <1>0. /\ disk[s] \in Contents /\ disk[s].keys \in SUBSET Keys
        /\ held[s].keys \in SUBSET Keys /\ held[s].dirty \in BOOLEAN
    BY KeysType DEF Data
  <1>1. CASE Load(s)
    <2> DEFINE foreign == disk[s].header \notin {"missing", "v1", "legacy"}
    <2>1. foreign \in BOOLEAN
      OBVIOUS
    <2> HIDE DEF foreign
    <2>2. [keys |-> disk[s].keys, dirty |-> foreign] \in Data
      BY <1>0, <2>1, DataType
    <2>3. /\ held' = held \/ held' = [held EXCEPT ![s] = [keys |-> disk[s].keys, dirty |-> foreign]]
          /\ step' = [step EXCEPT ![s] = "refused"] \/ step' = [step EXCEPT ![s] = "running"]
          /\ UNCHANGED <<update, before, disk, folders>>
      BY <1>1 DEF Load, foreign
    <2>4. held' \in [Suites -> Data]
      BY <2>2, <2>3
    <2>5. step' \in [Suites -> Steps]
      BY <2>3 DEF Steps
    <2> QED BY <2>3, <2>4, <2>5
  <1>2. CASE Return(s)
    <2>1. ASSUME \E keys \in SUBSET Keys, touched \in BOOLEAN :
                   held' = [held EXCEPT ![s] =
                              [keys |-> keys, dirty |-> held[s].dirty \/ touched]]
          PROVE  held' \in [Suites -> Data]
      <3>1. PICK keys \in SUBSET Keys, touched \in BOOLEAN :
                 held' = [held EXCEPT ![s] =
                            [keys |-> keys, dirty |-> held[s].dirty \/ touched]]
        BY <2>1
      <3>2. (held[s].dirty \/ touched) \in BOOLEAN
        OBVIOUS
      <3>3. [keys |-> keys, dirty |-> held[s].dirty \/ touched] \in Data
        BY <3>2, DataType
      <3> QED BY <3>1, <3>3
    <2>2. ASSUME held' = [held EXCEPT ![s] = [keys |-> disk[s].keys, dirty |-> FALSE]]
          PROVE  held' \in [Suites -> Data]
      <3>1. [keys |-> disk[s].keys, dirty |-> FALSE] \in Data
        BY <1>0, DataType
      <3> QED BY <2>2, <3>1
    <2>3. held' \in [Suites -> Data]
      BY <1>2, <2>1, <2>2 DEF Return
    <2>4. step' \in [Suites -> Steps]
      BY <1>2 DEF Return, Steps, Persisting
    <2> QED BY <1>2, <2>3, <2>4 DEF Return
  <1>3. CASE Persist_Begin(s)
    BY <1>3, SnapshotAssumption DEF Persist_Begin, Steps, Persisting, Folders
  <1>4. CASE Open(s)
    <2>1. [header |-> Header(s), keys |-> {}] \in Contents
      BY HeaderType DEF Contents
    <2> QED BY <1>4, <2>1 DEF Open, Steps, Persisting
  <1>5. CASE Fill(s)
    <2>1. disk[s].header # "missing"
      BY <1>5 DEF Fill, OwnFile
    <2>2. disk[s] \in [header : {"v1", "legacy", "other", "broken"}, keys : SUBSET Keys]
      BY <1>0, <2>1 DEF Contents, Missing
    <2>3. [disk[s] EXCEPT !.keys = held[s].keys] \in Contents
      BY <1>0, <2>2 DEF Contents
    <2>4. disk' = [disk EXCEPT ![s] = [disk[s] EXCEPT !.keys = held[s].keys]]
      BY <1>5 DEF Fill
    <2> QED BY <1>5, <2>3, <2>4 DEF Fill, Steps
  <1>6. CASE Unlink(s)
    BY <1>6, MissingType DEF Unlink, Steps, Persisting
  <1>7. CASE ListFolder(s)
    BY <1>7 DEF ListFolder, Steps, Persisting
  <1>8. CASE RemoveFolder(s)
    BY <1>8 DEF RemoveFolder, Steps, Persisting
  <1> QED BY <1>1, <1>2, <1>3, <1>4, <1>5, <1>6, <1>7, <1>8 DEF SnapshotStep
-----------------------------------------------------------------------------
\* What a step of one thread leaves alone in the others.

Others(s) == \A x \in Suites \ {s} : step'[x] = step[x] /\ held'[x] = held[x] /\ disk'[x] = disk[x]

LEMMA OthersKeep ==
  ASSUME SnapshotTypeOK, NEW s \in Suites, SnapshotStep(s)
  PROVE  Others(s) /\ UNCHANGED <<update, before>>
  <1> USE DEF SnapshotTypeOK, Others, Go
  <1>1. CASE Load(s)
    BY <1>1 DEF Load
  <1>2. CASE Return(s)
    BY <1>2 DEF Return
  <1>3. CASE Persist_Begin(s)
    BY <1>3 DEF Persist_Begin
  <1>4. CASE Open(s)
    BY <1>4 DEF Open
  <1>5. CASE Fill(s)
    BY <1>5 DEF Fill
  <1>6. CASE Unlink(s)
    BY <1>6 DEF Unlink
  <1>7. CASE ListFolder(s)
    BY <1>7 DEF ListFolder
  <1>8. CASE RemoveFolder(s)
    BY <1>8 DEF RemoveFolder
  <1> QED BY <1>1, <1>2, <1>3, <1>4, <1>5, <1>6, <1>7, <1>8 DEF SnapshotStep

\* The thread of a step knows its file again afterwards.
LEMMA OwnFileStep ==
  ASSUME SnapshotTypeOK, NEW s \in Suites, OwnFile(s), SnapshotStep(s)
  PROVE  OwnFile(s)'
  <1> USE DEF SnapshotTypeOK, Go
  <1>0. before' = before
    BY OthersKeep
  <1>1. CASE Load(s)
    BY <1>0, <1>1 DEF Load, OwnFile
  <1>2. CASE Return(s)
    <2>1. /\ step[s] = "running" /\ disk' = disk
          /\ disk[s] = before[s] /\ held[s].keys = disk[s].keys
      BY <1>2 DEF Return, OwnFile
    <2>2. CASE step' = [step EXCEPT ![s] = "persist"]
      <3>1. PICK keys \in SUBSET Keys, touched \in BOOLEAN :
                 /\ keys # held[s].keys => touched
                 /\ held' = [held EXCEPT ![s] =
                               [keys |-> keys, dirty |-> held[s].dirty \/ touched]]
        BY <1>2, <2>1, <2>2 DEF Return
      <3>2. step'[s] = "persist"
        BY <2>2
      <3>3. held'[s].keys = keys /\ (keys # held[s].keys => held'[s].dirty)
        BY <3>1
      <3> QED BY <1>0, <2>1, <3>2, <3>3 DEF OwnFile
    <2>3. CASE step' = [step EXCEPT ![s] = "done"]
      <3>1. step'[s] = "done"
        BY <2>3
      <3>2. held' = [held EXCEPT ![s] = [keys |-> disk[s].keys, dirty |-> FALSE]]
        BY <1>2, <2>1, <2>3, <3>1 DEF Return
      <3>3. held'[s].keys = disk[s].keys /\ held'[s].dirty = FALSE
        BY <3>2
      <3> QED BY <1>0, <2>1, <3>1, <3>3 DEF OwnFile
    <2> QED BY <1>2, <2>2, <2>3 DEF Return
  <1>3. CASE Persist_Begin(s)
    BY <1>0, <1>3 DEF Persist_Begin, OwnFile, Missing
  <1>4. CASE Open(s)
    BY <1>0, <1>4, HeaderType DEF Open, OwnFile
  <1>5. CASE Fill(s)
    <2>1. /\ step[s] = "fill" /\ step'[s] = "done"
          /\ disk'[s].keys = held[s].keys /\ disk'[s].header = disk[s].header /\ held' = held
      <3>1. disk[s] \in Contents
        OBVIOUS
      <3> QED BY <1>5, <3>1 DEF Fill, Contents, Missing
    <2> QED BY <1>0, <2>1 DEF OwnFile, Missing
  <1>6. CASE Unlink(s)
    BY <1>0, <1>6 DEF Unlink, OwnFile
  <1>7. CASE ListFolder(s)
    <2>1. /\ step[s] = "list" /\ step'[s] \in {"failed", "rmdir", "done"}
          /\ disk' = disk /\ held' = held
      BY <1>7 DEF ListFolder
    <2> QED BY <1>0, <2>1, MissingIsEmpty DEF OwnFile
  <1>8. CASE RemoveFolder(s)
    <2>1. /\ step[s] = "rmdir" /\ step'[s] \in {"failed", "done"}
          /\ disk' = disk /\ held' = held
      BY <1>8 DEF RemoveFolder
    <2> QED BY <1>0, <2>1, MissingIsEmpty DEF OwnFile
  <1> QED BY <1>1, <1>2, <1>3, <1>4, <1>5, <1>6, <1>7, <1>8 DEF SnapshotStep

LEMMA OwnFilesStep ==
  ASSUME SnapshotTypeOK, NEW s \in Suites, OwnFiles, SnapshotStep(s)
  PROVE  OwnFiles'
  <1>1. OwnFile(s)'
    BY OwnFileStep DEF OwnFiles
  <1>2. ASSUME NEW x \in Suites \ {s} PROVE OwnFile(x)'
    BY OthersKeep DEF OwnFiles, OwnFile, Others
  <1> QED BY <1>1, <1>2 DEF OwnFiles
-----------------------------------------------------------------------------
\* No more threads are at work than the pool has.

LEMMA ThreadsStart ==
  ASSUME SnapshotTypeOK, NEW tests \in SUBSET Suites, StartPool(tests)
  PROVE  WithinThreads'
  <1>1. Active' = {}
    BY DEF StartPool, Active, Persisting
  <1>2. IsFiniteSet({}) /\ Cardinality({}) = 0
    BY FS_EmptySet
  <1> QED BY <1>1, <1>2, SnapshotAssumption DEF WithinThreads

LEMMA ThreadsStep ==
  ASSUME SnapshotTypeOK, WithinThreads, NEW s \in Suites, SnapshotStep(s)
  PROVE  WithinThreads'
  <1> USE DEF SnapshotTypeOK, Go
  <1>0. IsFiniteSet(Active) /\ Cardinality(Active) \in Nat /\ Cardinality(Active) <= Threads
        /\ Threads \in Nat
    BY FS_CardinalityType, SnapshotAssumption DEF WithinThreads
  <1>1. CASE Load(s)
    <2>1. Active' \subseteq Active \cup {s}
      BY <1>1 DEF Load, Active
    <2>2. Cardinality(Active) < Threads
      BY <1>1 DEF Load, Active
    <2>3. IsFiniteSet(Active \cup {s}) /\ Cardinality(Active \cup {s}) <= Threads
      <3>1. /\ IsFiniteSet(Active \cup {s})
            /\ Cardinality(Active \cup {s}) = IF s \in Active THEN Cardinality(Active)
                                              ELSE Cardinality(Active) + 1
        BY <1>0, FS_AddElement
      <3> QED BY <1>0, <2>2, <3>1
    <2>4. IsFiniteSet(Active') /\ Cardinality(Active') <= Cardinality(Active \cup {s})
      BY <2>1, <2>3, FS_Subset
    <2>5. Cardinality(Active') \in Nat /\ Cardinality(Active \cup {s}) \in Nat
      BY <2>3, <2>4, FS_CardinalityType
    <2> QED BY <1>0, <2>3, <2>4, <2>5 DEF WithinThreads
  <1>2. CASE ~Load(s)
    <2>1. step[s] \in {"running"} \cup Persisting
      BY <1>2 DEF SnapshotStep, Return, Persist_Begin, Open, Fill, Unlink, ListFolder,
                  RemoveFolder, Persisting
    <2>2. Active' \subseteq Active
      BY <2>1, OthersKeep DEF Active, Others
    <2>3. IsFiniteSet(Active') /\ Cardinality(Active') <= Cardinality(Active)
      BY <1>0, <2>2, FS_Subset
    <2>4. Cardinality(Active') \in Nat
      BY <2>3, FS_CardinalityType
    <2> QED BY <1>0, <2>3, <2>4 DEF WithinThreads
  <1> QED BY <1>1, <1>2

\* Two suites at work need two threads.
LEMMA TwoThreads ==
  ASSUME WithinThreads, NEW s \in Active, NEW t \in Active, s # t
  PROVE  Threads > 1
  <1>1. IsFiniteSet({s}) /\ Cardinality({s}) = 1
    BY FS_Singleton
  <1>2. IsFiniteSet({s} \cup {t}) /\ Cardinality({s} \cup {t}) = 2
    BY <1>1, FS_AddElement
  <1>3. Cardinality({s} \cup {t}) <= Cardinality(Active)
    BY FS_Subset DEF WithinThreads
  <1>4. Cardinality(Active) \in Nat /\ Threads \in Nat
    BY FS_CardinalityType, SnapshotAssumption DEF WithinThreads
  <1> QED BY <1>2, <1>3, <1>4 DEF WithinThreads
-----------------------------------------------------------------------------
\* The directories.

LEMMA FoldersStep ==
  ASSUME SnapshotTypeOK, FilesHaveFolders, NEW s \in Suites, OwnFile(s), SnapshotStep(s)
  PROVE  FilesHaveFolders'
  <1> USE DEF SnapshotTypeOK, Go
  <1> SUFFICES ASSUME NEW x \in Suites, disk'[x] # Missing
               PROVE  Folder[x] \in folders'
    BY DEF FilesHaveFolders
  <1>0. x # s => disk'[x] = disk[x]
    BY OthersKeep DEF Others
  <1>1. CASE Load(s)
    BY <1>1 DEF Load, FilesHaveFolders
  <1>2. CASE Return(s)
    BY <1>2 DEF Return, FilesHaveFolders
  <1>3. CASE Persist_Begin(s)
    BY <1>3 DEF Persist_Begin, FilesHaveFolders
  <1>4. CASE Open(s)
    BY <1>0, <1>4 DEF Open, FilesHaveFolders
  <1>5. CASE Fill(s)
    <2>1. disk[s] # Missing
      BY <1>5, MissingIsEmpty DEF Fill, OwnFile
    <2> QED BY <1>0, <1>5, <2>1 DEF Fill, FilesHaveFolders
  <1>6. CASE Unlink(s)
    BY <1>0, <1>6 DEF Unlink, FilesHaveFolders
  <1>7. CASE ListFolder(s)
    BY <1>7 DEF ListFolder, FilesHaveFolders
  <1>8. CASE RemoveFolder(s)
    BY <1>8 DEF RemoveFolder, FilesHaveFolders, IsEmpty
  <1> QED BY <1>1, <1>2, <1>3, <1>4, <1>5, <1>6, <1>7, <1>8 DEF SnapshotStep

\* A step changes no file of another directory.
LEMMA EmptyElsewhere ==
  ASSUME SnapshotTypeOK, NEW s \in Suites, SnapshotStep(s), NEW d, d # Folder[s]
  PROVE  IsEmpty(d)' <=> IsEmpty(d)
  BY OthersKeep DEF Others, IsEmpty

\* A worker that has given back its snapshots changes them no more.
LEMMA HeldStays ==
  ASSUME SnapshotTypeOK, NEW s \in Suites, SnapshotStep(s), step[s] \notin {"queued", "running"}
  PROVE  held' = held /\ step'[s] \notin {"idle", "queued", "running"}
  BY DEF SnapshotTypeOK, Go, SnapshotStep, Load, Return, Persist_Begin, Open, Fill, Unlink,
         ListFolder, RemoveFolder

LEMMA WatchedStep ==
  ASSUME SnapshotTypeOK, EmptyIsWatched, NEW s \in Suites, OwnFile(s), SnapshotStep(s)
  PROVE  EmptyIsWatched'
  <1> USE DEF SnapshotTypeOK, Go
  <1> DEFINE Watching(x) == step[x] \in {"write", "list", "rmdir", "failed"}
  <1> SUFFICES ASSUME NEW d \in folders', IsEmpty(d)'
               PROVE  \E x \in Suites : Folder[x] = d /\ Watching(x)'
    BY DEF EmptyIsWatched
  <1>0. \A x \in Suites \ {s} : step'[x] = step[x]
    BY OthersKeep DEF Others
  <1>1. CASE d # Folder[s]
    <2>1. d \in folders
      BY <1>1 DEF SnapshotStep, Load, Return, Persist_Begin, Open, Fill, Unlink, ListFolder,
                  RemoveFolder
    <2>2. PICK x \in Suites : Folder[x] = d /\ Watching(x)
      BY <1>1, <2>1, EmptyElsewhere DEF EmptyIsWatched
    <2> QED BY <1>0, <1>1, <2>2
  <1>2. CASE d = Folder[s]
    <2>1. disk'[s] = Missing
      BY <1>2 DEF IsEmpty
    <2>2. ASSUME d \in folders, IsEmpty(d), ~Watching(s)
          PROVE  \E x \in Suites : Folder[x] = d /\ Watching(x)'
      <3>1. PICK x \in Suites : Folder[x] = d /\ Watching(x)
        BY <2>2 DEF EmptyIsWatched
      <3> QED BY <1>0, <2>2, <3>1
    <2>3. CASE Load(s)
      BY <2>2, <2>3 DEF Load, IsEmpty
    <2>4. CASE Return(s)
      BY <2>2, <2>4 DEF Return, IsEmpty
    <2>5. CASE Persist_Begin(s)
      <3>1. CASE step'[s] = "write"
        BY <1>2, <3>1
      <3>2. CASE step'[s] # "write"
        BY <2>2, <2>5, <3>2 DEF Persist_Begin, IsEmpty
      <3> QED BY <3>1, <3>2
    <2>6. CASE Open(s)
      BY <1>2, <2>1, <2>6, HeaderType, MissingIsEmpty DEF Open
    <2>7. CASE Fill(s)
      <3>1. disk'[s].header = disk[s].header
        <4>1. disk[s] \in Contents
          OBVIOUS
        <4> QED BY <2>7, <4>1 DEF Fill, Contents, Missing
      <3> QED BY <2>1, <2>7, <3>1, MissingIsEmpty DEF Fill, OwnFile
    <2>8. CASE Unlink(s)
      BY <1>2, <2>8 DEF Unlink
    <2>9. CASE ListFolder(s)
      BY <1>2, <2>9 DEF ListFolder, IsEmpty
    <2>10. CASE RemoveFolder(s)
      BY <1>2, <2>10 DEF RemoveFolder
    <2> QED BY <2>3, <2>4, <2>5, <2>6, <2>7, <2>8, <2>9, <2>10 DEF SnapshotStep
  <1> QED BY <1>1, <1>2

\* The thread of the step was disturbed before, or is not.
LEMMA OwnSurprise ==
  ASSUME SnapshotTypeOK, FilesHaveFolders, NEW s \in Suites, OwnFile(s), SnapshotStep(s),
         Surprised(s)'
  PROVE  Surprised(s) /\ step[s] \notin {"queued", "running"}
  <1> USE DEF SnapshotTypeOK, Go
  <1>1. CASE Load(s)
    BY <1>1 DEF Load, Surprised
  <1>2. CASE Return(s)
    BY <1>2 DEF Return, Surprised
  <1>3. CASE Persist_Begin(s)
    BY <1>3 DEF Persist_Begin, Surprised
  <1>4. CASE Open(s)
    BY <1>4 DEF Open, Surprised
  <1>5. CASE Fill(s)
    BY <1>5 DEF Fill, Surprised
  <1>6. CASE Unlink(s)
    BY <1>6 DEF Unlink, Surprised, OwnFile, FilesHaveFolders
  <1>7. CASE ListFolder(s)
    BY <1>7 DEF ListFolder, Surprised, IsEmpty
  <1>8. CASE RemoveFolder(s)
    BY <1>8 DEF RemoveFolder, Surprised
  <1> QED BY <1>1, <1>2, <1>3, <1>4, <1>5, <1>6, <1>7, <1>8 DEF SnapshotStep

\* A thread that another one's step disturbs shares its directory with it.
LEMMA OtherSurprise ==
  ASSUME SnapshotTypeOK, NEW s \in Suites, NEW x \in Suites \ {s}, OwnFile(s), OwnFile(x),
         SnapshotStep(s), Surprised(x)', ~Surprised(x)
  PROVE  /\ Folder[s] = Folder[x] /\ s \in Active /\ x \in Active
         /\ held[s].dirty /\ step[s] \notin {"idle", "queued", "running"}
         /\ held[s].keys = {} \/ held[x].keys = {}
  <1> USE DEF SnapshotTypeOK, Go
  <1>0. step'[x] = step[x] /\ disk'[x] = disk[x]
    BY OthersKeep DEF Others
  <1>1. x \in Active
    BY <1>0 DEF Surprised, Active, Persisting
  <1>2. CASE Open(s)
    <2>1. folders' = folders /\ step[s] = "write"
      BY <1>2 DEF Open
    <2>2. step[x] = "rmdir" /\ IsEmpty(Folder[x]) /\ ~IsEmpty(Folder[x])'
      BY <1>0, <2>1 DEF Surprised
    <2>3. Folder[s] = Folder[x]
      BY <2>2, EmptyElsewhere
    <2> QED BY <1>1, <2>1, <2>2, <2>3 DEF OwnFile, Active, Persisting
  <1>3. CASE RemoveFolder(s)
    <2>1. step[s] = "rmdir" /\ disk' = disk
      BY <1>3 DEF RemoveFolder
    <2>2. Folder[x] \in folders /\ Folder[x] \notin folders'
      BY <1>0, <2>1, <1>3 DEF Surprised, IsEmpty, RemoveFolder
    <2>3. Folder[s] = Folder[x]
      BY <2>2, <1>3 DEF RemoveFolder
    <2> QED BY <1>1, <2>1, <2>3 DEF OwnFile, Active, Persisting
  <1>4. CASE Fill(s)
    <2>1. folders' = folders /\ disk[s] # Missing
      BY <1>4, MissingIsEmpty DEF Fill, OwnFile
    <2>2. step[x] = "rmdir" /\ IsEmpty(Folder[x]) /\ ~IsEmpty(Folder[x])'
      BY <1>0, <2>1 DEF Surprised
    <2>3. Folder[s] = Folder[x]
      BY <2>2, EmptyElsewhere
    <2> QED BY <2>1, <2>2, <2>3 DEF IsEmpty
  <1>5. CASE Unlink(s)
    <2>1. folders' = folders
      BY <1>5 DEF Unlink
    <2>2. IsEmpty(Folder[x]) => IsEmpty(Folder[x])'
      BY <1>5, OthersKeep DEF Unlink, IsEmpty, Others
    <2> QED BY <1>0, <2>1, <2>2 DEF Surprised
  <1>6. CASE Load(s) \/ Return(s) \/ ListFolder(s) \/ Persist_Begin(s)
    <2>1. disk' = disk /\ folders \subseteq folders'
      BY <1>6 DEF Load, Return, ListFolder, Persist_Begin
    <2> QED BY <1>0, <2>1 DEF Surprised, IsEmpty
  <1> QED BY <1>2, <1>3, <1>4, <1>5, <1>6 DEF SnapshotStep

LEMMA SurpriseStep ==
  ASSUME FilesInv, NEW s \in Suites, SnapshotStep(s)
  PROVE  SurpriseIsCollision'
  <1> USE DEF FilesInv
  <1> SUFFICES ASSUME NEW x \in Suites, Surprised(x)'
               PROVE  Collided(x)'
    BY DEF SurpriseIsCollision
  <1>0. \A y \in Suites \ {s} : step'[y] = step[y] /\ held'[y] = held[y]
    BY OthersKeep DEF Others
  <1>1. x = s => Surprised(s) /\ held' = held
    BY OwnSurprise, HeldStays DEF OwnFiles
  <1>2. CASE Surprised(x)
    <2>1. /\ Threads > 1
          /\ \E t \in Suites \ {x} :
               /\ Folder[t] = Folder[x] /\ held[t].dirty
               /\ step[t] \notin {"idle", "queued", "running"}
               /\ held[x].keys = {} \/ held[t].keys = {}
      BY <1>2 DEF SurpriseIsCollision, Collided
    <2>2. PICK t \in Suites \ {x} :
               /\ Folder[t] = Folder[x] /\ held[t].dirty
               /\ step[t] \notin {"idle", "queued", "running"}
               /\ held[x].keys = {} \/ held[t].keys = {}
      BY <2>1
    <2>3. held'[t] = held[t] /\ step'[t] \notin {"idle", "queued", "running"}
      BY <1>0, <2>2, HeldStays
    <2>4. held'[x] = held[x]
      BY <1>0, <1>1
    <2> QED BY <2>1, <2>2, <2>3, <2>4 DEF Collided
  <1>3. CASE ~Surprised(x)
    <2>1. x \in Suites \ {s}
      BY <1>1, <1>3
    <2>2. /\ Folder[s] = Folder[x] /\ s \in Active /\ x \in Active
          /\ held[s].dirty /\ step[s] \notin {"idle", "queued", "running"}
          /\ held[s].keys = {} \/ held[x].keys = {}
      BY <1>3, <2>1, OtherSurprise DEF OwnFiles
    <2>3. Threads > 1
      BY <2>1, <2>2, TwoThreads
    <2>4. held' = held /\ step'[s] \notin {"idle", "queued", "running"}
      BY <2>2, HeldStays
    <2> QED BY <2>1, <2>2, <2>3, <2>4 DEF Collided
  <1> QED BY <1>2, <1>3
-----------------------------------------------------------------------------
\* The beginning of a run and of a pool.

LEMMA FilesInit ==
  ASSUME NEW u \in Updates, NEW files \in [Suites -> Contents], SnapshotInit(u, files)
  PROVE  FilesInv
  <1>0. \A s \in Suites : step[s] = "idle" /\ disk[s] = before[s] /\ disk[s] = files[s]
    BY DEF SnapshotInit
  <1>1. SnapshotTypeOK
    BY TypeInit
  <1>2. WithinThreads
    <2>1. Active = {}
      BY <1>0 DEF Active, Persisting
    <2> QED BY <2>1, FS_EmptySet, SnapshotAssumption DEF WithinThreads
  <1>3. FilesHaveFolders
    BY <1>0 DEF FilesHaveFolders, SnapshotInit
  <1>4. OwnFiles
    BY <1>0 DEF OwnFiles, OwnFile
  <1>5. EmptyIsWatched
    BY <1>0 DEF EmptyIsWatched, IsEmpty, SnapshotInit
  <1>6. SurpriseIsCollision
    BY <1>0 DEF SurpriseIsCollision, Surprised
  <1> QED BY <1>1, <1>2, <1>3, <1>4, <1>5, <1>6 DEF FilesInv

\* A pool that follows another one finds no directory empty.
LEMMA SettledLeavesNone ==
  ASSUME EmptyIsWatched, SnapshotsSettled, Broken = {}, NEW d \in folders
  PROVE  ~IsEmpty(d)
  BY DEF EmptyIsWatched, SnapshotsSettled, Broken

LEMMA FilesStart ==
  ASSUME FilesInv, SnapshotsSettled, Broken = {}, NEW tests \in SUBSET Suites, StartPool(tests)
  PROVE  FilesInv'
  <1> USE DEF FilesInv
  <1>0. /\ \A s \in Suites : step'[s] \in {"idle", "queued"} /\ before'[s] = disk[s]
        /\ disk' = disk /\ folders' = folders
    BY DEF StartPool
  <1>1. SnapshotTypeOK' /\ WithinThreads'
    BY TypeStart, ThreadsStart
  <1>2. FilesHaveFolders'
    BY <1>0 DEF FilesHaveFolders
  <1>3. OwnFiles'
    BY <1>0 DEF OwnFiles, OwnFile
  <1>4. EmptyIsWatched'
    BY <1>0, SettledLeavesNone DEF EmptyIsWatched, IsEmpty
  <1>5. SurpriseIsCollision'
    BY <1>0 DEF SurpriseIsCollision, Surprised
  <1> QED BY <1>1, <1>2, <1>3, <1>4, <1>5

LEMMA FilesStep ==
  ASSUME FilesInv, NEW s \in Suites, SnapshotStep(s)
  PROVE  FilesInv'
  <1> SnapshotTypeOK /\ WithinThreads /\ FilesHaveFolders /\ OwnFiles /\ OwnFile(s)
      /\ EmptyIsWatched
    BY DEF FilesInv, OwnFiles
  <1> QED BY TypeStep, ThreadsStep, FoldersStep, OwnFilesStep, WatchedStep, SurpriseStep
          DEF FilesInv

LEMMA FilesStutter ==
  ASSUME FilesInv, UNCHANGED snapshotVars
  PROVE  FilesInv'
  <1> USE DEF snapshotVars
  <1>1. SnapshotTypeOK' /\ FilesHaveFolders'
    BY DEF FilesInv, SnapshotTypeOK, FilesHaveFolders
  <1>2. WithinThreads'
    BY DEF FilesInv, WithinThreads, Active
  <1>3. OwnFiles'
    BY DEF FilesInv, OwnFiles, OwnFile
  <1>4. EmptyIsWatched'
    BY DEF FilesInv, EmptyIsWatched, IsEmpty
  <1>5. SurpriseIsCollision'
    BY DEF FilesInv, SurpriseIsCollision, Surprised, Collided, IsEmpty
  <1> QED BY <1>1, <1>2, <1>3, <1>4, <1>5 DEF FilesInv

LEMMA FilesOnDisk ==
  ASSUME FilesInv
  PROVE  SnapshotsOnDisk
  <1> USE DEF FilesInv
  <1>1. DoneIsOnDisk
    BY DEF DoneIsOnDisk, OwnFiles, OwnFile
  <1>2. NoFolderIsLeft
    BY SettledLeavesNone DEF NoFolderIsLeft
  <1>3. FailureIsCollision
    BY DEF FailureIsCollision, SurpriseIsCollision, Surprised, Collided
  <1> QED BY <1>1, <1>2, <1>3 DEF SnapshotsOnDisk

-----------------------------------------------------------------------------
\* What each thread knows of its file and of its directory holds throughout a
\* run, whatever the other threads of the pool do to the directory
\* (rjest_snapshot::load, persist and remove_empty_parent).
THEOREM FilesInvariant == SnapshotSpec => []FilesInv
  <1>1. ASSUME NEW u \in Updates, NEW files \in [Suites -> Contents], SnapshotInit(u, files)
        PROVE  FilesInv
    BY <1>1, FilesInit
  <1>2. (\E u \in Updates, files \in [Suites -> Contents] : SnapshotInit(u, files)) => FilesInv
    BY <1>1
  <1>3. FilesInv /\ [SnapshotNext]_snapshotVars => FilesInv'
    BY FilesStart, FilesStep, FilesStutter DEF SnapshotNext
  <1> QED BY <1>2, <1>3, PTL DEF SnapshotSpec

\* The snapshot files and the threads of a pool have their types throughout.
THEOREM FilesTypeCorrect == SnapshotSpec => []SnapshotTypeOK
  <1>1. FilesInv => SnapshotTypeOK
    BY DEF FilesInv
  <1> QED BY <1>1, FilesInvariant, PTL

\* No interleaving of the threads of one directory costs a suite its
\* snapshots, an error is never without a second suite that used the directory
\* meanwhile, and a run without an error leaves no empty directory.
THEOREM SnapshotsSurviveSharing == SnapshotSpec => []SnapshotsOnDisk
  <1>1. FilesInv => SnapshotsOnDisk
    BY FilesOnDisk
  <1> QED BY <1>1, FilesInvariant, PTL
=============================================================================
