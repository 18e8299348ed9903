---------------------------- MODULE InvocationProofs ----------------------------
(***************************************************************************)
(* Theorems about whole invocations: the search for related tests, what is *)
(* loaded from configuration files, whichever lead to which, and what the  *)
(* selection, the pools, coverage and the exit code make of it.            *)
(***************************************************************************)
EXTENDS Invocation, SnapshotFilesProofs, FiniteSums, FiniteSetTheorems, SequenceTheorems, TLAPS

\* The search for related tests is exact for every module graph and every set of
\* changed files. The inductive invariant is SearchIsSound: what the rounds have
\* visited is in every set that is closed under dependents, and closed itself but
\* for the dependents of the frontier.

\* A graph of the module without a resolver that answers at once is never
\* searched.
WholeOrDone == search # "idle" /\ ~complete => search = "done" /\ related = candidates

SearchInv == RelatedTypeOK /\ SearchIsSound /\ WholeOrDone

\* The changed snapshots lead to tests of the project.
LEMMA SeedsAreFiles ==
  ASSUME NEW changes \in SUBSET Files, NEW tests \in SUBSET Files
  PROVE  Seeds(changes, tests) \subseteq Files
  BY DEF Seeds

LEMMA RelatedInitHolds == RelatedInit => SearchInv
  BY DEF RelatedInit, SearchInv, RelatedTypeOK, SearchIsSound, WholeOrDone

\* A search begins with its seeds as the frontier and nothing visited.
LEMMA StartKeeps ==
  ASSUME NEW modules \in SUBSET Files, NEW changes \in SUBSET Files,
         NEW tests \in SUBSET Files, NEW whole \in BOOLEAN,
         NEW g \in [modules -> SUBSET Files],
         SearchInv, StartSearch(changes, tests, g, whole)
  PROVE  SearchInv'
  <1>1. seeds' \subseteq Files
    BY SeedsAreFiles DEF StartSearch
  <1>2. CoveragePaths(changes, tests, g) \subseteq Files
    BY DEF CoveragePaths
  <1>3. RelatedTypeOK'
    BY <1>1, <1>2 DEF StartSearch, RelatedTypeOK
  <1>4. SearchIsSound'
    BY DEF StartSearch, SearchIsSound, Upward
  <1>5. WholeOrDone'
    BY DEF StartSearch, WholeOrDone
  <1> QED BY <1>3, <1>4, <1>5 DEF SearchInv

\* One round: the dependents of the frontier are in every closed set as the
\* frontier is, and after it only they can have dependents left.
LEMMA ExpandKeeps ==
  ASSUME SearchInv, Expand
  PROVE  SearchInv'
  <1> DEFINE inverse == {m \in DOMAIN graph \ visited : graph[m] \cap frontier # {}}
  <1>1. /\ search = "expanding" /\ complete
        /\ visited' = visited \cup inverse
        /\ related' = related \cup (inverse \cap candidates)
        /\ frontier' = IF inverse = {} THEN frontier ELSE inverse
        /\ search' = IF inverse = {} THEN "done" ELSE "expanding"
        /\ UNCHANGED <<graph, complete, candidates, seeds, instrumented>>
    BY DEF Expand, SearchInv, RelatedTypeOK, WholeOrDone
  <1>2. inverse \subseteq DOMAIN graph
    OBVIOUS
  <1>3. /\ related = candidates \cap (seeds \cup visited)
        /\ frontier \subseteq seeds \cup visited
        /\ \A C \in SUBSET Files : Upward(C) => visited \subseteq C
        /\ \A m \in DOMAIN graph :
             graph[m] \cap ((seeds \cup visited) \ frontier) # {} => m \in visited
    BY <1>1 DEF SearchInv, SearchIsSound
  <1> HIDE DEF inverse
  <1>4. RelatedTypeOK'
    BY <1>1, <1>2 DEF SearchInv, RelatedTypeOK
  <1>5. \A C \in SUBSET Files : Upward(C)' => (visited' \subseteq C)
    <2> SUFFICES ASSUME NEW C \in SUBSET Files, Upward(C)'
                 PROVE  visited' \subseteq C
      OBVIOUS
    <2>1. Upward(C)
      BY <1>1 DEF Upward
    <2>2. frontier \subseteq C
      BY <1>3, <2>1 DEF Upward
    <2>3. inverse \subseteq C
      BY <2>1, <2>2 DEF Upward, inverse
    <2> QED BY <1>1, <1>3, <2>1, <2>3
  <1>6. \A m \in DOMAIN graph :
          graph[m] \cap (seeds \cup visited) # {} => m \in visited \cup inverse
    BY <1>3 DEF inverse
  <1>7. \A m \in DOMAIN graph' :
          graph'[m] \cap ((seeds' \cup visited') \ frontier') # {} => m \in visited'
    <2>1. CASE inverse = {}
      BY <1>1, <1>3, <2>1
    <2>2. CASE inverse # {}
      BY <1>1, <1>6, <2>2
    <2> QED BY <2>1, <2>2
  <1>8. search' = "done" => Upward(seeds \cup visited)'
    BY <1>1, <1>6 DEF Upward
  <1>9. related' = candidates' \cap (seeds' \cup visited')
    BY <1>1, <1>3
  <1>10. frontier' \subseteq seeds' \cup visited'
    BY <1>1, <1>3
  <1>11. SearchIsSound'
    BY <1>5, <1>7, <1>8, <1>9, <1>10 DEF SearchIsSound
  <1>12. WholeOrDone'
    BY <1>1 DEF WholeOrDone
  <1> QED BY <1>4, <1>11, <1>12 DEF SearchInv

LEMMA StutterKeeps == SearchInv /\ UNCHANGED relatedVars => SearchInv'
  BY DEF relatedVars, SearchInv, RelatedTypeOK, SearchIsSound, WholeOrDone, Upward

\* The rounds of any search keep the invariant.
THEOREM SearchInvariant == RelatedSpec => []SearchInv
  <1>1. RelatedInit => SearchInv
    BY RelatedInitHolds
  <1>2. SearchInv /\ [RelatedNext]_relatedVars => SearchInv'
    <2> SUFFICES ASSUME SearchInv, [RelatedNext]_relatedVars
                 PROVE  SearchInv'
      OBVIOUS
    <2>1. CASE Expand
      BY <2>1, ExpandKeeps
    <2>2. CASE \E modules, changes, tests \in SUBSET Files, whole \in BOOLEAN :
                 \E g \in [modules -> SUBSET Files] : StartSearch(changes, tests, g, whole)
      BY <2>2, StartKeeps
    <2>3. CASE UNCHANGED relatedVars
      BY <2>3, StutterKeeps
    <2> QED BY <2>1, <2>2, <2>3 DEF RelatedNext
  <1> QED BY <1>1, <1>2, PTL DEF RelatedSpec

\* Every variable of the search keeps its type.
THEOREM RelatedTypeCorrect == RelatedSpec => []RelatedTypeOK
  <1>1. SearchInv => RelatedTypeOK
    BY DEF SearchInv
  <1> QED BY <1>1, SearchInvariant, PTL

LEMMA SearchExact == SearchInv => RelatedIsExact
  <1> SUFFICES ASSUME SearchInv, search = "done", complete
               PROVE  related = candidates \cap Affected
    BY DEF SearchInv, WholeOrDone, RelatedIsExact
  <1>1. /\ related = candidates \cap (seeds \cup visited)
        /\ \A C \in SUBSET Files : Upward(C) => visited \subseteq C
        /\ Upward(seeds \cup visited)
    BY DEF SearchInv, SearchIsSound
  <1>2. seeds \cup visited \in SUBSET Files
    BY DEF SearchInv, RelatedTypeOK
  <1>3. Affected \subseteq seeds \cup visited
    BY <1>1, <1>2 DEF Affected
  <1>4. seeds \cup visited \subseteq Affected
    BY <1>1, <1>2 DEF Affected, Upward
  <1> QED BY <1>1, <1>3, <1>4

\* A finished search has selected exactly the tests that a change can affect,
\* through chains and cycles of imports of any length (related_tests).
THEOREM SearchIsExact == RelatedSpec => []RelatedIsExact
  BY SearchExact, SearchInvariant, PTL

\* Every round visits a module it had not visited or is the last one, so that
\* the search of a finite graph ends.
THEOREM RoundsAdvance ==
  RelatedSpec => [][search = "expanding" =>
                      visited \subseteq visited' /\ (visited' = visited => search' = "done")]_relatedVars
  <1>1. [RelatedNext]_relatedVars =>
          [search = "expanding" =>
             visited \subseteq visited' /\ (visited' = visited => search' = "done")]_relatedVars
    BY DEF RelatedNext, Expand, relatedVars
  <1> QED BY <1>1, PTL DEF RelatedSpec
-----------------------------------------------------------------------------
\* Names, one after another.

WalkTo(path, n, walk) ==
  walk = [i \in 0 .. n |-> IF i = 0 THEN <<>> ELSE Walked(walk[i - 1], path[i])]

LEMMA WalksExist ==
  ASSUME NEW path, NEW n \in Nat
  PROVE  \E walk : WalkTo(path, n, walk)
  <1> DEFINE N == {m \in Nat : \E walk : WalkTo(path, m, walk)}
  <1>1. 0 \in N
    <2>1. WalkTo(path, 0, [i \in 0 .. 0 |-> <<>>])
      BY DEF WalkTo
    <2> QED BY <2>1
  <1>2. ASSUME NEW m \in N PROVE m + 1 \in N
    <2>1. PICK walk : WalkTo(path, m, walk)
      OBVIOUS
    <2> DEFINE next == [i \in 0 .. m + 1 |-> IF i = 0 THEN <<>> ELSE Walked(walk[i - 1], path[i])]
    <2>2. \A i \in 0 .. m : next[i] = walk[i]
      BY <2>1 DEF WalkTo
    <2>3. \A i \in 0 .. m + 1 : i # 0 => i - 1 \in 0 .. m
      OBVIOUS
    <2>4. WalkTo(path, m + 1, next)
      BY <2>2, <2>3 DEF WalkTo
    <2> QED BY <2>4
  <1> HIDE DEF N
  <1>3. N = Nat
    BY <1>1, <1>2, NumbersFrom0 DEF N
  <1> QED BY <1>3 DEF N

LEMMA FrontIsPath == ASSUME NEW path \in Paths PROVE Front(path) \in Paths
  BY SubSeqProperties DEF Paths, Front

LEMMA WalkedIsPath ==
  ASSUME NEW directory \in Paths, NEW name \in Names
  PROVE  Walked(directory, name) \in Paths
  <1>1. Append(directory, name) \in Paths
    BY AppendProperties DEF Paths
  <1> QED BY <1>1, FrontIsPath DEF Walked

\* resolve_from and absolute lead from names to names.
LEMMA NormalizedIsPath ==
  ASSUME NEW path \in Paths
  PROVE  Normalized(path) \in Paths
  <1> DEFINE walk == CHOOSE w : WalkTo(path, Len(path), w)
  <1>1. Len(path) \in Nat /\ path \in [1 .. Len(path) -> Names]
    BY DEF Paths
  <1>2. WalkTo(path, Len(path), walk)
    BY <1>1, WalksExist
  <1>3. Normalized(path) = walk[Len(path)]
    BY DEF Normalized, WalkTo
  <1> HIDE DEF walk
  <1> DEFINE N == {m \in Nat : m <= Len(path) => walk[m] \in Paths}
  <1>4. 0 \in N
    BY <1>1, <1>2 DEF WalkTo, Paths
  <1>5. ASSUME NEW m \in N PROVE m + 1 \in N
    <2> SUFFICES ASSUME m + 1 <= Len(path) PROVE walk[m + 1] \in Paths
      OBVIOUS
    <2>1. walk[m + 1] = Walked(walk[m], path[m + 1])
      BY <1>1, <1>2 DEF WalkTo
    <2>2. walk[m] \in Paths /\ path[m + 1] \in Names
      BY <1>1
    <2> QED BY <2>1, <2>2, WalkedIsPath
  <1> HIDE DEF N
  <1>6. N = Nat
    BY <1>4, <1>5, NumbersFrom0 DEF N
  <1> QED BY <1>1, <1>3, <1>6 DEF N

LEMMA ResolvedIsPath ==
  ASSUME NEW directory \in Paths, NEW names \in Paths
  PROVE  Resolve(directory, names) \in Paths
  <1>1. directory \o names \in Paths
    BY ConcatProperties DEF Paths
  <1> QED BY <1>1, NormalizedIsPath DEF Resolve

-----------------------------------------------------------------------------
\* Which file is found.

\* The longest of some beginnings of a path.
LEMMA LongestExists ==
  ASSUME NEW directory \in Paths,
         NEW some \in SUBSET {SubSeq(directory, 1, i) : i \in 0 .. Len(directory)}, some # {}
  PROVE  \E d \in some : \A other \in some : Len(other) <= Len(d)
  <1>1. Len(directory) \in Nat
    BY DEF Paths
  <1>2. \A d \in some : Len(d) \in 0 .. Len(directory)
    <2> SUFFICES ASSUME NEW i \in 0 .. Len(directory)
                 PROVE  Len(SubSeq(directory, 1, i)) = i
      OBVIOUS
    <2>1. \A j \in 1 .. i : directory[j] \in Names
      BY <1>1 DEF Paths
    <2> QED BY <1>1, <2>1, SubSeqProperties
  <1> DEFINE N == {n \in Nat : \E d \in some : Len(d) >= n}
  <1>3. 0 \in N
    BY <1>2
  <1>4. SUFFICES ASSUME \A d \in some : \E other \in some : Len(other) > Len(d) PROVE FALSE
    BY <1>2
  <1>5. ASSUME NEW n \in N PROVE n + 1 \in N
    <2>1. PICK d \in some : Len(d) >= n
      OBVIOUS
    <2>2. PICK other \in some : Len(other) > Len(d)
      BY <1>4
    <2>3. Len(other) \in Nat /\ Len(d) \in Nat
      BY <1>2
    <2>4. Len(other) >= n + 1
      BY <2>1, <2>2, <2>3
    <2> QED BY <2>4
  <1> HIDE DEF N
  <1>6. N = Nat
    BY <1>3, <1>5, NumbersFrom0 DEF N
  <1>7. PICK d \in some : Len(d) >= Len(directory) + 1
    BY <1>1, <1>6 DEF N
  <1> QED BY <1>1, <1>2, <1>7

LEMMA FoundIsPath ==
  ASSUME NEW directory \in Paths, FindConfig(directory).error = "none"
  PROVE  FindConfig(directory).path \in Paths
  <1> DEFINE above == {SubSeq(directory, 1, i) : i \in 0 .. Len(directory)}
             found == {d \in above : NamedIn(d) \cup PackageIn(d) # {}}
             nearest == CHOOSE d \in found : \A other \in found : Len(other) <= Len(d)
  <1>1. found # {} /\ FindConfig(directory) = Candidate(NamedIn(nearest), PackageIn(nearest))
    BY DEF FindConfig, Error
  <1>2. nearest \in found
    BY <1>1, LongestExists
  <1>3. nearest \in Paths
    <2>1. \A i \in 0 .. Len(directory) : \A j \in 1 .. i : directory[j] \in Names
      BY DEF Paths
    <2>2. \A i \in 0 .. Len(directory) : SubSeq(directory, 1, i) \in Paths
      BY <2>1, SubSeqProperties DEF Paths
    <2> QED BY <1>2, <2>2
  <1> DEFINE files == NamedIn(nearest) \cup PackageIn(nearest)
  <1>4. files # {}
    BY <1>2
  <1>5. files \subseteq Paths
    <2>1. \A n \in Names : Append(nearest, n) \in Paths
      BY <1>3, AppendProperties DEF Paths
    <2>2. ConfigNames \subseteq Names /\ "package.json" \in Names
      BY ConfigurationAssumption DEF ConfigNames
    <2> HIDE DEF nearest
    <2> QED BY <2>1, <2>2 DEF NamedIn, PackageIn
  <1> HIDE DEF nearest, found
  <1>6. Candidate(NamedIn(nearest), PackageIn(nearest)).error = "none" =>
          Candidate(NamedIn(nearest), PackageIn(nearest)).path \in files
    BY <1>4 DEF Candidate, Error
  <1> QED BY <1>1, <1>5, <1>6

LEMMA DirectoryIsPath == ASSUME NEW path \in Paths PROVE DirectoryOf(path) \in Paths
  BY FrontIsPath DEF DirectoryOf

LEMMA ConfigIsPath ==
  ASSUME NEW path \in Paths, ConfigOf(path).error = "none"
  PROVE  ConfigOf(path).path \in Paths
  BY FoundIsPath DEF ConfigOf, Error

-----------------------------------------------------------------------------
\* What a project is made of.

Fields == {"error", "root", "roots", "name", "match", "regex", "ignored", "options",
           "projects", "from"}

Said(c, o, default) == Option(c.from.local, o, Option(c.from.preset, o, default))

\* The value of an option before the command line is heard.
Inherits(c, o) ==
  CASE o \in Lists -> c.options[o] = Option(c.from.preset, o, <<>>) \o Option(c.from.local, o, <<>>)
    [] o \in Maps ->
         /\ DOMAIN c.options[o] =
              DOMAIN Option(c.from.preset, o, <<>>) \cup DOMAIN Option(c.from.local, o, <<>>)
         /\ \A k \in DOMAIN c.options[o] :
              c.options[o][k] = Option(Option(c.from.local, o, <<>>), k,
                                       Option(Option(c.from.preset, o, <<>>), k, "none"))
    [] OTHER -> c.options[o] = Said(c, o, Defaults[o])

\* A project that was loaded: its options are those of its description, of the
\* preset and the defaults, in this order.
Made(c) ==
  /\ DOMAIN c = Fields
  /\ DOMAIN c.options = Options
  /\ c.options["testFailureExitCode"] \in Int
  /\ AreThresholds(c.options["coverageThreshold"])
  /\ c.regex = Said(c, "testRegex", {})
  /\ c.match = IF "testRegex" \in DOMAIN c.from.local \cup DOMAIN c.from.preset THEN {}
               ELSE Said(c, "testMatch", DefaultMatch)
  /\ \A o \in Options \ {"cacheDirectory"} : Inherits(c, o)

MadeIn(list, some) == list \in Seq(some) /\ \A c \in some : Made(c)

MadeList(list) == \E some : MadeIn(list, some)

\* The result of a load: an error, or a project and its projects.
Loads(c) == c.error = "none" => Made(c) /\ MadeList(c.projects)

\* What merge_preset makes of an option of either.
MergesTo(sum, preset, raw) ==
  \A o : o # "rootDir" /\ o # "preset" =>
    /\ o \in DOMAIN sum <=> o \in DOMAIN preset \cup DOMAIN raw
    /\ o \in DOMAIN sum =>
         sum[o] = IF o \notin DOMAIN raw THEN preset[o]
                     ELSE IF o \notin DOMAIN preset THEN raw[o]
                     ELSE IF o \in Lists THEN preset[o] \o raw[o]
                     ELSE IF o \in Maps THEN Over(raw[o], preset[o])
                     ELSE raw[o]

LEMMA MergedOption ==
  ASSUME NEW sum, NEW preset, NEW raw, MergesTo(sum, preset, raw),
         NEW o, o # "rootDir", o # "preset", NEW default
  PROVE  Option(sum, o, default) =
           IF o \in DOMAIN raw /\ o \in DOMAIN preset /\ o \in Lists THEN preset[o] \o raw[o]
           ELSE IF o \in DOMAIN raw /\ o \in DOMAIN preset /\ o \in Maps THEN Over(raw[o], preset[o])
           ELSE Option(raw, o, Option(preset, o, default))
  BY DEF MergesTo, Option

LEMMA MergeMerges ==
  ASSUME NEW preset, NEW raw
  PROVE  MergesTo(Merge(preset, raw), preset, raw)
  BY DEF MergesTo, Merge

LEMMA NothingMerges == MergesTo(<<>>, <<>>, <<>>)
  BY DEF MergesTo

LEMMA OptionNames ==
  /\ "rootDir" \notin Options /\ "preset" \notin Options
  /\ "testFailureExitCode" \in Options /\ "testFailureExitCode" # "cacheDirectory"
  /\ Lists \subseteq Options /\ Maps \subseteq Options /\ Lists \cap Maps = {}
  /\ "cacheDirectory" \notin Lists \cup Maps
  /\ "testFailureExitCode" \notin Lists \cup Maps
  /\ "coverageThreshold" \in Options /\ "coverageThreshold" # "cacheDirectory"
  /\ "onlyChanged" \in Options /\ "onlyChanged" \notin Lists \cup Maps
  /\ \A o \in Lists \cup Maps : Defaults[o] = <<>>
  /\ Defaults["testFailureExitCode"] = 1 /\ Defaults["coverageThreshold"] = <<>>
  BY DEF Options, Defaults, Lists, Maps

LEMMA ListMade ==
  ASSUME NEW c, NEW o \in Lists, NEW sum, MergesTo(sum, c.from.preset, c.from.local),
         c.options[o] = Option(sum, o, Defaults[o]),
         Option(c.from.local, o, <<>>) \in Seq(STRING), Option(c.from.preset, o, <<>>) \in Seq(STRING)
  PROVE  Inherits(c, o)
  <1> DEFINE local == c.from.local
             preset == c.from.preset
  <1>1. o # "rootDir" /\ o # "preset" /\ Defaults[o] = <<>> /\ o \notin Maps
    BY OptionNames
  <1>2. c.options[o] = IF o \in DOMAIN local /\ o \in DOMAIN preset THEN preset[o] \o local[o]
                       ELSE Option(local, o, Option(preset, o, <<>>))
    BY <1>1 DEF MergesTo, Option
  <1>3. /\ <<>> \o Option(local, o, <<>>) = Option(local, o, <<>>)
        /\ Option(preset, o, <<>>) \o <<>> = Option(preset, o, <<>>)
    OBVIOUS
  <1>4. c.options[o] = Option(preset, o, <<>>) \o Option(local, o, <<>>)
    BY <1>2, <1>3 DEF Option
  <1> QED BY <1>1, <1>4 DEF Inherits

LEMMA MapMade ==
  ASSUME NEW c, NEW o \in Maps, NEW sum, MergesTo(sum, c.from.preset, c.from.local),
         c.options[o] = Option(sum, o, Defaults[o])
  PROVE  Inherits(c, o)
  <1> DEFINE local == c.from.local
             preset == c.from.preset
             own == Option(local, o, <<>>)
             shared == Option(preset, o, <<>>)
  <1>1. o # "rootDir" /\ o # "preset" /\ Defaults[o] = <<>> /\ o \notin Lists
    BY OptionNames
  <1>2. c.options[o] = IF o \in DOMAIN local /\ o \in DOMAIN preset THEN Over(local[o], preset[o])
                       ELSE Option(local, o, Option(preset, o, <<>>))
    BY <1>1, MergedOption
  <1>3. DOMAIN <<>> = {}
    OBVIOUS
  <1>4. CASE o \in DOMAIN local /\ o \in DOMAIN preset
    <2>1. c.options[o] = Over(own, shared)
      BY <1>2, <1>4 DEF Option
    <2> HIDE DEF own, shared
    <2>2. DOMAIN c.options[o] = DOMAIN shared \cup DOMAIN own
      BY <2>1 DEF Over
    <2>3. \A k \in DOMAIN c.options[o] : c.options[o][k] = Option(own, k, Option(shared, k, "none"))
      BY <2>1, <2>2 DEF Over, Option
    <2> QED BY <1>1, <2>2, <2>3 DEF Inherits, own, shared
  <1>5. CASE o \notin DOMAIN local
    <2>1. own = <<>> /\ c.options[o] = shared
      BY <1>2, <1>5 DEF Option
    <2> QED BY <1>1, <1>3, <2>1 DEF Inherits, Option
  <1>6. CASE o \in DOMAIN local /\ o \notin DOMAIN preset
    <2>1. shared = <<>> /\ c.options[o] = own
      BY <1>2, <1>6 DEF Option
    <2> QED BY <1>1, <1>3, <2>1 DEF Inherits, Option
  <1> QED BY <1>4, <1>5, <1>6

LEMMA OtherMade ==
  ASSUME NEW c, NEW o \in Options \ (Lists \cup Maps), NEW sum,
         MergesTo(sum, c.from.preset, c.from.local),
         c.options[o] = Option(sum, o, Defaults[o])
  PROVE  Inherits(c, o)
  <1>1. o # "rootDir" /\ o # "preset"
    BY OptionNames
  <1>2. c.options[o] = Said(c, o, Defaults[o])
    BY <1>1, MergedOption DEF Said
  <1> QED BY <1>2 DEF Inherits

\* The options of a description and of its preset, put together.
LEMMA RawMerges ==
  ASSUME NEW sum, NEW preset, NEW raw, NEW tree,
         MergesTo(sum, preset, raw), IsRaw(raw, tree), IsRaw(preset, tree)
  PROVE  /\ Option(sum, "projects", <<>>) \in Seq(Entries(tree))
         /\ Option(sum, "testFailureExitCode", 1) \in Int
         /\ AreThresholds(Option(sum, "coverageThreshold", <<>>))
  <1>1. /\ "projects" # "rootDir" /\ "projects" # "preset" /\ "projects" \notin Lists \cup Maps
        /\ "testFailureExitCode" # "rootDir" /\ "testFailureExitCode" # "preset"
        /\ "testFailureExitCode" \notin Lists \cup Maps
        /\ "coverageThreshold" # "rootDir" /\ "coverageThreshold" # "preset"
        /\ "coverageThreshold" \notin Lists \cup Maps
    BY DEF Lists, Maps
  <1>2. /\ Option(sum, "projects", <<>>) = Option(raw, "projects", Option(preset, "projects", <<>>))
        /\ Option(sum, "testFailureExitCode", 1) =
             Option(raw, "testFailureExitCode", Option(preset, "testFailureExitCode", 1))
        /\ Option(sum, "coverageThreshold", <<>>) =
             Option(raw, "coverageThreshold", Option(preset, "coverageThreshold", <<>>))
    BY <1>1 DEF MergesTo, Option
  <1>3. /\ Option(raw, "projects", Option(preset, "projects", <<>>)) \in Seq(Entries(tree))
        /\ Option(raw, "testFailureExitCode", Option(preset, "testFailureExitCode", 1)) \in Int
        /\ AreThresholds(Option(raw, "coverageThreshold", Option(preset, "coverageThreshold", <<>>)))
    BY DEF IsRaw, Option
  <1> QED BY <1>2, <1>3

LEMMA NothingIsRaw == ASSUME NEW tree PROVE IsRaw(<<>>, tree)
  <1>1. DOMAIN <<>> = {}
    OBVIOUS
  <1>2. AreThresholds(<<>>)
    BY <1>1 DEF AreThresholds
  <1> QED BY <1>1, <1>2 DEF IsRaw, Option, Anchors

LEMMA ProjectIsMade ==
  ASSUME NEW sum, NEW preset, NEW raw, NEW tree, NEW root, NEW roots,
         MergesTo(sum, preset, raw), IsRaw(raw, tree), IsRaw(preset, tree)
  PROVE  /\ Project(sum, root, roots, raw, preset).error = "none"
         /\ Project(sum, root, roots, raw, preset).roots = roots
         /\ Project(sum, root, roots, raw, preset).projects = <<>>
         /\ Made(Project(sum, root, roots, raw, preset))
  <1> DEFINE c == Project(sum, root, roots, raw, preset)
  <1>1. /\ c.error = "none" /\ c.roots = roots /\ c.projects = <<>>
        /\ c.from.local = raw /\ c.from.preset = preset
        /\ DOMAIN c = Fields
    BY DEF Project, Fields
  <1>2. /\ DOMAIN c.options = Options
        /\ \A o \in Options \ {"cacheDirectory"} : c.options[o] = Option(sum, o, Defaults[o])
    BY DEF Project
  <1>3. c.regex = Option(sum, "testRegex", {})
    BY DEF Project, Patterns, Option
  <1>4. c.match = IF "testRegex" \in DOMAIN sum THEN {} ELSE Option(sum, "testMatch", DefaultMatch)
    BY DEF Project, Patterns
  <1> HIDE DEF c
  <1>5. /\ "testRegex" # "rootDir" /\ "testRegex" # "preset" /\ "testRegex" \notin Lists \cup Maps
        /\ "testMatch" # "rootDir" /\ "testMatch" # "preset" /\ "testMatch" \notin Lists \cup Maps
    BY DEF Lists, Maps
  <1>6. c.regex = Said(c, "testRegex", {})
    BY <1>1, <1>3, <1>5 DEF MergesTo, Option, Said
  <1>7. c.match = IF "testRegex" \in DOMAIN c.from.local \cup DOMAIN c.from.preset THEN {}
                  ELSE Said(c, "testMatch", DefaultMatch)
    BY <1>1, <1>4, <1>5 DEF MergesTo, Option, Said
  <1>8. c.options["testFailureExitCode"] \in Int /\ AreThresholds(c.options["coverageThreshold"])
    BY <1>2, OptionNames, RawMerges
  <1>9. \A o \in Options \ {"cacheDirectory"} : Inherits(c, o)
    <2> SUFFICES ASSUME NEW o \in Options \ {"cacheDirectory"} PROVE Inherits(c, o)
      OBVIOUS
    <2>1. MergesTo(sum, c.from.preset, c.from.local) /\ c.options[o] = Option(sum, o, Defaults[o])
      BY <1>1, <1>2
    <2>2. CASE o \in Lists
      <3>1. Option(c.from.local, o, <<>>) \in Seq(STRING) /\ Option(c.from.preset, o, <<>>) \in Seq(STRING)
        BY <1>1, <2>2 DEF IsRaw
      <3> QED BY <2>1, <2>2, <3>1, ListMade
    <2>3. CASE o \in Maps
      BY <2>1, <2>3, MapMade
    <2>4. CASE o \notin Lists \cup Maps
      BY <2>1, <2>4, OtherMade
    <2> QED BY <2>2, <2>3, <2>4
  <1>10. Made(c)
    BY <1>1, <1>2, <1>6, <1>7, <1>8, <1>9 DEF Made
  <1> QED BY <1>1, <1>10 DEF c

\* What was made keeps what it is made of when it is given projects.
LEMMA MadeWithProjects ==
  ASSUME NEW c, Made(c), c.error = "none", NEW list, MadeList(list)
  PROVE  Loads([c EXCEPT !.projects = list]) /\ [c EXCEPT !.projects = list].error = "none"
  <1> DEFINE d == [c EXCEPT !.projects = list]
  <1>1. /\ DOMAIN d = Fields /\ d.projects = list /\ d.error = c.error
        /\ d.options = c.options /\ d.from = c.from /\ d.regex = c.regex /\ d.match = c.match
    BY DEF Made, Fields
  <1> HIDE DEF d
  <1>2. \A o : Inherits(c, o) => Inherits(d, o)
    BY <1>1 DEF Inherits, Said
  <1>3. Made(d)
    BY <1>1, <1>2 DEF Made, Said
  <1> QED BY <1>1, <1>3 DEF Loads, d
-----------------------------------------------------------------------------
\* Lists of projects.

GoodLoad(load) == \A request \in Requests : Loads(load[request])

GoodSoFar(acc) ==
  DOMAIN acc = {"error", "seen", "list"} /\ (acc.error = "none" => MadeList(acc.list))

LEMMA NoneIsMade == MadeList(<<>>)
  <1>1. MadeIn(<<>>, {})
    BY DEF MadeIn
  <1> QED BY <1>1 DEF MadeList

LEMMA OneMoreIsMade ==
  ASSUME NEW list, MadeList(list), NEW c, Made(c)
  PROVE  MadeList(Append(list, c))
  <1>1. PICK some : MadeIn(list, some)
    BY DEF MadeList
  <1>2. Append(list, c) \in Seq(some \cup {c})
    <2>1. list \in Seq(some \cup {c})
      BY <1>1 DEF MadeIn
    <2> QED BY <2>1, AppendProperties
  <1>3. MadeIn(Append(list, c), some \cup {c})
    BY <1>1, <1>2 DEF MadeIn
  <1> QED BY <1>3 DEF MadeList

LEMMA AddKeepsGood ==
  ASSUME NEW acc, GoodSoFar(acc), acc.error = "none", NEW c, Loads(c), NEW path
  PROVE  GoodSoFar(Add(acc, c, path))
  <1>1. CASE c.error # "none"
    BY <1>1 DEF Add, GoodSoFar
  <1>2. CASE c.error = "none"
    <2>1. MadeList(Append(acc.list, c))
      BY <1>2, OneMoreIsMade DEF GoodSoFar, Loads
    <2> QED BY <1>2, <2>1 DEF Add, GoodSoFar
  <1> QED BY <1>1, <1>2

LEMMA EntryKeepsGood ==
  ASSUME NEW load, GoodLoad(load), NEW parent \in Paths, NEW directory \in Paths,
         NEW acc, GoodSoFar(acc), NEW e \in Entries(given.tree)
  PROVE  GoodSoFar(AddEntry(load, parent, directory, acc, e))
  <1>1. CASE acc.error # "none"
    BY <1>1 DEF AddEntry
  <1>2. CASE acc.error = "none" /\ e.is = "inline"
    <2>1. OfObject(e.name, parent, directory) \in Requests
      BY <1>2 DEF OfObject, Requests, Entries
    <2> QED BY <1>2, <2>1, AddKeepsGood DEF AddEntry, GoodLoad
  <1>3. CASE acc.error = "none" /\ e.is # "inline"
    <2>1. e.path \in Paths
      BY <1>3 DEF Entries
    <2>2. GoodSoFar(AddFound(load, acc, ConfigOf(e.path), e.path))
      <3>1. CASE ConfigOf(e.path).error # "none"
        BY <3>1 DEF AddFound, GoodSoFar
      <3>2. CASE ConfigOf(e.path).error = "none" /\ ConfigOf(e.path).path \in acc.seen
        BY <3>2 DEF AddFound, GoodSoFar
      <3>3. CASE ConfigOf(e.path).error = "none" /\ ConfigOf(e.path).path \notin acc.seen
        <4>1. ConfigOf(e.path).path \in Paths /\ DirectoryOf(e.path) \in Paths
          BY <2>1, <3>3, ConfigIsPath, DirectoryIsPath
        <4>2. OfFile(DirectoryOf(e.path), ConfigOf(e.path).path, FALSE) \in Requests
          BY <4>1 DEF OfFile, Requests
        <4> QED BY <1>3, <3>3, <4>2, AddKeepsGood DEF AddFound, GoodLoad
      <3> QED BY <3>1, <3>2, <3>3
    <2> QED BY <1>3, <2>2 DEF AddEntry
  <1> QED BY <1>1, <1>2, <1>3

ListsTo(load, parent, directory, entries, n, upTo) ==
  upTo = [i \in 0 .. n |-> IF i = 0 THEN NoProjects
                           ELSE AddEntry(load, parent, directory, upTo[i - 1], entries[i])]

LEMMA ListsExist ==
  ASSUME NEW load, NEW parent, NEW directory, NEW entries, NEW n \in Nat
  PROVE  \E upTo : ListsTo(load, parent, directory, entries, n, upTo)
  <1> DEFINE N == {m \in Nat : \E upTo : ListsTo(load, parent, directory, entries, m, upTo)}
  <1>1. 0 \in N
    <2>1. ListsTo(load, parent, directory, entries, 0, [i \in 0 .. 0 |-> NoProjects])
      BY DEF ListsTo
    <2> QED BY <2>1
  <1>2. ASSUME NEW m \in N PROVE m + 1 \in N
    <2>1. PICK upTo : ListsTo(load, parent, directory, entries, m, upTo)
      OBVIOUS
    <2> DEFINE next == [i \in 0 .. m + 1 |->
                          IF i = 0 THEN NoProjects
                          ELSE AddEntry(load, parent, directory, upTo[i - 1], entries[i])]
    <2>2. \A i \in 0 .. m : next[i] = upTo[i]
      BY <2>1 DEF ListsTo
    <2>3. \A i \in 0 .. m + 1 : i # 0 => i - 1 \in 0 .. m
      OBVIOUS
    <2>4. ListsTo(load, parent, directory, entries, m + 1, next)
      BY <2>2, <2>3 DEF ListsTo
    <2> QED BY <2>4
  <1> HIDE DEF N
  <1>3. N = Nat
    BY <1>1, <1>2, NumbersFrom0 DEF N
  <1> QED BY <1>3 DEF N

\* Every project of a list is one that was loaded, unless there is an error.
LEMMA ListIsGood ==
  ASSUME NEW load, GoodLoad(load), NEW parent \in Paths, NEW directory \in Paths,
         NEW entries \in Seq(Entries(given.tree))
  PROVE  GoodSoFar(LoadAll(load, entries, parent, directory))
  <1> DEFINE all == CHOOSE u : ListsTo(load, parent, directory, entries, Len(entries), u)
  <1>1. Len(entries) \in Nat /\ \A i \in 1 .. Len(entries) : entries[i] \in Entries(given.tree)
    OBVIOUS
  <1>2. ListsTo(load, parent, directory, entries, Len(entries), all)
    BY <1>1, ListsExist
  <1>3. LoadAll(load, entries, parent, directory) = all[Len(entries)]
    BY DEF LoadAll, ListsTo
  <1> HIDE DEF all
  <1> DEFINE N == {m \in Nat : m <= Len(entries) => GoodSoFar(all[m])}
  <1>4. 0 \in N
    <2>1. all[0] = NoProjects
      BY <1>1, <1>2 DEF ListsTo
    <2> QED BY <2>1, NoneIsMade DEF NoProjects, GoodSoFar
  <1>5. ASSUME NEW m \in N PROVE m + 1 \in N
    <2> SUFFICES ASSUME m + 1 <= Len(entries) PROVE GoodSoFar(all[m + 1])
      OBVIOUS
    <2>1. all[m + 1] = AddEntry(load, parent, directory, all[m], entries[m + 1])
      BY <1>1, <1>2 DEF ListsTo
    <2>2. GoodSoFar(all[m]) /\ entries[m + 1] \in Entries(given.tree)
      BY <1>1
    <2> QED BY <2>1, <2>2, EntryKeepsGood
  <1> HIDE DEF N
  <1>6. N = Nat
    BY <1>4, <1>5, NumbersFrom0 DEF N
  <1> QED BY <1>1, <1>3, <1>6 DEF N
-----------------------------------------------------------------------------
\* One load, and those it leads to.

LEMMA RootIsPath ==
  ASSUME NEW where \in Anchors, NEW parent \in Paths, NEW relative \in Paths
  PROVE  RootOf(where, parent, relative) \in Paths
  BY ResolvedIsPath DEF RootOf, Anchors

LEMMA NormalizeIsGood ==
  ASSUME IsTree(given.tree), NEW load, GoodLoad(load), NEW raw, IsRaw(raw, given.tree),
         NEW parent \in Paths, NEW relative \in Paths, NEW directory \in Paths
  PROVE  Loads(Normalize(load, raw, parent, relative, directory))
  <1> DEFINE root == RootOf(Option(raw, "rootDir", [anchor |-> "none"]), parent, relative)
             preset == IF "preset" \in DOMAIN raw THEN given.tree.presets[raw.preset] ELSE <<>>
             sum == Merge(preset, raw)
             roots == {Resolve(root, r) : r \in Option(sum, "roots", {<<>>})}
             project == Project(sum, root, roots, raw, preset)
             all == LoadAll(load, Option(sum, "projects", <<>>), parent, directory)
  <1>1. CASE root \notin given.tree.directories
    BY <1>1 DEF Normalize, Loads, Error
  <1>2. CASE root \in given.tree.directories
             /\ "preset" \in DOMAIN raw /\ raw.preset \notin DOMAIN given.tree.presets
    BY <1>2 DEF Normalize, Loads, Error
  <1>3. CASE /\ root \in given.tree.directories
             /\ ~("preset" \in DOMAIN raw /\ raw.preset \notin DOMAIN given.tree.presets)
    <2>1. IsRaw(preset, given.tree)
      BY <1>3, NothingIsRaw DEF IsTree
    <2>2. MergesTo(sum, preset, raw)
      BY MergeMerges
    <2> HIDE DEF preset, sum, root, roots
    <2>3. GoodSoFar(all)
      BY <2>1, <2>2, RawMerges, ListIsGood
    <2>4. project.error = "none" /\ Made(project)
      BY <2>1, <2>2, ProjectIsMade
    <2> HIDE DEF all, project
    <2>5. Loads(Complete(project, sum, all))
      <3>1. CASE all.error # "none"
        BY <3>1 DEF Complete, Loads, Error
      <3>2. CASE all.error = "none" /\ ErrorAfter(sum, project.roots) # "none"
        BY <3>2 DEF Complete, Loads, Error
      <3>3. CASE all.error = "none" /\ ErrorAfter(sum, project.roots) = "none"
        BY <2>3, <2>4, <3>3, MadeWithProjects DEF Complete, GoodSoFar
      <3> QED BY <3>1, <3>2, <3>3
    <2>6. Loads(NormalizeIn(load, root, raw, preset, sum, parent, directory))
      BY <2>5 DEF NormalizeIn, Loads, Error, project, all, roots
    <2> QED BY <1>3, <2>6 DEF Normalize, root, preset, sum
  <1> QED BY <1>1, <1>2, <1>3

LEMMA PartIsRaw ==
  ASSUME NEW raw, NEW tree, IsRaw(raw, tree), NEW some \in SUBSET DOMAIN raw
  PROVE  IsRaw([o \in some |-> raw[o]], tree)
  <1> DEFINE part == [o \in some |-> raw[o]]
  <1>1. \A o, default : Option(part, o, default) \in {Option(raw, o, default), default}
    BY DEF Option
  <1>2. /\ [anchor |-> "none"] \in Anchors /\ <<>> \in Seq(Entries(tree))
        /\ 1 \in Int /\ <<>> \in Seq(STRING)
    BY DEF Anchors
  <1>3. AreThresholds(<<>>)
    BY NothingIsRaw DEF IsRaw, Option
  <1> HIDE DEF part
  <1> QED BY <1>1, <1>2, <1>3 DEF IsRaw, part

LEMMA FileIsGood ==
  ASSUME IsTree(given.tree), NEW load, GoodLoad(load), NEW directory \in Paths,
         NEW expand \in BOOLEAN, NEW found, found.error = "none" => found.path \in Paths
  PROVE  Loads(LoadFound(load, found, directory, expand))
  <1> DEFINE home == Front(found.path)
             content == Content(found.path)
             part == DOMAIN content.raw \ (IF expand THEN {} ELSE {"projects"})
  <1>1. CASE found.error # "none"
    BY <1>1 DEF LoadFound, Loads
  <1>2. CASE found.error = "none" /\ (~IsConfigPath(found.path) \/ found.path \notin ConfigFiles)
    BY <1>2 DEF LoadFound, Loads, Error
  <1>3. CASE found.error = "none" /\ IsConfigPath(found.path) /\ found.path \in ConfigFiles
    <2>1. IsContent(content, given.tree) /\ home \in Paths
      BY <1>3, FrontIsPath DEF IsTree, ConfigFiles, Content
    <2>2. CASE content.is = "broken"
      BY <1>3, <2>2 DEF LoadFound, Loads, Error
    <2>3. CASE content.is = "nothing"
      <3>1. LoadFound(load, found, directory, expand) = Project(<<>>, home, {home}, <<>>, <<>>)
        BY <1>3, <2>3 DEF LoadFound
      <3>2. /\ Made(Project(<<>>, home, {home}, <<>>, <<>>))
            /\ Project(<<>>, home, {home}, <<>>, <<>>).projects = <<>>
        BY NothingMerges, NothingIsRaw, ProjectIsMade
      <3> QED BY <3>1, <3>2, NoneIsMade DEF Loads
    <2>4. CASE content.is = "reference"
      <3>1. Resolve(home, content.to) \in Paths
        BY <2>1, <2>4, ResolvedIsPath DEF IsContent
      <3>2. OfFile(directory, Resolve(home, content.to), expand) \in Requests
        BY <3>1 DEF OfFile, Requests
      <3> QED BY <1>3, <2>4, <3>2 DEF LoadFound, GoodLoad
    <2>5. CASE content.is = "object"
      <3>1. IsRaw(content.raw, given.tree)
        BY <2>1, <2>5 DEF IsContent
      <3>2. IsRaw([o \in part |-> content.raw[o]], given.tree)
        BY <3>1, PartIsRaw
      <3>3. LoadFound(load, found, directory, expand) =
              Normalize(load, [o \in part |-> content.raw[o]], home, home, directory)
        BY <1>3, <2>5 DEF LoadFound
      <3> HIDE DEF home, content, part
      <3> QED BY <2>1, <3>2, <3>3, NormalizeIsGood
    <2> QED BY <2>1, <2>2, <2>3, <2>4, <2>5 DEF IsContent
  <1> QED BY <1>1, <1>2, <1>3

LEMMA OneIsGood ==
  ASSUME IsTree(given.tree), NEW load, GoodLoad(load), NEW request \in Requests
  PROVE  Loads(LoadOne(load, request))
  <1>1. CASE request.is = "inline"
    <2>1. /\ request.parent \in Paths /\ request.directory \in Paths
          /\ request.name \in DOMAIN given.tree.inline
      BY <1>1 DEF Requests
    <2>2. IsRaw(given.tree.inline[request.name], given.tree)
      BY <2>1 DEF IsTree
    <2> QED BY <1>1, <2>1, <2>2, NormalizeIsGood DEF LoadOne
  <1>2. CASE request.is # "inline"
    <2>1. request.directory \in Paths /\ request.path \in Paths /\ request.expand \in BOOLEAN
      BY <1>2 DEF Requests
    <2> DEFINE found == IF request.path = <<>> THEN FindConfig(request.directory)
                        ELSE [error |-> "none", path |-> request.path]
    <2>2. found.error = "none" => found.path \in Paths
      BY <2>1, FoundIsPath
    <2> HIDE DEF found
    <2>3. Loads(LoadFound(load, found, request.directory, request.expand))
      BY <2>1, <2>2, FileIsGood
    <2> QED BY <1>2, <2>3 DEF LoadOne, found
  <1> QED BY <1>1, <1>2

Level(below, left) ==
  [request \in Requests |->
     IF left = 0 THEN Error("StackOverflow") ELSE LoadOne(below, request)]

LevelsTo(n, level) ==
  level = [left \in 0 .. n |-> Level(level[left - 1], left)]

LEMMA LevelsExist ==
  ASSUME NEW n \in Nat
  PROVE  \E level : LevelsTo(n, level)
  <1> DEFINE N == {m \in Nat : \E level : LevelsTo(m, level)}
  <1>1. 0 \in N
    <2>1. \A below : Level(below, 0) = Level(<<>>, 0)
      BY DEF Level
    <2>2. LevelsTo(0, [i \in 0 .. 0 |-> Level(<<>>, 0)])
      BY <2>1 DEF LevelsTo
    <2> QED BY <2>2
  <1>2. ASSUME NEW m \in N PROVE m + 1 \in N
    <2>1. PICK level : LevelsTo(m, level)
      OBVIOUS
    <2> DEFINE next == [left \in 0 .. m + 1 |-> Level(level[left - 1], left)]
    <2>2. \A i \in 0 .. m : next[i] = level[i]
      BY <2>1 DEF LevelsTo
    <2>3. \A i \in 0 .. m + 1 : i # 0 => i - 1 \in 0 .. m
      OBVIOUS
    <2>4. \A one, other : Level(one, 0) = Level(other, 0)
      BY DEF Level
    <2>5. \A i \in 0 .. m + 1 : Level(level[i - 1], i) = Level(next[i - 1], i)
      BY <2>2, <2>3, <2>4
    <2>6. LevelsTo(m + 1, next)
      BY <2>5 DEF LevelsTo
    <2> QED BY <2>6
  <1> HIDE DEF N
  <1>3. N = Nat
    BY <1>1, <1>2, NumbersFrom0 DEF N
  <1> QED BY <1>3 DEF N

\* Whatever files lead to each other: a load is an error or a project that is
\* made of its description, its preset and the defaults.
LEMMA InternalIsGood == IsTree(given.tree) => GoodLoad(LoadInternal[MaxLoads])
  <1> SUFFICES ASSUME IsTree(given.tree) PROVE GoodLoad(LoadInternal[MaxLoads])
    OBVIOUS
  <1> DEFINE level == CHOOSE l : LevelsTo(MaxLoads, l)
  <1>1. MaxLoads \in Nat
    BY ConfigurationAssumption
  <1>2. LevelsTo(MaxLoads, level)
    BY <1>1, LevelsExist
  <1>3. LoadInternal = level
    BY DEF LoadInternal, LevelsTo, Level
  <1> HIDE DEF level
  <1> DEFINE N == {m \in Nat : m <= MaxLoads => GoodLoad(level[m])}
  <1>4. 0 \in N
    <2>1. \A request \in Requests : level[0][request] = Error("StackOverflow")
      BY <1>1, <1>2 DEF LevelsTo, Level
    <2> QED BY <2>1 DEF GoodLoad, Loads, Error
  <1>5. ASSUME NEW m \in N PROVE m + 1 \in N
    <2> SUFFICES ASSUME m + 1 <= MaxLoads PROVE GoodLoad(level[m + 1])
      OBVIOUS
    <2>1. \A request \in Requests : level[m + 1][request] = LoadOne(level[m], request)
      BY <1>1, <1>2 DEF LevelsTo, Level
    <2>2. GoodLoad(level[m])
      BY <1>1
    <2> QED BY <2>1, <2>2, OneIsGood DEF GoodLoad
  <1> HIDE DEF N
  <1>6. N = Nat
    BY <1>4, <1>5, NumbersFrom0 DEF N
  <1> QED BY <1>1, <1>3, <1>6 DEF N
-----------------------------------------------------------------------------
\* The configuration of an invocation.

LEMMA ConfigLoads ==
  ASSUME IsScenario(given)
  PROVE  Loads(LoadConfig(cli.config))
  <1> DEFINE config0 == cli.config
             request == CASE config0.is = "inline" -> OfObject(config0.name, given.dir, given.dir)
                          [] config0.is = "path" ->
                               OfFile(given.dir, Resolve(given.dir, config0.path), TRUE)
                          [] config0.is = "none" -> OfFile(given.dir, <<>>, TRUE)
  <1>1. /\ IsTree(given.tree) /\ given.dir \in Paths
        /\ config0 \in [is : {"none"}] \cup [is : {"path"}, path : Paths]
                         \cup [is : {"inline"}, name : DOMAIN given.tree.inline]
    BY DEF IsScenario, cli
  <1>2. request \in Requests
    <2>1. CASE config0.is = "none"
      <3>1. OfFile(given.dir, <<>>, TRUE) \in Requests
        BY <1>1 DEF OfFile, Requests, Paths
      <3> QED BY <2>1, <3>1
    <2>2. CASE config0.is = "path"
      <3>1. Resolve(given.dir, config0.path) \in Paths
        BY <1>1, <2>2, ResolvedIsPath
      <3>2. OfFile(given.dir, Resolve(given.dir, config0.path), TRUE) \in Requests
        BY <1>1, <3>1 DEF OfFile, Requests
      <3> QED BY <2>2, <3>2
    <2>3. CASE config0.is = "inline"
      <3>1. OfObject(config0.name, given.dir, given.dir) \in Requests
        BY <1>1, <2>3 DEF OfObject, Requests
      <3> QED BY <2>3, <3>1
    <2> QED BY <1>1, <2>1, <2>2, <2>3
  <1>3. LoadConfig(cli.config) = LoadInternal[MaxLoads][request]
    BY DEF LoadConfig
  <1> HIDE DEF request
  <1> QED BY <1>1, <1>2, <1>3, InternalIsGood DEF GoodLoad

LEMMA PathLoads ==
  ASSUME IsTree(given.tree), NEW path \in Paths
  PROVE  Loads(LoadPath(path, ConfigOf(path)))
  <1>1. CASE ConfigOf(path).error # "none"
    BY <1>1 DEF LoadPath, Loads
  <1>2. CASE ConfigOf(path).error = "none"
    <2>1. OfFile(DirectoryOf(path), ConfigOf(path).path, TRUE) \in Requests
      BY <1>2, ConfigIsPath, DirectoryIsPath DEF OfFile, Requests
    <2> QED BY <1>2, <2>1, InternalIsGood DEF LoadPath, GoodLoad
  <1> QED BY <1>1, <1>2

LEMMA SeveralLoad ==
  ASSUME NEW all, GoodSoFar(all)
  PROVE  Loads(Several(all))
  <1>1. CASE all.error # "none" \/ all.list = <<>>
    BY <1>1 DEF Several, Loads, Error
  <1>2. CASE all.error = "none" /\ all.list # <<>>
    <2>1. MadeList(all.list)
      BY <1>2 DEF GoodSoFar
    <2>2. PICK some : MadeIn(all.list, some)
      BY <2>1 DEF MadeList
    <2>3. Made(all.list[1])
      <3>1. all.list[1] \in some
        BY <1>2, <2>2 DEF MadeIn
      <3> QED BY <2>2, <3>1 DEF MadeIn
    <2>4. Several(all) = [all.list[1] EXCEPT !.projects = all.list]
      BY <1>2 DEF Several
    <2>5. CASE all.list[1].error = "none"
      BY <2>1, <2>3, <2>4, <2>5, MadeWithProjects
    <2>6. CASE all.list[1].error # "none"
      BY <2>3, <2>4, <2>6 DEF Made, Fields, Loads
    <2> QED BY <2>5, <2>6
  <1> QED BY <1>1, <1>2

LEMMA PathsLoad ==
  ASSUME IsScenario(given)
  PROVE  Loads(LoadPaths(cli.projects))
  <1> DEFINE paths == cli.projects
             entries == [i \in DOMAIN paths |-> [is |-> "path", path |-> Resolve(given.dir, paths[i])]]
  <1>1. IsTree(given.tree) /\ given.dir \in Paths /\ paths \in Seq(Paths)
    BY DEF IsScenario, cli
  <1>2. \A i \in DOMAIN paths : paths[i] \in Paths
    BY <1>1
  <1>3. \A i \in DOMAIN paths : entries[i].path \in Paths /\ entries[i] \in Entries(given.tree)
    BY <1>1, <1>2, ResolvedIsPath DEF Entries
  <1>4. entries \in Seq(Entries(given.tree))
    <2>1. DOMAIN paths = 1 .. Len(paths) /\ Len(paths) \in Nat
      BY <1>1
    <2>2. entries \in [1 .. Len(paths) -> Entries(given.tree)]
      BY <1>3, <2>1
    <2> HIDE DEF entries
    <2> QED BY <2>1, <2>2
  <1>5. CASE Len(paths) = 1
    <2>1. 1 \in DOMAIN paths
      BY <1>1, <1>5
    <2> QED BY <1>1, <1>3, <1>5, <2>1, PathLoads DEF LoadPaths
  <1>6. CASE Len(paths) # 1
    <2>1. GoodSoFar(LoadAll(LoadInternal[MaxLoads], entries, given.dir, given.dir))
      BY <1>1, <1>4, InternalIsGood, ListIsGood
    <2> QED BY <1>6, <2>1, SeveralLoad DEF LoadPaths
  <1> QED BY <1>5, <1>6

LEMMA ReplacedLoads ==
  ASSUME NEW run, Loads(run), NEW chosen0, Loads(chosen0)
  PROVE  Loads(Replaced(run, chosen0))
  <1>1. CASE chosen0.error # "none" \/ run.error # "none"
    BY <1>1 DEF Replaced, Loads
  <1>2. CASE chosen0.error = "none" /\ run.error = "none"
    <2> DEFINE list == IF chosen0.projects = <<>> THEN <<chosen0>> ELSE chosen0.projects
    <2>1. MadeList(<<chosen0>>)
      <3>1. Made(chosen0) /\ MadeList(Append(<<>>, chosen0))
        BY <1>2, NoneIsMade, OneMoreIsMade DEF Loads
      <3>2. Append(<<>>, chosen0) = <<chosen0>>
        OBVIOUS
      <3> QED BY <3>1, <3>2
    <2>2. MadeList(list)
      BY <1>2, <2>1 DEF Loads
    <2>3. Replaced(run, chosen0) = [run EXCEPT !.projects = list]
      BY <1>2 DEF Replaced
    <2>4. Made(run)
      BY <1>2 DEF Loads
    <2> HIDE DEF list
    <2> QED BY <1>2, <2>2, <2>3, <2>4, MadeWithProjects
  <1> QED BY <1>1, <1>2

LEMMA ExecutionLoads ==
  ASSUME IsScenario(given)
  PROVE  Loads(LoadExecution)
  BY ConfigLoads, PathsLoad, ReplacedLoads DEF LoadExecution, cli

\* What the command line does to a project that was loaded.
LEMMA ToldPrevails ==
  ASSUME NEW c, Made(c), NEW d, NEW heard,
         heard \subseteq DOMAIN cli.options,
         d.from = c.from,
         d.match = {} \/ d.regex = {},
         {"testMatch", "testRegex"} \cap DOMAIN cli.options = {} =>
           d.match = c.match /\ d.regex = c.regex,
         {"testMatch", "testRegex"} \cap DOMAIN cli.options \subseteq heard,
         cli.all => ~d.options.onlyChanged,
         \A o \in Options \ {"onlyChanged", "cacheDirectory"} :
           d.options[o] = IF o \in heard THEN cli.options[o] ELSE c.options[o]
  PROVE  Prevails(d, heard)
  <1>1. \A o \in Options \ {"cacheDirectory"} : Inherits(c, o)
    BY DEF Made
  <1>2. /\ Lists \subseteq Options \ {"onlyChanged", "cacheDirectory"}
        /\ Maps \subseteq Options \ {"onlyChanged", "cacheDirectory"}
        /\ Lists \cap Maps = {}
    BY OptionNames
  <1>3. {"testMatch", "testRegex"} \cap heard = {} =>
          /\ d.regex = Option(d.from.local, "testRegex", Option(d.from.preset, "testRegex", {}))
          /\ d.match = IF "testRegex" \in DOMAIN d.from.local \cup DOMAIN d.from.preset THEN {}
                       ELSE Option(d.from.local, "testMatch",
                                   Option(d.from.preset, "testMatch", DefaultMatch))
    BY DEF Made, Said
  <1>4. \A o \in Lists \ heard :
          d.options[o] = Option(d.from.preset, o, <<>>) \o Option(d.from.local, o, <<>>)
    <2> SUFFICES ASSUME NEW o \in Lists \ heard
                 PROVE  d.options[o] = Option(d.from.preset, o, <<>>) \o Option(d.from.local, o, <<>>)
      OBVIOUS
    <2>1. Inherits(c, o) /\ d.options[o] = c.options[o] /\ o \notin Maps
      BY <1>1, <1>2
    <2> QED BY <2>1 DEF Inherits
  <1>5. \A o \in Maps \ heard :
          /\ DOMAIN d.options[o] =
               DOMAIN Option(d.from.preset, o, <<>>) \cup DOMAIN Option(d.from.local, o, <<>>)
          /\ \A key \in DOMAIN d.options[o] :
               d.options[o][key] = Option(Option(d.from.local, o, <<>>), key,
                                          Option(Option(d.from.preset, o, <<>>), key, "none"))
    <2> SUFFICES ASSUME NEW o \in Maps \ heard
                 PROVE  /\ DOMAIN d.options[o] = DOMAIN Option(d.from.preset, o, <<>>)
                                                   \cup DOMAIN Option(d.from.local, o, <<>>)
                        /\ \A key \in DOMAIN d.options[o] :
                             d.options[o][key] =
                               Option(Option(d.from.local, o, <<>>), key,
                                      Option(Option(d.from.preset, o, <<>>), key, "none"))
      OBVIOUS
    <2>1. Inherits(c, o) /\ d.options[o] = c.options[o] /\ o \notin Lists
      BY <1>1, <1>2
    <2> QED BY <2>1 DEF Inherits
  <1>6. \A o \in Options \ (heard \cup Lists \cup Maps \cup {"onlyChanged", "cacheDirectory"}) :
          d.options[o] = Option(d.from.local, o, Option(d.from.preset, o, Defaults[o]))
    <2> SUFFICES ASSUME NEW o \in Options \ (heard \cup Lists \cup Maps
                                               \cup {"onlyChanged", "cacheDirectory"})
                 PROVE  d.options[o] = Option(d.from.local, o, Option(d.from.preset, o, Defaults[o]))
      OBVIOUS
    <2>1. Inherits(c, o) /\ d.options[o] = c.options[o]
      BY <1>1
    <2> QED BY <2>1 DEF Inherits, Said
  <1> QED BY <1>3, <1>4, <1>5, <1>6 DEF Prevails

LEMMA EverywhereOptions ==
  ASSUME NEW c, Made(c)
  PROVE  LET d == Everywhere(c, cli) IN
         /\ DOMAIN d = Fields /\ DOMAIN d.options = Options
         /\ d.from = c.from /\ d.projects = c.projects /\ d.error = c.error
         /\ {"testMatch", "testRegex"} \cap DOMAIN cli.options = {} =>
              d.match = c.match /\ d.regex = c.regex
         /\ cli.all => ~d.options.onlyChanged
         /\ \A o \in Options \ {"onlyChanged", "cacheDirectory"} :
              d.options[o] = IF o \in DOMAIN cli.options \ OfRun THEN cli.options[o]
                             ELSE c.options[o]
  <1> DEFINE e == Overridden(c, cli.options)
             d == Everywhere(c, cli)
  <1>1. /\ DOMAIN e = Fields /\ DOMAIN e.options = Options
        /\ e.from = c.from /\ e.projects = c.projects /\ e.error = c.error
        /\ {"testMatch", "testRegex"} \cap DOMAIN cli.options = {} =>
             e.match = c.match /\ e.regex = c.regex
        /\ \A o \in Options \ {"onlyChanged", "cacheDirectory"} :
             e.options[o] = IF o \in DOMAIN cli.options \ OfRun THEN cli.options[o]
                            ELSE c.options[o]
    BY DEF Made, Fields, Overridden, Option
  <1>2. "onlyChanged" \in Options
    BY OptionNames
  <1> HIDE DEF e
  <1>3. d = Selected(e, cli)
    BY DEF Everywhere, e
  <1> HIDE DEF d
  <1>4. /\ DOMAIN d = Fields /\ DOMAIN d.options = Options
        /\ d.from = e.from /\ d.projects = e.projects /\ d.error = e.error
        /\ d.match = e.match /\ d.regex = e.regex
        /\ cli.all => ~d.options.onlyChanged
        /\ \A o \in Options \ {"onlyChanged"} : d.options[o] = e.options[o]
    BY <1>1, <1>2, <1>3 DEF Selected, Fields
  <1> QED BY <1>1, <1>4 DEF d

\* The run and its projects, behind the command line.
LEMMA FinalPrevails ==
  ASSUME NEW loaded, Loads(loaded), Final(loaded).error = "none"
  PROVE  /\ Prevails(Final(loaded), DOMAIN cli.options)
         /\ \A n \in DOMAIN Final(loaded).projects :
              Prevails(Final(loaded).projects[n], DOMAIN cli.options \ OfRun)
         /\ \E some : Final(loaded).projects \in Seq(some)
         /\ Option(cli.options, "testFailureExitCode", 1) \in Int =>
              Final(loaded).options.testFailureExitCode \in Int
         /\ AreThresholds(Option(cli.options, "coverageThreshold", <<>>)) =>
              AreThresholds(Final(loaded).options.coverageThreshold)
         /\ DOMAIN Final(loaded).options = Options
  <1> DEFINE c == Override(loaded, cli)
             run == Everywhere(loaded, cli)
  <1>1. loaded.error = "none" /\ Final(loaded) = c /\ Exclusive(c)
    BY DEF Final, Error, cli
  <1>2. Made(loaded) /\ MadeList(loaded.projects)
    BY <1>1 DEF Loads
  <1>3. /\ DOMAIN run = Fields /\ DOMAIN run.options = Options
        /\ run.from = loaded.from /\ run.projects = loaded.projects /\ run.error = loaded.error
        /\ {"testMatch", "testRegex"} \cap DOMAIN cli.options = {} =>
             run.match = loaded.match /\ run.regex = loaded.regex
        /\ cli.all => ~run.options.onlyChanged
        /\ \A o \in Options \ {"onlyChanged", "cacheDirectory"} :
             run.options[o] = IF o \in DOMAIN cli.options \ OfRun THEN cli.options[o]
                              ELSE loaded.options[o]
    BY <1>2, EverywhereOptions
  <1> HIDE DEF run
  <1>4. OfRun \subseteq Options \ {"onlyChanged", "cacheDirectory"} /\ "onlyChanged" \notin OfRun
        /\ "testFailureExitCode" \in OfRun /\ "coverageThreshold" \in Options
        /\ "coverageThreshold" \notin {"onlyChanged", "cacheDirectory"}
    BY DEF OfRun, Options, Defaults
  <1>5. c = [run EXCEPT
               !.options = [o \in Options |-> IF o \in OfRun THEN Option(cli.options, o, @[o]) ELSE @[o]],
               !.projects = [i \in DOMAIN @ |-> Everywhere(@[i], cli)]]
    BY DEF Override, run
  <1> HIDE DEF c
  <1>6. /\ c.from = loaded.from /\ c.match = run.match /\ c.regex = run.regex
        /\ c.options = [o \in Options |-> IF o \in OfRun THEN Option(cli.options, o, run.options[o])
                                          ELSE run.options[o]]
        /\ c.projects = [i \in DOMAIN loaded.projects |-> Everywhere(loaded.projects[i], cli)]
    BY <1>3, <1>5 DEF Fields
  <1>7. \A o \in Options \ {"onlyChanged", "cacheDirectory"} :
          c.options[o] = IF o \in DOMAIN cli.options THEN cli.options[o] ELSE loaded.options[o]
    BY <1>3, <1>4, <1>6 DEF Option
  <1>8. cli.all => ~c.options.onlyChanged
    BY <1>3, <1>4, <1>6, OptionNames
  <1>9. PICK some : MadeIn(loaded.projects, some)
    BY <1>2 DEF MadeList
  <1>10. /\ DOMAIN c.projects = 1 .. Len(loaded.projects) /\ Len(loaded.projects) \in Nat
         /\ \A n \in DOMAIN c.projects : Made(loaded.projects[n])
    BY <1>6, <1>9 DEF MadeIn
  <1>11. c.projects \in Seq({c.projects[n] : n \in DOMAIN c.projects})
    <2>1. c.projects \in [1 .. Len(loaded.projects) -> {c.projects[n] : n \in DOMAIN c.projects}]
      BY <1>6, <1>10
    <2> QED BY <1>10, <2>1
  <1>12. \A p \in {c} \cup ToSet(c.projects) : p.match = {} \/ p.regex = {}
    BY <1>1 DEF Exclusive
  <1>13. Prevails(c, DOMAIN cli.options)
    BY <1>2, <1>3, <1>6, <1>7, <1>8, <1>12, ToldPrevails
  <1>14. \A n \in DOMAIN c.projects : Prevails(c.projects[n], DOMAIN cli.options \ OfRun)
    <2> SUFFICES ASSUME NEW n \in DOMAIN c.projects
                 PROVE  Prevails(c.projects[n], DOMAIN cli.options \ OfRun)
      OBVIOUS
    <2>1. Made(loaded.projects[n]) /\ c.projects[n] = Everywhere(loaded.projects[n], cli)
      BY <1>6, <1>10
    <2>2. c.projects[n].match = {} \/ c.projects[n].regex = {}
      BY <1>12 DEF ToSet
    <2>3. {"testMatch", "testRegex"} \cap OfRun = {}
      BY DEF OfRun
    <2> QED BY <2>1, <2>2, <2>3, EverywhereOptions, ToldPrevails
  <1>15. Option(cli.options, "testFailureExitCode", 1) \in Int => c.options.testFailureExitCode \in Int
    BY <1>2, <1>4, <1>7 DEF Made, Option
  <1>16. AreThresholds(Option(cli.options, "coverageThreshold", <<>>)) =>
           AreThresholds(c.options.coverageThreshold)
    BY <1>2, <1>4, <1>7 DEF Made, Option
  <1> QED BY <1>1, <1>6, <1>11, <1>13, <1>14, <1>15, <1>16
-----------------------------------------------------------------------------
\* What is found and chosen depends on what was given and loaded.

\* The files below the roots of the selected projects.
Mine == {f \in Files : \E i \in Contexts : BelowRoots(f, i)}

\* The modules of a project and what they import.
GraphOf(i) ==
  BuildGraph({f \in Present : \E r \in Roots(i) : Below(f, r)} \cap given.modules,
             given.imports, given.ignored, Present)

LEMMA ConfigStays ==
  ASSUME given' = given, config' = config
  PROVE  /\ Contexts' = Contexts /\ Executed(config)' = Executed(config)
         /\ Present' = Present /\ Mine' = Mine /\ Queries' = Queries
         /\ ChangedSelection' = ChangedSelection /\ FindRelated' = FindRelated
         /\ Narrowed' = Narrowed
         /\ \A i : /\ Roots(i)' = Roots(i) /\ Candidates(i)' = Candidates(i)
                   /\ GraphOf(i)' = GraphOf(i)
         /\ \A i, f : BelowRoots(f, i)' = BelowRoots(f, i)
  <1>1. Executed(config)' = Executed(config)
    BY DEF Executed
  <1>2. Contexts' = Contexts
    BY <1>1 DEF Contexts, Chosen
  <1>3. \A i : Roots(i)' = Roots(i)
    BY <1>1 DEF Roots
  <1>4. \A i, f : BelowRoots(f, i)' = BelowRoots(f, i)
    BY <1>3 DEF BelowRoots
  <1>5. Present' = Present /\ FindRelated' = FindRelated /\ Queries' = Queries
        /\ (ChangedSelection' = ChangedSelection)
    BY DEF Present, FindRelated, Queries, ChangedSelection
  <1>6. Narrowed' = Narrowed
    BY <1>5 DEF Narrowed
  <1>7. Mine' = Mine
    BY <1>2, <1>4 DEF Mine
  <1>8. \A i : Candidates(i)' = Candidates(i)
    BY <1>1, <1>5 DEF Candidates
  <1>9. \A i : GraphOf(i)' = GraphOf(i)
    BY <1>3, <1>5 DEF GraphOf
  <1> QED BY <1>1, <1>2, <1>3, <1>4, <1>5, <1>6, <1>7, <1>8, <1>9

LEMMA ChoiceStays ==
  ASSUME given' = given, config' = config, changed' = changed, NEW i
  PROVE  Wanted(i)' = Wanted(i) /\ AffectedTests(i)' = AffectedTests(i)
  <1>1. Wanted(i)' = Wanted(i)
    BY ConfigStays DEF Wanted
  <1>2. Candidates(i)' = Candidates(i) /\ Roots(i)' = Roots(i) /\ Present' = Present
    BY ConfigStays
  <1>3. AffectedTests(i)' = AffectedTests(i)
    BY <1>1, <1>2 DEF AffectedTests
  <1> QED BY <1>1, <1>3

LEMMA UnitsStay ==
  ASSUME given' = given, config' = config, chosen' = chosen
  PROVE  Units' = Units /\ \A i : TestsOf(i)' = TestsOf(i)
  <1>1. \A i : TestsOf(i)' = TestsOf(i)
    BY ConfigStays DEF TestsOf
  <1> QED BY <1>1, ConfigStays DEF Units

LEMMA PresentAreFiles == Present \subseteq Files
  BY DEF Present

\* Discovery finds files that are there.
LEMMA DiscoverFinds ==
  ASSUME NEW p, NEW inputs, NEW exact, NEW present, NEW directories
  PROVE  LET d == Discover(p, inputs, exact, present, directories) IN
         DOMAIN d = {"error", "tests"} /\ d.tests \subseteq present
  BY DEF Discover, Walk, Found, NotFound

LEMMA CandidatesAreFiles ==
  ASSUME NEW i
  PROVE  DOMAIN Candidates(i) = {"error", "tests"} /\ Candidates(i).tests \subseteq Files
  BY DiscoverFinds, PresentAreFiles DEF Candidates

LEMMA TestsAreChosen ==
  ASSUME NEW i
  PROVE  TestsOf(i).tests = IF Narrowed THEN Candidates(i).tests \cap chosen[i]
                            ELSE Candidates(i).tests
  BY CandidatesAreFiles DEF TestsOf
-----------------------------------------------------------------------------
\* Coverage. A map of records holds what some of the maps hold: all their files,
\* the points they agree on, and as hit what one of them has hit.
Joins(map, maps, some) ==
  /\ DOMAIN map = UNION {DOMAIN maps[k] : k \in some}
  /\ \A f \in DOMAIN map :
       /\ \A k \in some : f \in DOMAIN maps[k] => maps[k][f].points = map[f].points
       /\ map[f].hit = UNION {maps[k][f].hit : k \in {j \in some : f \in DOMAIN maps[j]}}

LEMMA AddJoins ==
  ASSUME NEW acc, DOMAIN acc = {"error", "map"}, NEW maps, NEW some, NEW k,
         acc.error = "none" => Joins(acc.map, maps, some)
  PROVE  LET sum == AddCoverage(acc, maps[k]) IN
         /\ DOMAIN sum = {"error", "map"}
         /\ sum.error = "none" => Joins(sum.map, maps, some \cup {k})
  <1> DEFINE sum == AddCoverage(acc, maps[k])
             known == DOMAIN acc.map \cap DOMAIN maps[k]
             all == [f \in DOMAIN acc.map \cup DOMAIN maps[k] |->
                       IF f \in known THEN MergeFile(acc.map[f], maps[k][f])
                       ELSE IF f \in DOMAIN maps[k] THEN maps[k][f] ELSE acc.map[f]]
  <1>1. CASE acc.error # "none"
    <2>1. sum = acc
      BY <1>1 DEF AddCoverage
    <2> QED BY <1>1, <2>1
  <1>2. CASE acc.error = "none" /\ \E f \in known : acc.map[f].points # maps[k][f].points
    <2>1. sum = [acc EXCEPT !.error = "InvalidCoverage"]
      BY <1>2 DEF AddCoverage
    <2> QED BY <2>1
  <1>3. CASE acc.error = "none" /\ \A f \in known : acc.map[f].points = maps[k][f].points
    <2>1. sum = [acc EXCEPT !.map = all]
      BY <1>3 DEF AddCoverage
    <2>2. DOMAIN sum = {"error", "map"} /\ sum.map = all
      BY <2>1
    <2>3. Joins(acc.map, maps, some)
      BY <1>3
    <2>4. DOMAIN all = UNION {DOMAIN maps[j] : j \in some \cup {k}}
      BY <2>3 DEF Joins
    <2>5. ASSUME NEW f \in DOMAIN all
          PROVE  /\ \A j \in some \cup {k} : f \in DOMAIN maps[j] => maps[j][f].points = all[f].points
                 /\ all[f].hit = UNION {maps[j][f].hit :
                                          j \in {i \in some \cup {k} : f \in DOMAIN maps[i]}}
      <3> HIDE DEF sum
      <3>1. CASE f \in known
        <4>1. all[f] = MergeFile(acc.map[f], maps[k][f])
          BY <3>1
        <4>2. /\ all[f].points = acc.map[f].points
              /\ all[f].hit = acc.map[f].hit \cup maps[k][f].hit
          BY <4>1 DEF MergeFile
        <4>3. f \in DOMAIN acc.map /\ f \in DOMAIN maps[k] /\ acc.map[f].points = maps[k][f].points
          BY <1>3, <3>1
        <4> HIDE DEF all, known
        <4>4. /\ \A j \in some : f \in DOMAIN maps[j] => maps[j][f].points = acc.map[f].points
              /\ acc.map[f].hit = UNION {maps[j][f].hit : j \in {i \in some : f \in DOMAIN maps[i]}}
          BY <2>3, <4>3 DEF Joins
        <4> QED BY <4>2, <4>3, <4>4
      <3>2. CASE f \notin known /\ f \in DOMAIN maps[k]
        <4>1. all[f] = maps[k][f] /\ f \notin DOMAIN acc.map
          BY <3>2
        <4> HIDE DEF all, known
        <4>2. \A j \in some : f \notin DOMAIN maps[j]
          BY <2>3, <4>1 DEF Joins
        <4> QED BY <3>2, <4>1, <4>2
      <3>3. CASE f \notin DOMAIN maps[k]
        <4>1. all[f] = acc.map[f] /\ f \in DOMAIN acc.map
          BY <3>3
        <4> HIDE DEF all, known
        <4>2. /\ \A j \in some : f \in DOMAIN maps[j] => maps[j][f].points = acc.map[f].points
              /\ acc.map[f].hit = UNION {maps[j][f].hit : j \in {i \in some : f \in DOMAIN maps[i]}}
          BY <2>3, <4>1 DEF Joins
        <4> QED BY <3>3, <4>1, <4>2
      <3> QED BY <3>1, <3>2, <3>3
    <2> HIDE DEF all
    <2> QED BY <2>2, <2>4, <2>5 DEF Joins
  <1> QED BY <1>1, <1>2, <1>3

MergesUpTo(maps, n, upTo) ==
  upTo = [i \in 0 .. n |-> IF i = 0 THEN [error |-> "none", map |-> NoRecords]
                           ELSE AddCoverage(upTo[i - 1], maps[i])]

LEMMA MergesExist ==
  ASSUME NEW maps, NEW n \in Nat
  PROVE  \E upTo : MergesUpTo(maps, n, upTo)
  <1> DEFINE N == {m \in Nat : \E upTo : MergesUpTo(maps, m, upTo)}
             None == [error |-> "none", map |-> NoRecords]
  <1>1. 0 \in N
    <2>1. MergesUpTo(maps, 0, [i \in 0 .. 0 |-> None])
      BY DEF MergesUpTo
    <2> QED BY <2>1
  <1>2. ASSUME NEW m \in N PROVE m + 1 \in N
    <2>1. PICK upTo : MergesUpTo(maps, m, upTo)
      OBVIOUS
    <2> DEFINE more == [i \in 0 .. m + 1 |-> IF i = 0 THEN None
                                             ELSE AddCoverage(upTo[i - 1], maps[i])]
    <2>2. \A i \in 0 .. m : more[i] = upTo[i]
      BY <2>1 DEF MergesUpTo
    <2>3. \A i \in 0 .. m + 1 : i # 0 => i - 1 \in 0 .. m
      OBVIOUS
    <2>4. MergesUpTo(maps, m + 1, more)
      BY <2>2, <2>3 DEF MergesUpTo
    <2> QED BY <2>4
  <1> HIDE DEF N
  <1>3. N = Nat
    BY <1>1, <1>2, NumbersFrom0 DEF N
  <1> QED BY <1>3 DEF N

\* What merge_coverage_maps returns without an error.
LEMMA MergedJoins ==
  ASSUME NEW n \in Nat, NEW maps, DOMAIN maps = 1 .. n, Len(maps) = n
  PROVE  MergeMaps(maps).error = "none" => Joins(MergeMaps(maps).map, maps, 1 .. n)
  <1> DEFINE all == CHOOSE u : MergesUpTo(maps, n, u)
  <1>1. MergesUpTo(maps, n, all)
    BY MergesExist
  <1>2. MergeMaps(maps) = all[n]
    BY DEF MergeMaps, MergesUpTo
  <1> HIDE DEF all
  <1> DEFINE N == {m \in Nat : m <= n =>
                     /\ DOMAIN all[m] = {"error", "map"}
                     /\ all[m].error = "none" => Joins(all[m].map, maps, 1 .. m)}
  <1>3. 0 \in N
    <2>1. all[0] = [error |-> "none", map |-> NoRecords]
      BY <1>1 DEF MergesUpTo
    <2>2. 1 .. 0 = {} /\ DOMAIN NoRecords = {}
      BY DEF NoRecords
    <2>3. Joins(NoRecords, maps, 1 .. 0)
      BY <2>2 DEF Joins
    <2> QED BY <2>1, <2>3
  <1>4. ASSUME NEW m \in N PROVE m + 1 \in N
    <2> SUFFICES ASSUME m + 1 <= n
                 PROVE  /\ DOMAIN all[m + 1] = {"error", "map"}
                        /\ all[m + 1].error = "none" => Joins(all[m + 1].map, maps, 1 .. m + 1)
      OBVIOUS
    <2>1. all[m + 1] = AddCoverage(all[m], maps[m + 1])
      BY <1>1 DEF MergesUpTo
    <2>2. /\ DOMAIN all[m] = {"error", "map"}
          /\ all[m].error = "none" => Joins(all[m].map, maps, 1 .. m)
      OBVIOUS
    <2>3. (1 .. m) \cup {m + 1} = 1 .. m + 1
      OBVIOUS
    <2> HIDE DEF N
    <2> DEFINE acc == all[m]
               sum == AddCoverage(acc, maps[m + 1])
    <2>4. /\ DOMAIN acc = {"error", "map"}
          /\ acc.error = "none" => Joins(acc.map, maps, 1 .. m)
      BY <2>2
    <2> HIDE DEF acc
    <2>5. /\ DOMAIN sum = {"error", "map"}
          /\ sum.error = "none" => Joins(sum.map, maps, (1 .. m) \cup {m + 1})
      BY <2>4, AddJoins
    <2> QED BY <2>1, <2>3, <2>5 DEF acc
  <1> HIDE DEF N
  <1>5. N = Nat
    BY <1>3, <1>4, NumbersFrom0 DEF N
  <1> QED BY <1>2, <1>5 DEF N

\* The elements of a finite set one after another.
LEMMA ListOfSet ==
  ASSUME NEW S, IsFiniteSet(S)
  PROVE  /\ Cardinality(S) \in Nat
         /\ SetToSeq(S) \in [1 .. Cardinality(S) -> S]
         /\ S = {SetToSeq(S)[n] : n \in 1 .. Cardinality(S)}
  <1> DEFINE c == Cardinality(S)
             list == SetToSeq(S)
  <1>1. c \in Nat /\ ExistsBijection(1 .. c, S)
    BY FS_CardinalityType
  <1>2. \E f \in [1 .. c -> S] : IsInjective(f)
    BY <1>1 DEF ExistsBijection, Bijection, Injection
  <1>3. list \in [1 .. c -> S] /\ IsInjective(list)
    BY <1>2 DEF SetToSeq
  <1> HIDE DEF list
  <1>4. list \in Injection(1 .. c, S)
    BY <1>3 DEF Injection
  <1>5. Cardinality(1 .. c) = c
    BY <1>1, FS_Interval
  <1>6. list \in Surjection(1 .. c, S)
    BY <1>4, <1>5, FS_Injection
  <1>7. \A x \in S : \E n \in 1 .. c : list[n] = x
    BY <1>6 DEF Surjection
  <1> QED BY <1>1, <1>3, <1>7 DEF list
-----------------------------------------------------------------------------
\* A record of a run: its points are finitely many, and what is hit is a point.
IsRecord(r) == IsFiniteSet(r.points) /\ r.hit \subseteq r.points

\* What a metric counts.
Counted(points, m) ==
  IF m = "lines" THEN {p.line : p \in {q \in points : q.counter = "statements"}}
  ELSE {p \in points : p.counter = m}

LEMMA CountedIsFinite ==
  ASSUME NEW points, IsFiniteSet(points), NEW m
  PROVE  IsFiniteSet(Counted(points, m))
  <1> DEFINE some == {q \in points : q.counter = "statements"}
             lineOf == [q \in some |-> q.line]
             lines == {p.line : p \in some}
  <1>1. IsFiniteSet(some) /\ IsFiniteSet({p \in points : p.counter = m})
    BY FS_Subset
  <1>2. lineOf \in Surjection(some, lines)
    BY DEF Surjection
  <1>3. IsFiniteSet(lines)
    BY <1>1, <1>2, FS_Surjection
  <1> QED BY <1>1, <1>3 DEF Counted

LEMMA RecordIsFinite ==
  ASSUME NEW r, IsRecord(r), NEW m
  PROVE  IsFiniteSet(Counted(r.points, m)) /\ IsFiniteSet(Counted(r.hit, m))
  <1>1. IsFiniteSet(r.points) /\ IsFiniteSet(r.hit)
    BY FS_Subset DEF IsRecord
  <1> QED BY <1>1, CountedIsFinite

LEMMA SummaryIs ==
  ASSUME NEW r, NEW m \in Metrics
  PROVE  Summary(r)[m] = [total |-> Cardinality(Counted(r.points, m)),
                          covered |-> Cardinality(Counted(r.hit, m))]
  BY DEF Summary, Counted, Metrics, Counters

\* Sums of sizes over files, as Combined computes them.
TotalOf(all, files, m, which) == MapThenSumSet(LAMBDA f : all[f][m][which], files)

LEMMA TotalIsSize ==
  ASSUME NEW files, IsFiniteSet(files), NEW all, NEW m, NEW which, NEW G,
         \A f \in files : IsFiniteSet(G[f]) /\ all[f][m][which] = Cardinality(G[f])
  PROVE  /\ TotalOf(all, files, m, which) = Cardinality(Pairs(G, files))
         /\ IsFiniteSet(Pairs(G, files))
  <1> DEFINE Adds(h) == h = [q \in SUBSET files |->
                               IF q = {} THEN 0
                               ELSE all[CHOOSE x \in q : TRUE][m][which]
                                      + h[q \ {CHOOSE x \in q : TRUE}]]
             iter == CHOOSE h : Adds(h)
             sizes == [f \in files |-> Cardinality(G[f])]
  <1>1. TotalOf(all, files, m, which) = iter[files]
    BY DEF TotalOf, MapThenSumSet, MapThenFoldSet
  <1>2. ASSUME NEW h PROVE SumsUp(h, sizes, files) <=> Adds(h)
    <2>1. \A q \in SUBSET files : q # {} =>
            sizes[Pick(q)] = all[CHOOSE x \in q : TRUE][m][which]
      BY PickIn DEF Pick
    <2> HIDE DEF sizes
    <2>2. [q \in SUBSET files |-> IF q = {} THEN 0 ELSE sizes[Pick(q)] + h[q \ {Pick(q)}]]
          = [q \in SUBSET files |-> IF q = {} THEN 0
                                    ELSE all[CHOOSE x \in q : TRUE][m][which]
                                           + h[q \ {CHOOSE x \in q : TRUE}]]
      BY <2>1 DEF Pick
    <2> QED BY <2>2 DEF SumsUp
  <1>3. \E h : Adds(h)
    <2>1. \E h : SumsUp(h, sizes, files)
      BY SumsExist
    <2> HIDE DEF Adds
    <2> QED BY <1>2, <2>1
  <1>4. Adds(iter)
    <2> HIDE DEF Adds
    <2> QED BY <1>3
  <1> HIDE DEF Adds, iter
  <1>5. SumsUp(iter, sizes, files)
    BY <1>2, <1>4
  <1>6. \A f \in files : IsFiniteSet(G[f]) /\ sizes[f] = Cardinality(G[f])
    OBVIOUS
  <1> HIDE DEF sizes
  <1>7. \A q \in SUBSET files : IsFiniteSet(Pairs(G, q)) /\ iter[q] = Cardinality(Pairs(G, q))
    BY <1>5, <1>6, SumOfSizes
  <1> QED BY <1>1, <1>7

\* What is counted of each of some files.
PointsOf(map, files, m) == [f \in files |-> Counted(map[f].points, m)]

HitsOf(map, files, m) == [f \in files |-> Counted(map[f].hit, m)]

\* combine_summaries counts every point of every file once.
LEMMA CombinedIs ==
  ASSUME NEW map, NEW files, IsFiniteSet(files), \A f \in files : IsRecord(map[f]),
         NEW m \in Metrics
  PROVE  Combined(map, files)[m] = [total |-> Cardinality(Pairs(PointsOf(map, files, m), files)),
                                    covered |-> Cardinality(Pairs(HitsOf(map, files, m), files))]
  <1> DEFINE all == [f \in files |-> Summary(map[f])]
             P == PointsOf(map, files, m)
             H == HitsOf(map, files, m)
  <1>1. Combined(map, files)[m] = [total |-> TotalOf(all, files, m, "total"),
                                   covered |-> TotalOf(all, files, m, "covered")]
    BY DEF Combined, TotalOf
  <1>2. ASSUME NEW f \in files
        PROVE  /\ all[f][m]["total"] = Cardinality(P[f]) /\ IsFiniteSet(P[f])
               /\ all[f][m]["covered"] = Cardinality(H[f]) /\ IsFiniteSet(H[f])
    <2>1. all[f][m] = [total |-> Cardinality(Counted(map[f].points, m)),
                       covered |-> Cardinality(Counted(map[f].hit, m))]
      BY SummaryIs
    <2>2. IsFiniteSet(Counted(map[f].points, m)) /\ IsFiniteSet(Counted(map[f].hit, m))
      BY RecordIsFinite
    <2>3. P[f] = Counted(map[f].points, m) /\ H[f] = Counted(map[f].hit, m)
      BY DEF PointsOf, HitsOf
    <2> HIDE DEF all, P, H
    <2> QED BY <2>1, <2>2, <2>3
  <1> HIDE DEF all, P, H
  <1>3. TotalOf(all, files, m, "total") = Cardinality(Pairs(P, files))
    BY <1>2, TotalIsSize
  <1>4. TotalOf(all, files, m, "covered") = Cardinality(Pairs(H, files))
    BY <1>2, TotalIsSize
  <1> QED BY <1>1, <1>3, <1>4 DEF P, H

LEMMA PartIsFinite ==
  ASSUME NEW map, NEW files, IsFiniteSet(files), \A f \in files : IsRecord(map[f]), NEW m
  PROVE  /\ IsFiniteSet(Pairs(PointsOf(map, files, m), files))
         /\ IsFiniteSet(Pairs(HitsOf(map, files, m), files))
  <1>1. ASSUME NEW G, \A f \in files : IsFiniteSet(G[f])
        PROVE  IsFiniteSet(Pairs(G, files))
    <2> DEFINE sizes == [f \in files |-> Cardinality(G[f])]
    <2>1. \E h : SumsUp(h, sizes, files)
      BY SumsExist
    <2>2. \A f \in files : sizes[f] = Cardinality(G[f])
      OBVIOUS
    <2> HIDE DEF sizes
    <2>3. \A q \in SUBSET files : IsFiniteSet(Pairs(G, q))
      BY <1>1, <2>1, <2>2, SumOfSizes
    <2> QED BY <2>3
  <1>2. \A f \in files : /\ IsFiniteSet(PointsOf(map, files, m)[f])
                         /\ IsFiniteSet(HitsOf(map, files, m)[f])
    BY RecordIsFinite DEF PointsOf, HitsOf
  <1> QED BY <1>1, <1>2
-----------------------------------------------------------------------------
\* A rule of a threshold, without a percentage.
Fits(total, covered, rule) ==
  IF rule < 0 THEN total - covered <= -rule
  ELSE IF total = 0 THEN rule <= 10000
  ELSE covered * 10000 >= rule * total

\* A quotient that is rounded down is less than a number when the exact one is.
LEMMA RoundedDown ==
  ASSUME NEW a \in Nat, a # 0, NEW x \in Nat, NEW r \in Nat
  PROVE  x \div a < r <=> x < r * a
  <1> DEFINE q == x \div a
  <1>1. q \in Int /\ q * a <= x /\ x < q * a + a
    OBVIOUS
  <1> HIDE DEF q
  <1>2. ASSUME q < r PROVE x < r * a
    <2>1. r - q - 1 \in Nat
      BY <1>1, <1>2
    <2>2. (r - q - 1) * a \in Nat
      BY <2>1
    <2>3. (r - q - 1) * a = r * a - (q * a + a)
      BY <1>1
    <2>4. r * a \in Int /\ q * a \in Int
      BY <1>1
    <2> QED BY <1>1, <2>2, <2>3, <2>4
  <1>3. ASSUME ~(q < r) PROVE ~(x < r * a)
    <2>1. q - r \in Nat
      BY <1>1, <1>3
    <2>2. (q - r) * a \in Nat
      BY <2>1
    <2>3. (q - r) * a = q * a - r * a
      BY <1>1
    <2>4. r * a \in Int /\ q * a \in Int
      BY <1>1
    <2> QED BY <1>1, <2>2, <2>3, <2>4
  <1> QED BY <1>2, <1>3 DEF q

LEMMA RuleFits ==
  ASSUME NEW metric, metric.total \in Nat, metric.covered \in Nat, NEW rule \in Int
  PROVE  (IF rule < 0 THEN metric.total - metric.covered > -rule ELSE BasisPoints(metric) < rule)
           <=> ~Fits(metric.total, metric.covered, rule)
  <1>1. CASE rule < 0
    BY <1>1 DEF Fits
  <1>2. CASE ~(rule < 0) /\ metric.total = 0
    BY <1>2 DEF Fits, BasisPoints
  <1>3. CASE ~(rule < 0) /\ metric.total # 0
    <2>1. rule \in Nat /\ metric.covered * 10000 \in Nat
      BY <1>3
    <2>2. BasisPoints(metric) = (metric.covered * 10000) \div metric.total
      BY <1>3 DEF BasisPoints
    <2>3. BasisPoints(metric) < rule <=> metric.covered * 10000 < rule * metric.total
      BY <1>3, <2>1, <2>2, RoundedDown
    <2>4. rule * metric.total \in Nat
      BY <2>1
    <2>5. metric.covered * 10000 < rule * metric.total
            <=> ~(metric.covered * 10000 >= rule * metric.total)
      BY <2>1, <2>4
    <2> QED BY <1>3, <2>3, <2>5 DEF Fits
  <1> QED BY <1>1, <1>2, <1>3

\* Rules: a number for a metric.
AreRules(rules) == \A m \in DOMAIN rules : rules[m] \in Int

LEMMA UnmetIs ==
  ASSUME NEW rules, AreRules(rules), NEW summary,
         \A m \in Metrics : summary[m].total \in Nat /\ summary[m].covered \in Nat
  PROVE  Unmet(rules, summary) = {} <=>
           \A m \in DOMAIN rules \cap Metrics : Fits(summary[m].total, summary[m].covered, rules[m])
  <1>1. ASSUME NEW m \in DOMAIN rules \cap Metrics
        PROVE  (IF rules[m] < 0 THEN summary[m].total - summary[m].covered > -rules[m]
                ELSE BasisPoints(summary[m]) < rules[m])
                 <=> ~Fits(summary[m].total, summary[m].covered, rules[m])
    BY RuleFits DEF AreRules
  <1> QED BY <1>1 DEF Unmet

\* The rules for a part of the files.
Meets(map, part, rules) ==
  \A m \in DOMAIN rules \cap Metrics :
    Fits(Cardinality(Pairs(PointsOf(map, part, m), part)),
         Cardinality(Pairs(HitsOf(map, part, m), part)), rules[m])

LEMMA CombinedMeets ==
  ASSUME NEW map, NEW part, IsFiniteSet(part), \A f \in part : IsRecord(map[f]),
         NEW rules, AreRules(rules)
  PROVE  Unmet(rules, Combined(map, part)) = {} <=> Meets(map, part, rules)
  <1> DEFINE sum == Combined(map, part)
  <1>1. ASSUME NEW m \in Metrics
        PROVE  /\ sum[m].total = Cardinality(Pairs(PointsOf(map, part, m), part))
               /\ sum[m].covered = Cardinality(Pairs(HitsOf(map, part, m), part))
               /\ sum[m].total \in Nat /\ sum[m].covered \in Nat
    <2>1. sum[m] = [total |-> Cardinality(Pairs(PointsOf(map, part, m), part)),
                    covered |-> Cardinality(Pairs(HitsOf(map, part, m), part))]
      BY CombinedIs
    <2>2. /\ IsFiniteSet(Pairs(PointsOf(map, part, m), part))
          /\ IsFiniteSet(Pairs(HitsOf(map, part, m), part))
      BY PartIsFinite
    <2> HIDE DEF sum
    <2> QED BY <2>1, <2>2, FS_CardinalityType
  <1> HIDE DEF sum
  <1>2. Unmet(rules, sum) = {} <=>
          \A m \in DOMAIN rules \cap Metrics : Fits(sum[m].total, sum[m].covered, rules[m])
    BY <1>1, UnmetIs
  <1> QED BY <1>1, <1>2 DEF Meets, sum

\* One file is summed up like a part that has no other.
LEMMA SummaryMeets ==
  ASSUME NEW map, NEW f, IsRecord(map[f]), NEW rules, AreRules(rules)
  PROVE  Unmet(rules, Summary(map[f])) = {} <=> Meets(map, {f}, rules)
  <1> DEFINE sum == Summary(map[f])
  <1>1. ASSUME NEW m \in Metrics
        PROVE  /\ sum[m].total = Cardinality(Pairs(PointsOf(map, {f}, m), {f}))
               /\ sum[m].covered = Cardinality(Pairs(HitsOf(map, {f}, m), {f}))
               /\ sum[m].total \in Nat /\ sum[m].covered \in Nat
    <2>1. sum[m] = [total |-> Cardinality(Counted(map[f].points, m)),
                    covered |-> Cardinality(Counted(map[f].hit, m))]
      BY SummaryIs
    <2>2. IsFiniteSet(Counted(map[f].points, m)) /\ IsFiniteSet(Counted(map[f].hit, m))
      BY RecordIsFinite
    <2>3. /\ Pairs(PointsOf(map, {f}, m), {f}) = {f} \X Counted(map[f].points, m)
          /\ Pairs(HitsOf(map, {f}, m), {f}) = {f} \X Counted(map[f].hit, m)
      BY DEF Pairs, PointsOf, HitsOf
    <2>4. ASSUME NEW S, IsFiniteSet(S)
          PROVE  Cardinality({f} \X S) = Cardinality(S) /\ Cardinality(S) \in Nat
      <3>1. Cardinality(S) \in Nat /\ IsFiniteSet({f}) /\ Cardinality({f}) = 1
        BY <2>4, FS_Singleton, FS_CardinalityType
      <3>2. Cardinality({f} \X S) = Cardinality({f}) * Cardinality(S)
        BY <2>4, <3>1, FS_Product
      <3> QED BY <3>1, <3>2
    <2> HIDE DEF sum
    <2> QED BY <2>1, <2>2, <2>3, <2>4
  <1> HIDE DEF sum
  <1>2. Unmet(rules, sum) = {} <=>
          \A m \in DOMAIN rules \cap Metrics : Fits(sum[m].total, sum[m].covered, rules[m])
    BY <1>1, UnmetIs
  <1> QED BY <1>1, <1>2 DEF Meets, sum

\* The thresholds of all groups, for a map of records.
GroupIsMet(groups, g, map) ==
  LET files == DOMAIN map
      others == DOMAIN groups \ {"global"}
      mine == files \cap (groups[g].prefix \cup groups[g].glob)
      left == files \ UNION {files \cap (groups[n].prefix \cup groups[n].glob) : n \in others}
  IN IF g = "global"
     THEN files = {} \/ Meets(map, IF left = {} THEN files ELSE left, groups[g].rules)
     ELSE /\ mine # {}
          /\ IF mine \cap groups[g].prefix # {} THEN Meets(map, mine, groups[g].rules)
             ELSE \A f \in mine : Meets(map, {f}, groups[g].rules)

LEMMA GroupFailsUnlessMet ==
  ASSUME NEW map, IsFiniteSet(DOMAIN map), \A f \in DOMAIN map : IsRecord(map[f]),
         NEW groups, NEW g, AreRules(groups[g].rules)
  PROVE  GroupFailures(groups, g, map) = {} <=> GroupIsMet(groups, g, map)
  <1> DEFINE files == DOMAIN map
             mine == IF g = "global" THEN Remaining(groups, files) ELSE Named(groups[g], files)
             rules == groups[g].rules
             misses == IF g = "global" /\ files = {} THEN {}
                      ELSE IF mine = {} THEN {"not found"}
                      ELSE IF g = "global" \/ mine \cap groups[g].prefix # {}
                           THEN Unmet(rules, Combined(map, mine))
                      ELSE UNION {Unmet(rules, Summary(map[f])) : f \in mine}
  <1>1. GroupFailures(groups, g, map) = {} <=> misses = {}
    <2>1. GroupFailures(groups, g, map) = {<<g, m>> : m \in misses}
      BY DEF GroupFailures
    <2> HIDE DEF misses
    <2> QED BY <2>1
  <1>2. mine \subseteq files /\ IsFiniteSet(mine)
    <2>1. mine \subseteq files
      BY DEF Remaining, Named
    <2> HIDE DEF mine
    <2> QED BY <2>1, FS_Subset
  <1>3. Unmet(rules, Combined(map, mine)) = {} <=> Meets(map, mine, rules)
    <2> HIDE DEF mine
    <2> QED BY <1>2, CombinedMeets
  <1>4. \A f \in mine : Unmet(rules, Summary(map[f])) = {} <=> Meets(map, {f}, rules)
    <2> HIDE DEF mine
    <2> QED BY <1>2, SummaryMeets
  <1>5. CASE g = "global"
    <2> DEFINE left == files \ UNION {files \cap (groups[n].prefix \cup groups[n].glob) :
                                        n \in DOMAIN groups \ {"global"}}
    <2>1. mine = IF left = {} THEN files ELSE left
      BY <1>5 DEF Remaining, Named
    <2>2. GroupIsMet(groups, g, map) <=>
            (files = {} \/ Meets(map, IF left = {} THEN files ELSE left, rules))
      BY <1>5 DEF GroupIsMet
    <2>3. misses = IF files = {} THEN {} ELSE IF mine = {} THEN {"not found"}
                  ELSE Unmet(rules, Combined(map, mine))
      BY <1>5
    <2> HIDE DEF mine, left, misses
    <2>4. files # {} => mine # {}
      BY <2>1
    <2> QED BY <1>1, <1>3, <2>1, <2>2, <2>3, <2>4
  <1>6. CASE g # "global"
    <2>1. mine = files \cap (groups[g].prefix \cup groups[g].glob)
      BY <1>6 DEF Named
    <2>2. GroupIsMet(groups, g, map) <=>
            /\ mine # {}
            /\ IF mine \cap groups[g].prefix # {} THEN Meets(map, mine, rules)
               ELSE \A f \in mine : Meets(map, {f}, rules)
      BY <1>6, <2>1 DEF GroupIsMet
    <2>3. misses = IF mine = {} THEN {"not found"}
                  ELSE IF mine \cap groups[g].prefix # {} THEN Unmet(rules, Combined(map, mine))
                  ELSE UNION {Unmet(rules, Summary(map[f])) : f \in mine}
      BY <1>6
    <2>4. UNION {Unmet(rules, Summary(map[f])) : f \in mine} = {} <=>
            \A f \in mine : Unmet(rules, Summary(map[f])) = {}
      OBVIOUS
    <2> HIDE DEF mine, misses
    <2> QED BY <1>1, <1>3, <1>4, <2>2, <2>3, <2>4
  <1> QED BY <1>5, <1>6

\* evaluate_thresholds finds nothing when every group is met.
LEMMA NoFailuresWhenMet ==
  ASSUME NEW map, IsFiniteSet(DOMAIN map), \A f \in DOMAIN map : IsRecord(map[f]),
         NEW groups, \A g \in DOMAIN groups : AreRules(groups[g].rules)
  PROVE  Failures(groups, map) = {} <=> \A g \in DOMAIN groups : GroupIsMet(groups, g, map)
  <1>1. \A g \in DOMAIN groups : GroupFailures(groups, g, map) = {} <=> GroupIsMet(groups, g, map)
    BY GroupFailsUnlessMet
  <1> QED BY <1>1 DEF Failures
-----------------------------------------------------------------------------
\* The invariant of an invocation, part by part.

\* Where it is, and what it was given and has loaded.
LoadedInv ==
  /\ given \in Scenarios
  /\ place \in Places
  /\ place \notin {"load", "over"} => config.error = "none"
  /\ OptionsPrevail
  /\ place # "load" /\ config.error = "none" =>
       /\ config.options.testFailureExitCode \in Int
       /\ AreThresholds(config.options.coverageThreshold)
       /\ \E some : config.projects \in Seq(some)
  /\ place = "load" =>
       /\ asked = 0 /\ context = 0 /\ staged = {} /\ changed = {} /\ search = "idle"
       /\ todo = {} /\ exit = Running

\* What Git would have answered before the user staged anything.
FirstAnswer(query) ==
  CASE query = "commit" -> given.git.head
    [] query = "range" -> IF given.cli.ancestor THEN given.git.ancestor ELSE given.git.since
    [] query = "index" -> {f \in Files : given.git.work[f] \in {"staged", "stagedAndModified"}}
    [] query = "tree" -> {f \in Files : given.git.work[f] \in {"untracked", "modified", "deleted",
                                                               "stagedAndModified"}}

Dirty == {f \in Files : given.git.work[f] # "same"}

History == given.git.head \cup given.git.ancestor \cup given.git.since

\* Git has been asked up to a command, and the user has staged some files.
GitInv ==
  /\ work \in [Files -> WorkStates]
  /\ staged \subseteq Files
  /\ asked \in 0 .. Len(Queries)
  /\ context \in Nat
  /\ \A f \in Files : IF f \in staged THEN f \in Dirty ELSE work[f] = given.git.work[f]
  /\ changed \subseteq Mine \cap (Dirty \cup History)
  /\ \A j \in 1 .. asked : (FirstAnswer(Queries[j]) \cap Mine) \ staged \subseteq changed
  /\ context > 0 /\ ChangedSelection /\ ~FindRelated /\ given.git.repository =>
       asked = Len(Queries)

\* The projects before context have got their tests.
ChosenInv ==
  /\ DOMAIN filters = DOMAIN chosen
  /\ \A i \in DOMAIN chosen : chosen[i] \subseteq Files /\ filters[i] \subseteq Files
  /\ context > 0 => DOMAIN chosen = DOMAIN Executed(config)
  /\ 0 < context /\ context <= Len(Executed(config)) => Narrowed
  /\ context > 0 /\ Narrowed =>
       \A i \in Contexts :
         IF i < context THEN Candidates(i).tests \cap chosen[i] = AffectedTests(i)
         ELSE chosen[i] = {}

\* A search is that of the project in turn.
TiedInv ==
  /\ SearchInv
  /\ search # "idle" =>
       /\ Narrowed /\ context \in Contexts /\ Wanted(context) # {}
       /\ candidates = Candidates(context).tests
       /\ seeds = Seeds(Wanted(context), candidates)
       /\ graph = GraphOf(context)
       /\ complete = given.syncResolver

\* The threads of a pool are at rest but for the time of the pool.
PoolsInv ==
  /\ FilesInv
  /\ place \notin {"pool", "over"} => SnapshotsSettled /\ Broken = {}

\* The tests that the pool was given.
Pooled == {current} \X {s \in Suites : step[s] # "idle"}

ResultsType ==
  /\ crashed \subseteq Suites
  /\ \A r \in DOMAIN results :
       /\ r[1] \in Contexts /\ r[2] \in Files
       /\ results[r].outcome \in Outcomes
       /\ DOMAIN results[r].coverage \subseteq Files

\* Every unit is to be run, with the pool or has a result.
ResultsInv ==
  /\ ResultsType
  /\ place \in {"load", "clear", "select"} => DOMAIN results = {}
  /\ place \in {"load", "select"} => todo = {}
  /\ place \notin {"load", "clear", "over"} => ~cli.clearCache /\ ~cli.showConfig
  /\ place = "clear" => cli.clearCache /\ ~cli.showConfig
  /\ place \in {"projects", "pool", "reports", "emit"} =>
       context > Len(Executed(config)) /\ ~cli.listTests
  /\ place = "projects" => DOMAIN results \cup todo = Units
  /\ place = "pool" => DOMAIN results \cup todo \cup Pooled = Units
  /\ place \in {"reports", "emit"} => DOMAIN results = Units

\* What coverage a run has collected, and what was made of it.
Coverages == [u \in DOMAIN results |-> results[u].coverage]

CoverInv ==
  /\ \A u \in DOMAIN results : \A f \in DOMAIN results[u].coverage : IsRecord(results[u].coverage[f])
  /\ place = "reports" => Joins(merged, Coverages, DOMAIN results)
  /\ place = "emit" /\ DOMAIN results # {} =>
       /\ Joins(merged, Coverages, DOMAIN results)
       /\ Collecting => unmet = Failures(Thresholds, merged)

\* What has not failed: the commands that Git has answered, the graphs of the
\* projects before context, the directories that are cleared, and whatever a
\* place behind them needs.
WorkedInv ==
  /\ \A n \in 1 .. asked : Queries[n] \notin given.git.fails
  /\ context > 0 /\ Narrowed =>
       \A i \in Contexts : i < context /\ Wanted(i) # {} => i \notin given.unresolved
  /\ search # "idle" => context \notin given.unresolved
  /\ place = "clear" =>
       \A d \in CacheDirectories \ todo :
         SafeToClear(d) /\ Normalized(d) \in cleared \ given.locked
  /\ place \in {"projects", "pool", "reports", "emit"} =>
       SelectionHasWorked /\ (Units # {} \/ NoTestsAllowed)
  /\ DOMAIN results # {} \/ place = "pool" => cli.provider \in {"babel", "v8"}
  /\ place = "emit" /\ Collecting /\ DOMAIN results # {} => ReportsAreWritten

\* How it has ended.
EndInv ==
  /\ exit \in {Running} \cup 0 .. 255
  /\ place = "over" <=> exit # Running
  /\ SuccessIsTold

InvocationInv ==
  LoadedInv /\ GitInv /\ ChosenInv /\ TiedInv /\ PoolsInv /\ ResultsInv /\ CoverInv
    /\ WorkedInv /\ EndInv
-----------------------------------------------------------------------------
\* The tests that lead to a change, and those that the change leads to.

Closed(g, C) == \A m \in C \cap DOMAIN g : g[m] \subseteq C

Reach(g, t) == {f \in Files : \A C \in SUBSET Files : t \in C /\ Closed(g, C) => f \in C}

LEMMA GraphIsOfFiles ==
  ASSUME NEW i
  PROVE  /\ DOMAIN GraphOf(i) =
              ({f \in Present : \E r \in Roots(i) : Below(f, r)} \cap given.modules) \ given.ignored
         /\ DOMAIN GraphOf(i) \subseteq Files
         /\ GraphOf(i) \in [DOMAIN GraphOf(i) -> SUBSET Files]
  BY PresentAreFiles DEF GraphOf, BuildGraph

LEMMA AffectedAre ==
  ASSUME NEW i
  PROVE  AffectedTests(i) =
           IF Wanted(i) = {} THEN {}
           ELSE IF given.syncResolver
                THEN {t \in Candidates(i).tests :
                        Reach(GraphOf(i), t) \cap Seeds(Wanted(i), Candidates(i).tests) # {}}
                ELSE Candidates(i).tests
  <1> DEFINE modules == ({f \in Present : \E r \in Roots(i) : Below(f, r)} \cap given.modules)
                          \ given.ignored
             imports == BuildGraph(modules, given.imports, given.ignored, Present)
             ClosedIn(C) == \A m \in C \cap modules : imports[m] \subseteq C
             ReachIn(t) == {f \in Files : \A C \in SUBSET Files : t \in C /\ ClosedIn(C) => f \in C}
  <1>1. imports = GraphOf(i) /\ modules = DOMAIN GraphOf(i)
    BY GraphIsOfFiles DEF GraphOf, BuildGraph
  <1>2. AffectedTests(i) =
          IF Wanted(i) = {} THEN {}
          ELSE IF given.syncResolver
               THEN {t \in Candidates(i).tests :
                       ReachIn(t) \cap Seeds(Wanted(i), Candidates(i).tests) # {}}
               ELSE Candidates(i).tests
    BY DEF AffectedTests
  <1> HIDE DEF modules, imports
  <1>3. \A C : ClosedIn(C) <=> Closed(GraphOf(i), C)
    BY <1>1 DEF Closed
  <1> HIDE DEF ClosedIn
  <1>4. \A t : ReachIn(t) = Reach(GraphOf(i), t)
    BY <1>3 DEF Reach
  <1> HIDE DEF ReachIn
  <1> QED BY <1>2, <1>4

\* A test leads to a seed exactly when it is in every set that holds the seeds
\* and what imports a module of the set.
LEMMA ReachIsAffected ==
  ASSUME DOMAIN graph \subseteq Files, graph \in [DOMAIN graph -> SUBSET Files],
         seeds \subseteq Files, NEW t \in Files
  PROVE  t \in Affected <=> Reach(graph, t) \cap seeds # {}
  <1>1. ASSUME Reach(graph, t) \cap seeds # {} PROVE t \in Affected
    <2> SUFFICES ASSUME NEW U \in SUBSET Files, Upward(U), t \notin U PROVE FALSE
      BY DEF Affected
    <2>1. Closed(graph, Files \ U)
      <3> SUFFICES ASSUME NEW m \in (Files \ U) \cap DOMAIN graph PROVE graph[m] \cap U = {}
        BY DEF Closed
      <3> QED BY DEF Upward
    <2>2. Reach(graph, t) \subseteq Files \ U
      BY <2>1 DEF Reach
    <2> QED BY <1>1, <2>2 DEF Upward
  <1>2. ASSUME t \in Affected PROVE Reach(graph, t) \cap seeds # {}
    <2> DEFINE U == {f \in Files : Reach(graph, f) \cap seeds # {}}
    <2>1. seeds \subseteq U
      BY DEF Reach
    <2>2. ASSUME NEW m \in DOMAIN graph, graph[m] \cap U # {} PROVE m \in U
      <3>1. PICK d \in graph[m] : d \in U
        BY <2>2
      <3>2. Reach(graph, d) \subseteq Reach(graph, m)
        BY <3>1 DEF Reach, Closed
      <3>3. m \in Files
        OBVIOUS
      <3> QED BY <3>1, <3>2, <3>3
    <2>3. Upward(U)
      BY <2>1, <2>2 DEF Upward
    <2> HIDE DEF U
    <2>4. t \in U
      <3>1. U \subseteq Files
        BY DEF U
      <3> QED BY <1>2, <2>3, <3>1 DEF Affected
    <2> QED BY <2>4 DEF U
  <1> QED BY <1>1, <1>2

\* What a search of a project has found is what the changes can affect.
LEMMA SearchFindsAffected ==
  ASSUME TiedInv, search = "done"
  PROVE  related = AffectedTests(context)
  <1> DEFINE i == context
  <1>1. /\ Wanted(i) # {} /\ candidates = Candidates(i).tests
        /\ seeds = Seeds(Wanted(i), Candidates(i).tests)
        /\ graph = GraphOf(i) /\ complete = given.syncResolver
    BY DEF TiedInv
  <1>2. related = IF complete THEN candidates \cap Affected ELSE candidates
    BY SearchExact DEF TiedInv, RelatedIsExact
  <1>3. candidates \subseteq Files /\ seeds \subseteq Files
    BY DEF TiedInv, SearchInv, RelatedTypeOK
  <1>4. DOMAIN graph \subseteq Files /\ graph \in [DOMAIN graph -> SUBSET Files]
    BY <1>1, GraphIsOfFiles
  <1>5. \A t \in candidates : t \in Affected <=> Reach(graph, t) \cap seeds # {}
    BY <1>3, <1>4, ReachIsAffected
  <1>6. candidates \cap Affected = {t \in candidates : Reach(graph, t) \cap seeds # {}}
    BY <1>5
  <1>7. AffectedTests(i) = IF complete THEN {t \in candidates : Reach(graph, t) \cap seeds # {}}
                           ELSE candidates
    BY <1>1, AffectedAre
  <1> QED BY <1>2, <1>6, <1>7
-----------------------------------------------------------------------------
\* The steps behind the load and outside the selection.

Later ==
  \/ \E d \in todo : ClearCache(d)
  \/ CachesCleared
  \/ SelectionError \/ Plan
  \/ \E i \in {u[1] : u \in Waiting}, tests \in SUBSET Suites, f \in Suites :
       StartProject(i, tests, f)
  \/ \E s \in Suites : RunSuite(s)
  \/ EndProject \/ Merged \/ WriteReports \/ EmitResults

LEMMA StepParts ==
  ASSUME Next
  PROVE  LoadConfiguration \/ Select \/ (\E f \in Files : StageMeanwhile(f)) \/ Later
  BY DEF Next, Step, Later

\* They leave alone what was loaded and selected.
LEMMA LaterKeeps ==
  ASSUME Later
  PROVE  UNCHANGED <<given, config, selectionVars, relatedVars>>
  <1> USE DEF otherVars
  <1>1. ASSUME NEW d \in todo, ClearCache(d)
        PROVE  UNCHANGED <<given, config, selectionVars, relatedVars>>
    BY <1>1 DEF ClearCache
  <1>2. CASE CachesCleared \/ SelectionError \/ Plan \/ EndProject \/ Merged \/ WriteReports
             \/ EmitResults
    BY <1>2 DEF CachesCleared, SelectionError, Plan, EndProject, Merged, WriteReports, EmitResults
  <1>3. ASSUME NEW i, NEW tests, NEW f, StartProject(i, tests, f)
        PROVE  UNCHANGED <<given, config, selectionVars, relatedVars>>
    BY <1>3 DEF StartProject
  <1>4. ASSUME NEW s, RunSuite(s)
        PROVE  UNCHANGED <<given, config, selectionVars, relatedVars>>
    BY <1>4 DEF RunSuite
  <1> QED BY <1>1, <1>2, <1>3, <1>4 DEF Later

\* Where they lead to.
LEMMA LaterMoves ==
  ASSUME Later
  PROVE  /\ place \in {"clear", "select", "projects", "pool", "reports", "emit"}
         /\ place' \in {"over", "clear", "projects", "pool", "reports", "emit"}
  <1> USE DEF Exit, Fail, Continue, Finish
  <1>1. ASSUME NEW d \in todo, ClearCache(d)
        PROVE  place = "clear" /\ place' \in {"over", "clear"}
    BY <1>1 DEF ClearCache
  <1>2. CASE CachesCleared
    BY <1>2 DEF CachesCleared
  <1>3. CASE SelectionError \/ Plan
    BY <1>3 DEF SelectionError, Plan
  <1>4. CASE EndProject \/ Merged \/ WriteReports \/ EmitResults
    BY <1>4 DEF EndProject, Merged, WriteReports, EmitResults
  <1>5. ASSUME NEW i, NEW tests, NEW f, StartProject(i, tests, f)
        PROVE  place = "projects" /\ place' \in {"over", "pool"}
    BY <1>5 DEF StartProject
  <1>6. ASSUME NEW s, RunSuite(s)
        PROVE  place = "pool" /\ place' = "pool"
    BY <1>6 DEF RunSuite
  <1> QED BY <1>1, <1>2, <1>3, <1>4, <1>5, <1>6 DEF Later

LEMMA Behind ==
  ASSUME Select \/ (\E f \in Files : StageMeanwhile(f)) \/ Later
  PROVE  /\ place \notin {"load", "over"} /\ place' \in Places \ {"load"}
         /\ given' = given /\ config' = config
  <1>1. CASE Select \/ \E f \in Files : StageMeanwhile(f)
    BY <1>1 DEF Select, StageMeanwhile, Continue, Places
  <1>2. CASE Later
    BY <1>2, LaterKeeps, LaterMoves DEF Places
  <1> QED BY <1>1, <1>2
-----------------------------------------------------------------------------
\* What is loaded.

LEMMA LoadedInit == Init => LoadedInv
  BY DEF Init, LoadedInv, SelectionInit, RelatedInit, OptionsPrevail, Places

LEMMA LoadKeepsLoaded ==
  ASSUME LoadedInv, LoadConfiguration
  PROVE  LoadedInv'
  <1>1. IsScenario(given) /\ given' = given /\ given \in Scenarios
    BY ScenarioAssumption DEF LoadedInv, LoadConfiguration, otherVars
  <1>2. place' \in {"over", "clear", "select"} /\ (place' # "over" => config'.error = "none")
    BY DEF LoadConfiguration, Exit, Fail, Continue
  <1>3. config' = Effective \/ config'.error # "none"
    BY DEF LoadConfiguration, Error
  <1>4. ASSUME config'.error = "none"
        PROVE  /\ Prevails(config, DOMAIN cli.options)'
               /\ \A n \in DOMAIN config'.projects :
                    Prevails(config.projects[n], DOMAIN cli.options \ OfRun)'
               /\ config'.options.testFailureExitCode \in Int
               /\ AreThresholds(config'.options.coverageThreshold)
               /\ \E some : config'.projects \in Seq(some)
    <2>1. config' = Final(LoadExecution)
      BY <1>3, <1>4 DEF Effective
    <2>2. Loads(LoadExecution) /\ Final(LoadExecution).error = "none"
      BY <1>1, <1>4, <2>1, ExecutionLoads
    <2>3. /\ Option(cli.options, "testFailureExitCode", 1) \in Int
          /\ AreThresholds(Option(cli.options, "coverageThreshold", <<>>))
      BY <1>1 DEF IsScenario, cli
    <2>4. /\ Prevails(Final(LoadExecution), DOMAIN cli.options)
          /\ \A n \in DOMAIN Final(LoadExecution).projects :
               Prevails(Final(LoadExecution).projects[n], DOMAIN cli.options \ OfRun)
          /\ Final(LoadExecution).options.testFailureExitCode \in Int
          /\ AreThresholds(Final(LoadExecution).options.coverageThreshold)
          /\ \E some : Final(LoadExecution).projects \in Seq(some)
      BY <2>2, <2>3, FinalPrevails
    <2>5. /\ Prevails(config, DOMAIN cli.options)'
      BY <1>1, <2>1, <2>4 DEF Prevails, cli
    <2>6. \A n \in DOMAIN config'.projects :
            Prevails(config.projects[n], DOMAIN cli.options \ OfRun)'
      BY <1>1, <2>1, <2>4 DEF Prevails, cli
    <2> QED BY <2>1, <2>4, <2>5, <2>6
  <1>5. OptionsPrevail'
    BY <1>4 DEF OptionsPrevail
  <1> QED BY <1>1, <1>2, <1>4, <1>5 DEF LoadedInv, Places

LEMMA LoadedStays ==
  ASSUME LoadedInv, place # "load", given' = given, config' = config, place' \in Places \ {"load"},
         place' # "over" => config.error = "none"
  PROVE  LoadedInv'
  <1>1. OptionsPrevail'
    BY DEF LoadedInv, OptionsPrevail, Prevails, cli
  <1> QED BY <1>1 DEF LoadedInv

LEMMA LoadedStep ==
  ASSUME LoadedInv, Next
  PROVE  LoadedInv'
  <1>1. CASE LoadConfiguration
    BY <1>1, LoadKeepsLoaded
  <1>2. CASE Select \/ (\E f \in Files : StageMeanwhile(f)) \/ Later
    BY <1>2, Behind, LoadedStays DEF LoadedInv
  <1> QED BY <1>1, <1>2, StepParts
-----------------------------------------------------------------------------
\* What Git is asked.

LEMMA QueriesLength ==
  /\ Len(Queries) \in 1 .. 3
  /\ \A j \in 1 .. Len(Queries) : Queries[j] \in {"commit", "range", "index", "tree"}
  /\ ~given.cli.lastCommit => \E j, l \in 1 .. Len(Queries) : Queries[j] = "index" /\ Queries[l] = "tree"
  <1>1. CASE given.cli.lastCommit
    <2>1. Queries = <<"commit">>
      BY <1>1 DEF Queries
    <2> QED BY <1>1, <2>1
  <1>2. CASE ~given.cli.lastCommit /\ (given.cli.ancestor \/ given.cli.since)
    <2>1. Queries = <<"range">> \o <<"index", "tree">>
      BY <1>2 DEF Queries
    <2>2. Len(Queries) = 3 /\ Queries[1] = "range" /\ Queries[2] = "index" /\ Queries[3] = "tree"
      <3>1. /\ <<"range">> \in Seq({"range", "index", "tree"})
            /\ <<"index", "tree">> \in Seq({"range", "index", "tree"})
        OBVIOUS
      <3>2. Len(<<"range">>) = 1 /\ Len(<<"index", "tree">>) = 2
        OBVIOUS
      <3>3. /\ Len(Queries) = 3
            /\ \A i \in 1 .. 3 : Queries[i] = IF i <= 1 THEN <<"range">>[i]
                                              ELSE <<"index", "tree">>[i - 1]
        BY <2>1, <3>1, <3>2, ConcatProperties
      <3> QED BY <3>3
    <2>3. \A j \in 1 .. 3 : j = 1 \/ j = 2 \/ j = 3
      OBVIOUS
    <2>4. 1 \in 1 .. 3 /\ 2 \in 1 .. 3 /\ 3 \in 1 .. 3
      OBVIOUS
    <2> QED BY <2>2, <2>3, <2>4
  <1>3. CASE ~given.cli.lastCommit /\ ~(given.cli.ancestor \/ given.cli.since)
    <2>1. Queries = <<"index", "tree">>
      <3>1. <<>> \o <<"index", "tree">> = <<"index", "tree">>
        OBVIOUS
      <3> QED BY <1>3, <3>1 DEF Queries
    <2>2. Len(Queries) = 2 /\ Queries[1] = "index" /\ Queries[2] = "tree"
      BY <2>1
    <2>3. \A j \in 1 .. 2 : j = 1 \/ j = 2
      OBVIOUS
    <2>4. 1 \in 1 .. 2 /\ 2 \in 1 .. 2 /\ 2 \in 1 .. 3
      OBVIOUS
    <2> QED BY <2>2, <2>3, <2>4
  <1> QED BY <1>1, <1>2, <1>3

LEMMA GitStays ==
  ASSUME given' = given
  PROVE  /\ Queries' = Queries /\ Dirty' = Dirty /\ History' = History
         /\ \A q : FirstAnswer(q)' = FirstAnswer(q)
  BY DEF Queries, Dirty, History, FirstAnswer

LEMMA GitInit == Init => GitInv
  <1> SUFFICES ASSUME Init PROVE GitInv
    OBVIOUS
  <1>1. given.git.work \in [Files -> WorkStates]
    BY ScenarioAssumption DEF Init, IsScenario
  <1>2. /\ work = given.git.work /\ staged = {} /\ changed = {} /\ asked = 0 /\ context = 0
    BY DEF Init, SelectionInit
  <1>3. asked \in 0 .. Len(Queries) /\ 1 .. asked = {}
    BY <1>2, QueriesLength
  <1> QED BY <1>1, <1>2, <1>3 DEF GitInv

LEMMA LoadKeepsGit ==
  ASSUME LoadedInv, GitInv, LoadConfiguration
  PROVE  GitInv'
  <1>1. given' = given /\ UNCHANGED selectionVars /\ place = "load"
    BY DEF LoadConfiguration, otherVars
  <1>2. asked = 0 /\ context = 0 /\ staged = {} /\ changed = {}
    BY <1>1 DEF LoadedInv
  <1>3. UNCHANGED <<asked, context, staged, changed, work>>
    BY <1>1 DEF selectionVars
  <1>4. 1 .. asked' = {}
    BY <1>2, <1>3
  <1>5. asked' \in 0 .. Len(Queries')
    BY <1>1, <1>3, GitStays DEF GitInv
  <1> QED BY <1>1, <1>2, <1>3, <1>4, <1>5, GitStays DEF GitInv

LEMMA GitKept ==
  ASSUME GitInv, given' = given, config' = config, UNCHANGED <<work, staged, asked, changed>>,
         context' \in Nat,
         context' > 0 /\ ChangedSelection /\ ~FindRelated /\ given.git.repository =>
           asked = Len(Queries)
  PROVE  GitInv'
  BY GitStays, ConfigStays DEF GitInv

LEMMA AskKeepsGit ==
  ASSUME LoadedInv, GitInv, given' = given, config' = config, AskGit
  PROVE  GitInv'
  <1> DEFINE query == Queries[asked + 1]
             answer == {f \in Answer(query) : \E i \in Contexts : BelowRoots(f, i)}
  <1>1. /\ ChangedSelection /\ ~FindRelated /\ given.git.repository
        /\ asked < Len(Queries) /\ asked' = asked + 1 /\ changed' = changed \cup answer
        /\ UNCHANGED <<work, staged, context>>
    BY DEF AskGit
  <1>2. asked \in Nat /\ asked + 1 \in 1 .. Len(Queries) /\ asked' \in 0 .. Len(Queries)
    BY <1>1, QueriesLength DEF GitInv
  <1>3. query \in {"commit", "range", "index", "tree"}
    BY <1>2, QueriesLength
  <1>4. IsScenario(given)
    BY ScenarioAssumption DEF LoadedInv
  <1> HIDE DEF query
  <1>5. Answer(query) \subseteq Files
    BY <1>3, <1>4 DEF Answer, IsScenario
  <1>6. answer \subseteq Mine
    BY <1>5 DEF Mine
  <1>7. answer \subseteq Dirty \cup History
    <2>1. \A f \in Files : work[f] # "same" => f \in Dirty
      BY DEF GitInv, Dirty
    <2> QED BY <1>3, <1>5, <2>1 DEF Answer, History
  <1>8. (FirstAnswer(query) \cap Mine) \ staged \subseteq answer
    <2>1. \A f \in Files \ staged : work[f] = given.git.work[f]
      BY DEF GitInv
    <2>2. FirstAnswer(query) \ staged \subseteq Answer(query)
      BY <1>3, <2>1 DEF Answer, FirstAnswer
    <2> QED BY <2>2 DEF Mine
  <1> HIDE DEF answer
  <1>9. \A j \in 1 .. asked' : (FirstAnswer(Queries[j]) \cap Mine) \ staged \subseteq changed'
    <2> SUFFICES ASSUME NEW j \in 1 .. asked'
                 PROVE  (FirstAnswer(Queries[j]) \cap Mine) \ staged \subseteq changed'
      OBVIOUS
    <2>1. CASE j \in 1 .. asked
      BY <1>1, <2>1 DEF GitInv
    <2>2. CASE j = asked + 1
      BY <1>1, <1>8, <2>2 DEF query
    <2> QED BY <1>1, <1>2, <2>1, <2>2
  <1>10. changed' \subseteq Mine \cap (Dirty \cup History)
    BY <1>1, <1>6, <1>7 DEF GitInv
  <1>11. context' > 0 /\ ChangedSelection /\ ~FindRelated /\ given.git.repository =>
           asked' = Len(Queries)
    BY <1>1, <1>2 DEF GitInv
  <1> QED BY <1>1, <1>2, <1>9, <1>10, <1>11, GitStays, ConfigStays DEF GitInv

LEMMA StageKeepsGit ==
  ASSUME GitInv, given' = given, config' = config, NEW f \in Files, Stage(f)
  PROVE  GitInv'
  <1>1. /\ work[f] \notin {"same", "staged"}
        /\ work' = [work EXCEPT ![f] = "staged"] /\ staged' = staged \cup {f}
        /\ UNCHANGED <<asked, changed, context>>
    BY DEF Stage
  <1>2. work \in [Files -> WorkStates] /\ work' \in [Files -> WorkStates] /\ staged' \subseteq Files
    BY <1>1 DEF GitInv, WorkStates
  <1>3. f \in Dirty
    BY <1>1 DEF GitInv, Dirty
  <1>4. \A g \in Files : IF g \in staged' THEN g \in Dirty ELSE work'[g] = given.git.work[g]
    BY <1>1, <1>2, <1>3 DEF GitInv
  <1>5. \A j \in 1 .. asked : (FirstAnswer(Queries[j]) \cap Mine) \ staged' \subseteq changed
    BY <1>1 DEF GitInv
  <1> QED BY <1>1, <1>2, <1>4, <1>5, GitStays, ConfigStays DEF GitInv

LEMMA ExecutedIsList ==
  ASSUME LoadedInv, place \notin {"load", "over"}
  PROVE  /\ Len(Executed(config)) \in Nat
         /\ DOMAIN Executed(config) = 1 .. Len(Executed(config))
         /\ Contexts \subseteq 1 .. Len(Executed(config))
  <1>1. PICK some : config.projects \in Seq(some)
    BY DEF LoadedInv
  <1>2. CASE config.projects = <<>>
    <2>1. Executed(config) = <<config>>
      BY <1>2 DEF Executed
    <2>2. Len(<<config>>) = 1 /\ DOMAIN <<config>> = 1 .. 1
      OBVIOUS
    <2> QED BY <2>1, <2>2 DEF Contexts
  <1>3. CASE config.projects # <<>>
    <2>1. Executed(config) = config.projects
      BY <1>3 DEF Executed
    <2> QED BY <1>1, <2>1 DEF Contexts
  <1> QED BY <1>2, <1>3

LEMMA SelectKeepsGit ==
  ASSUME LoadedInv, GitInv, Select
  PROVE  GitInv'
  <1>1. given' = given /\ config' = config /\ place = "select"
    BY DEF Select
  <1>2. CASE AskGit
    BY <1>1, <1>2, AskKeepsGit
  <1>3. CASE NoSearch \/ BeginSearch
    <2>1. UNCHANGED <<work, staged, asked, changed>>
      BY <1>3 DEF NoSearch, BeginSearch
    <2>2. context' \in Nat
      BY <1>1, <1>3, ExecutedIsList DEF NoSearch, BeginSearch
    <2>3. ChangedSelection /\ ~FindRelated /\ given.git.repository => asked = Len(Queries)
      BY <1>3 DEF NoSearch, BeginSearch, GitAnswered, Narrowed
    <2> QED BY <1>1, <2>1, <2>2, <2>3, GitKept
  <1>4. CASE SkipProject \/ SearchProject \/ ExpandSearch \/ FinishProject
    <2>1. UNCHANGED <<work, staged, asked, changed>> /\ context' \in {context, context + 1}
      BY <1>4 DEF SkipProject, SearchProject, ExpandSearch, FinishProject, selectionVars
    <2>2. SkipProject \/ SearchProject \/ FinishProject => context \in 1 .. Len(Executed(config))
      BY <1>1, ExecutedIsList DEF SkipProject, SearchProject, FinishProject, Searching
    <2>3. ExpandSearch => context' = context
      BY DEF ExpandSearch, selectionVars
    <2>4. context \in Nat
      BY DEF GitInv
    <2>5. context' > 0 => context > 0
      BY <1>4, <2>1, <2>2, <2>3, <2>4
    <2> QED BY <1>1, <2>1, <2>4, <2>5, GitKept DEF GitInv
  <1> QED BY <1>2, <1>3, <1>4 DEF Select, SelectStep

LEMMA GitStep ==
  ASSUME LoadedInv, GitInv, Next
  PROVE  GitInv'
  <1>1. CASE LoadConfiguration
    BY <1>1, LoadKeepsGit
  <1>2. CASE Select
    BY <1>2, SelectKeepsGit
  <1>3. ASSUME NEW f \in Files, StageMeanwhile(f)
        PROVE  GitInv'
    BY <1>3, StageKeepsGit DEF StageMeanwhile
  <1>4. CASE Later
    <2>1. given' = given /\ config' = config /\ UNCHANGED <<work, staged, asked, changed, context>>
      BY <1>4, LaterKeeps DEF selectionVars
    <2> QED BY <2>1, GitKept DEF GitInv
  <1> QED BY <1>1, <1>2, <1>3, <1>4, StepParts

\* Nobody's changes are lost between the commands.
LEMMA ChangesSeen ==
  ASSUME GitInv
  PROVE  ChangesAreSeen
  <1> SUFFICES ASSUME context > 0, ChangedSelection, ~FindRelated, given.git.repository
               PROVE  /\ ~given.cli.lastCommit =>
                           {f \in Mine : given.git.work[f] # "same"} \ staged \subseteq changed
                      /\ changed \subseteq {f \in Mine : given.git.work[f] # "same"} \cup History
    BY DEF ChangesAreSeen, Mine, History
  <1>1. changed \subseteq {f \in Mine : given.git.work[f] # "same"} \cup History
    BY DEF GitInv, Dirty
  <1>2. ASSUME ~given.cli.lastCommit, NEW f \in Mine, given.git.work[f] # "same", f \notin staged
        PROVE  f \in changed
    <2>1. PICK j, l \in 1 .. Len(Queries) : Queries[j] = "index" /\ Queries[l] = "tree"
      BY <1>2, QueriesLength
    <2>2. f \in Files /\ work[f] \in WorkStates /\ work[f] = given.git.work[f]
      BY <1>2 DEF GitInv, Mine
    <2>3. f \in FirstAnswer("index") \cup FirstAnswer("tree")
      BY <1>2, <2>2 DEF FirstAnswer, WorkStates
    <2>4. j \in 1 .. asked /\ l \in 1 .. asked
      BY DEF GitInv
    <2> QED BY <1>2, <2>1, <2>3, <2>4 DEF GitInv
  <1> QED BY <1>1, <1>2
-----------------------------------------------------------------------------
\* What is chosen.

LEMMA ChosenInit == Init => ChosenInv /\ TiedInv
  <1> SUFFICES ASSUME Init PROVE ChosenInv /\ TiedInv
    OBVIOUS
  <1>1. /\ RelatedInit /\ context = 0 /\ chosen = <<>> /\ filters = <<>> /\ search = "idle"
    BY DEF Init, SelectionInit, RelatedInit
  <1>2. SearchInv
    BY <1>1, RelatedInitHolds
  <1> QED BY <1>1, <1>2 DEF ChosenInv, TiedInv

LEMMA WantedAreFiles ==
  ASSUME LoadedInv, GitInv, NEW i
  PROVE  Wanted(i) \subseteq Files
  BY ScenarioAssumption DEF Wanted, LoadedInv, IsScenario, GitInv, Mine

\* Nothing is affected where nothing is wanted.
LEMMA NothingIsAffected == \A i : Wanted(i) = {} => AffectedTests(i) = {}
  BY AffectedAre

LEMMA ChosenStays ==
  ASSUME ChosenInv, given' = given, config' = config,
         UNCHANGED <<chosen, filters, context>>,
         context > 0 /\ Narrowed => changed' = changed
  PROVE  ChosenInv'
  <1>1. DOMAIN filters' = DOMAIN chosen'
    BY DEF ChosenInv
  <1>2. \A i \in DOMAIN chosen' : chosen'[i] \subseteq Files /\ filters'[i] \subseteq Files
    BY DEF ChosenInv
  <1>3. context' > 0 => DOMAIN chosen' = DOMAIN Executed(config)'
    BY ConfigStays DEF ChosenInv
  <1>4. ASSUME context > 0, Narrowed, NEW i \in Contexts
        PROVE  IF i < context' THEN Candidates(i)'.tests \cap chosen'[i] = AffectedTests(i)'
               ELSE chosen'[i] = {}
    <2>1. Candidates(i)' = Candidates(i)
      BY ConfigStays
    <2>2. AffectedTests(i)' = AffectedTests(i)
      BY <1>4, ChoiceStays
    <2> QED BY <1>4, <2>1, <2>2 DEF ChosenInv
  <1>5. /\ Contexts' = Contexts /\ Narrowed' = Narrowed
        /\ Executed(config)' = Executed(config)
    BY ConfigStays
  <1>6. 0 < context' /\ context' <= Len(Executed(config)') => Narrowed'
    BY <1>5 DEF ChosenInv
  <1> QED BY <1>1, <1>2, <1>3, <1>4, <1>5, <1>6 DEF ChosenInv

\* One more project has its tests.
LEMMA OneMoreIsChosen ==
  ASSUME ChosenInv, given' = given, config' = config, changed' = changed,
         context \in Nat, context > 0, context \in DOMAIN Executed(config),
         Contexts \subseteq Nat, Narrowed,
         context' = context + 1,
         NEW tests \in SUBSET Files, NEW filter \in SUBSET Files,
         DOMAIN chosen' = DOMAIN chosen, DOMAIN filters' = DOMAIN filters,
         \A i \in DOMAIN chosen : chosen'[i] = IF i = context THEN tests ELSE chosen[i],
         \A i \in DOMAIN filters : filters'[i] = IF i = context THEN filter ELSE filters[i],
         context \in Contexts => Candidates(context).tests \cap tests = AffectedTests(context)
  PROVE  ChosenInv'
  <1>1. DOMAIN chosen = DOMAIN Executed(config) /\ DOMAIN filters = DOMAIN chosen
    BY DEF ChosenInv
  <1>2. DOMAIN chosen' = DOMAIN chosen /\ DOMAIN filters' = DOMAIN chosen'
    BY <1>1
  <1>3. \A i \in DOMAIN chosen' : chosen'[i] \subseteq Files /\ filters'[i] \subseteq Files
    BY <1>1, <1>2 DEF ChosenInv
  <1>4. DOMAIN chosen' = DOMAIN Executed(config)'
    BY <1>1, <1>2, ConfigStays
  <1>5. ASSUME NEW i \in Contexts
        PROVE  IF i < context' THEN Candidates(i)'.tests \cap chosen'[i] = AffectedTests(i)'
               ELSE chosen'[i] = {}
    <2>1. Candidates(i)' = Candidates(i) /\ AffectedTests(i)' = AffectedTests(i)
      BY ConfigStays, ChoiceStays
    <2>2. i \in DOMAIN chosen
      BY <1>1 DEF Contexts
    <2>3. CASE i = context
      BY <1>1, <2>1, <2>2, <2>3
    <2>4. CASE i # context
      <3>1. chosen'[i] = chosen[i]
        BY <2>2, <2>4
      <3>2. i \in Nat
        OBVIOUS
      <3>3. i < context + 1 <=> i < context
        BY <2>4, <3>2
      <3> QED BY <2>1, <3>1, <3>3 DEF ChosenInv
    <2> QED BY <2>3, <2>4
  <1>6. Contexts' = Contexts /\ Narrowed' = Narrowed
    BY ConfigStays
  <1>7. 0 < context' /\ context' <= Len(Executed(config)') => Narrowed'
    BY <1>6
  <1> QED BY <1>2, <1>3, <1>4, <1>5, <1>6, <1>7 DEF ChosenInv

LEMMA BeginningIsChosen ==
  ASSUME LoadedInv, GitInv, place = "select", given' = given, config' = config, changed' = changed,
         NoSearch \/ BeginSearch
  PROVE  ChosenInv'
  <1>1. /\ chosen' = [i \in DOMAIN Executed(config) |-> {}]
        /\ filters' = [i \in DOMAIN Executed(config) |-> Files]
        /\ context' \in {1, Len(Executed(config)) + 1}
    BY DEF NoSearch, BeginSearch
  <1>2. DOMAIN Executed(config)' = DOMAIN Executed(config)
    BY ConfigStays
  <1>3. ASSUME Narrowed, NEW i \in Contexts
        PROVE  IF i < context' THEN Candidates(i)'.tests \cap chosen'[i] = AffectedTests(i)'
               ELSE chosen'[i] = {}
    <2>1. i \in DOMAIN Executed(config) /\ i \in Nat /\ i >= 1
      BY ExecutedIsList DEF Contexts
    <2>2. chosen'[i] = {}
      BY <1>1, <2>1
    <2>3. CASE BeginSearch
      BY <2>1, <2>2, <2>3 DEF BeginSearch
    <2>4. CASE NoSearch
      <3>1. ~FindRelated /\ changed = {}
        BY <1>3, <2>4 DEF NoSearch
      <3>2. Wanted(i) = {}
        BY <3>1 DEF Wanted
      <3>3. AffectedTests(i)' = {}
        BY <3>2, NothingIsAffected, ChoiceStays
      <3> QED BY <2>2, <3>3
    <2> QED BY <2>3, <2>4
  <1>4. /\ Contexts' = Contexts /\ Narrowed' = Narrowed
        /\ Executed(config)' = Executed(config)
    BY ConfigStays
  <1>5. 0 < context' /\ context' <= Len(Executed(config)') => Narrowed'
    <2>1. Len(Executed(config)) \in Nat
      BY ExecutedIsList
    <2>2. BeginSearch => Narrowed
      BY DEF BeginSearch
    <2>3. NoSearch => context' = Len(Executed(config)) + 1
      BY DEF NoSearch
    <2> QED BY <1>4, <2>1, <2>2, <2>3
  <1> QED BY <1>1, <1>2, <1>3, <1>4, <1>5 DEF ChosenInv

LEMMA SkippingIsChosen ==
  ASSUME LoadedInv, GitInv, ChosenInv, place = "select",
         given' = given, config' = config, SkipProject
  PROVE  ChosenInv'
  <1> DEFINE filter == IF FindRelated /\ context \in Contexts THEN {} ELSE filters[context]
  <1>1. /\ context \in DOMAIN Executed(config) /\ context' = context + 1
        /\ chosen' = chosen /\ changed' = changed
        /\ context \notin Contexts \/ Wanted(context) = {}
    BY DEF SkipProject, Searching
  <1>2. /\ context \in Nat /\ context > 0 /\ context <= Len(Executed(config))
        /\ Contexts \subseteq Nat
    BY <1>1, ExecutedIsList
  <1>3. DOMAIN chosen = DOMAIN Executed(config) /\ DOMAIN filters = DOMAIN chosen
    BY <1>2 DEF ChosenInv
  <1>4. filter \in SUBSET Files /\ chosen[context] \in SUBSET Files
    BY <1>1, <1>3 DEF ChosenInv
  <1>5. /\ DOMAIN filters' = DOMAIN filters
        /\ \A i \in DOMAIN filters : filters'[i] = IF i = context THEN filter ELSE filters[i]
    BY DEF SkipProject
  <1>6. /\ DOMAIN chosen' = DOMAIN chosen
        /\ \A i \in DOMAIN chosen :
             chosen'[i] = IF i = context THEN chosen[context] ELSE chosen[i]
    BY <1>1
  <1>7. context \in Contexts => Candidates(context).tests \cap chosen[context] = AffectedTests(context)
    <2> SUFFICES ASSUME context \in Contexts
                 PROVE  chosen[context] = {} /\ AffectedTests(context) = {}
      OBVIOUS
    <2>1. chosen[context] = {}
      BY <1>2 DEF ChosenInv
    <2> QED BY <1>1, <2>1, NothingIsAffected
  <1>8. Narrowed
    BY <1>2 DEF ChosenInv
  <1> HIDE DEF filter
  <1> QED BY <1>1, <1>2, <1>4, <1>5, <1>6, <1>7, <1>8, OneMoreIsChosen

LEMMA FinishingIsChosen ==
  ASSUME LoadedInv, GitInv, ChosenInv, TiedInv, place = "select",
         given' = given, config' = config, FinishProject
  PROVE  ChosenInv'
  <1> DEFINE filter == IF FindRelated THEN Wanted(context) ELSE instrumented
  <1>1. /\ context \in DOMAIN Executed(config) /\ context' = context + 1
        /\ search = "done" /\ changed' = changed
        /\ DOMAIN chosen' = DOMAIN chosen /\ DOMAIN filters' = DOMAIN filters
        /\ \A i \in DOMAIN chosen : chosen'[i] = IF i = context THEN related ELSE chosen[i]
        /\ \A i \in DOMAIN filters : filters'[i] = IF i = context THEN filter ELSE filters[i]
    BY DEF FinishProject, Searching
  <1>2. context \in Nat /\ context > 0 /\ Contexts \subseteq Nat /\ Narrowed
    BY <1>1, ExecutedIsList DEF TiedInv
  <1>3. related \in SUBSET Files /\ filter \in SUBSET Files
    BY WantedAreFiles DEF TiedInv, SearchInv, RelatedTypeOK
  <1>4. related = AffectedTests(context)
    BY <1>1, SearchFindsAffected
  <1>5. AffectedTests(context) \subseteq Candidates(context).tests
    BY AffectedAre
  <1> HIDE DEF filter
  <1> QED BY <1>1, <1>2, <1>3, <1>4, <1>5, OneMoreIsChosen

LEMMA TiedStays ==
  ASSUME TiedInv, given' = given, config' = config, UNCHANGED relatedVars,
         search # "idle" => context' = context /\ changed' = changed
  PROVE  TiedInv'
  <1>1. SearchInv'
    BY StutterKeeps DEF TiedInv
  <1>2. UNCHANGED <<search, candidates, seeds, graph, complete>>
    BY DEF relatedVars
  <1>3. ASSUME search # "idle"
        PROVE  /\ Narrowed' /\ context \in Contexts' /\ Wanted(context)' # {}
               /\ candidates = Candidates(context)'.tests
               /\ seeds = Seeds(Wanted(context)', candidates)
               /\ graph = GraphOf(context)'
               /\ complete = given.syncResolver
    <2>1. context' = context
      BY <1>3
    <2>2. /\ Narrowed' = Narrowed /\ Contexts' = Contexts
          /\ Candidates(context)' = Candidates(context) /\ GraphOf(context)' = GraphOf(context)
          /\ Wanted(context)' = Wanted(context)
      <3>1. \A i : Candidates(i)' = Candidates(i) /\ GraphOf(i)' = GraphOf(i)
        BY ConfigStays
      <3>2. \A i : Wanted(i)' = Wanted(i)
        BY <1>3, ChoiceStays
      <3> QED BY <2>1, <3>1, <3>2, ConfigStays
    <2> QED BY <1>3, <2>2 DEF TiedInv
  <1> QED BY <1>1, <1>2, <1>3 DEF TiedInv

LEMMA ExpandingIsTied ==
  ASSUME TiedInv, given' = given, config' = config, Expand, UNCHANGED selectionVars
  PROVE  TiedInv'
  <1>1. SearchInv'
    BY ExpandKeeps DEF TiedInv
  <1>2. search = "expanding" /\ UNCHANGED <<candidates, seeds, graph, complete>>
    BY DEF Expand
  <1>3. context' = context /\ changed' = changed
    BY DEF selectionVars
  <1>4. /\ Narrowed /\ context \in Contexts /\ Wanted(context) # {}
        /\ candidates = Candidates(context).tests
        /\ seeds = Seeds(Wanted(context), candidates)
        /\ graph = GraphOf(context)
        /\ complete = given.syncResolver
    BY <1>2 DEF TiedInv
  <1>5. /\ Narrowed' = Narrowed /\ Contexts' = Contexts
        /\ Candidates(context)' = Candidates(context) /\ GraphOf(context)' = GraphOf(context)
        /\ Wanted(context)' = Wanted(context)
    <2>1. \A i : Candidates(i)' = Candidates(i) /\ GraphOf(i)' = GraphOf(i)
      BY ConfigStays
    <2>2. \A i : Wanted(i)' = Wanted(i)
      BY <1>3, ChoiceStays
    <2> QED BY <1>3, <2>1, <2>2, ConfigStays
  <1> QED BY <1>1, <1>2, <1>3, <1>4, <1>5 DEF TiedInv

\* A project's search begins with its changes, its tests and its graph.
LEMMA SearchingIsTied ==
  ASSUME LoadedInv, GitInv, ChosenInv, TiedInv, place = "select",
         given' = given, config' = config, SearchProject
  PROVE  TiedInv'
  <1> DEFINE tests == Candidates(context).tests
  <1>1. /\ context \in DOMAIN Executed(config) /\ context \in Contexts /\ Wanted(context) # {}
        /\ UNCHANGED selectionVars
        /\ StartSearch(Wanted(context), tests, GraphOf(context), given.syncResolver)
    BY DEF SearchProject, Searching, GraphOf, Roots
  <1>2. /\ Wanted(context) \in SUBSET Files /\ tests \in SUBSET Files
        /\ given.syncResolver \in BOOLEAN
    BY WantedAreFiles, CandidatesAreFiles, ScenarioAssumption DEF LoadedInv, IsScenario
  <1>3. SearchInv'
    <2>1. GraphOf(context) \in [DOMAIN GraphOf(context) -> SUBSET Files]
          /\ DOMAIN GraphOf(context) \in SUBSET Files
      BY GraphIsOfFiles
    <2> QED BY <1>1, <1>2, <2>1, StartKeeps DEF TiedInv
  <1>4. /\ graph' = GraphOf(context) /\ complete' = given.syncResolver
        /\ candidates' = tests /\ seeds' = Seeds(Wanted(context), tests)
    BY <1>1 DEF StartSearch
  <1>5. context' = context /\ changed' = changed
    BY <1>1 DEF selectionVars
  <1>6. Narrowed
    <2>1. 0 < context /\ context <= Len(Executed(config))
      BY <1>1, ExecutedIsList
    <2> QED BY <2>1 DEF ChosenInv
  <1>7. /\ Narrowed' = Narrowed /\ Contexts' = Contexts
        /\ Candidates(context)' = Candidates(context) /\ GraphOf(context)' = GraphOf(context)
        /\ Wanted(context)' = Wanted(context)
    <2>1. \A i : Candidates(i)' = Candidates(i) /\ GraphOf(i)' = GraphOf(i)
      BY ConfigStays
    <2>2. \A i : Wanted(i)' = Wanted(i)
      BY <1>5, ChoiceStays
    <2> QED BY <1>5, <2>1, <2>2, ConfigStays
  <1> QED BY <1>1, <1>3, <1>4, <1>5, <1>6, <1>7 DEF TiedInv

LEMMA FinishingIsTied ==
  ASSUME TiedInv, FinishProject
  PROVE  TiedInv'
  <1>1. search' = "idle"
        /\ UNCHANGED <<graph, complete, candidates, seeds, frontier, visited, related, instrumented>>
    BY DEF FinishProject
  <1>2. SearchInv'
    BY <1>1 DEF TiedInv, SearchInv, RelatedTypeOK, SearchIsSound, WholeOrDone
  <1> QED BY <1>1, <1>2 DEF TiedInv

LEMMA SelectKeepsChosen ==
  ASSUME LoadedInv, GitInv, ChosenInv, TiedInv, Select
  PROVE  ChosenInv' /\ TiedInv'
  <1>1. given' = given /\ config' = config /\ place = "select"
    BY DEF Select
  <1>2. CASE AskGit
    <2>1. UNCHANGED <<chosen, filters, context, relatedVars>>
      BY <1>2 DEF AskGit
    <2>2. context = 0
      BY <1>2 DEF AskGit, GitInv
    <2>3. search = "idle"
      BY <1>1, <2>2, ExecutedIsList DEF TiedInv
    <2> QED BY <1>1, <2>1, <2>2, <2>3, ChosenStays, TiedStays
  <1>3. CASE NoSearch \/ BeginSearch
    <2>1. changed' = changed /\ UNCHANGED relatedVars /\ context = 0
      BY <1>3 DEF NoSearch, BeginSearch
    <2>2. search = "idle"
      BY <1>1, <2>1, ExecutedIsList DEF TiedInv
    <2> QED BY <1>1, <1>3, <2>1, <2>2, BeginningIsChosen, TiedStays
  <1>4. CASE SkipProject
    <2>1. search = "idle" /\ UNCHANGED relatedVars
      BY <1>4 DEF SkipProject
    <2> QED BY <1>1, <1>4, <2>1, SkippingIsChosen, TiedStays
  <1>5. CASE SearchProject
    <2>1. UNCHANGED <<chosen, filters, context, changed>>
      BY <1>5 DEF SearchProject, selectionVars
    <2> QED BY <1>1, <1>5, <2>1, ChosenStays, SearchingIsTied
  <1>6. CASE ExpandSearch
    <2>1. UNCHANGED <<chosen, filters, context, changed>>
      BY <1>6 DEF ExpandSearch, selectionVars
    <2> QED BY <1>1, <1>6, <2>1, ChosenStays, ExpandingIsTied DEF ExpandSearch
  <1>7. CASE FinishProject
    BY <1>1, <1>7, FinishingIsChosen, FinishingIsTied
  <1> QED BY <1>2, <1>3, <1>4, <1>5, <1>6, <1>7 DEF Select, SelectStep

LEMMA LoadKeepsChosen ==
  ASSUME LoadedInv, ChosenInv, TiedInv, LoadConfiguration
  PROVE  ChosenInv' /\ TiedInv'
  <1>1. context = 0 /\ search = "idle" /\ UNCHANGED <<selectionVars, relatedVars>>
    BY DEF LoadConfiguration, LoadedInv, otherVars
  <1>2. UNCHANGED <<chosen, filters, context, search>>
    BY <1>1 DEF selectionVars, relatedVars
  <1>3. ChosenInv'
    BY <1>1, <1>2 DEF ChosenInv
  <1>4. SearchInv'
    BY <1>1, StutterKeeps DEF TiedInv
  <1>5. TiedInv'
    BY <1>1, <1>2, <1>4 DEF TiedInv
  <1> QED BY <1>3, <1>5

LEMMA ChosenStep ==
  ASSUME LoadedInv, GitInv, ChosenInv, TiedInv, Next
  PROVE  ChosenInv' /\ TiedInv'
  <1>1. CASE LoadConfiguration
    BY <1>1, LoadKeepsChosen
  <1>2. CASE Select
    BY <1>2, SelectKeepsChosen
  <1>3. ASSUME NEW f \in Files, StageMeanwhile(f)
        PROVE  ChosenInv' /\ TiedInv'
    <2>1. /\ given' = given /\ config' = config
          /\ UNCHANGED <<chosen, filters, context, changed, relatedVars>>
      BY <1>3 DEF StageMeanwhile, Stage
    <2> QED BY <2>1, ChosenStays, TiedStays
  <1>4. CASE Later
    <2>1. /\ given' = given /\ config' = config
          /\ UNCHANGED <<chosen, filters, context, changed, relatedVars>>
      BY <1>4, LaterKeeps DEF selectionVars
    <2> QED BY <2>1, ChosenStays, TiedStays
  <1> QED BY <1>1, <1>2, <1>3, <1>4, StepParts
-----------------------------------------------------------------------------
\* What the pools do to the snapshot files.

LEMMA PoolsInit == Init => PoolsInv
  <1> SUFFICES ASSUME Init PROVE PoolsInv
    OBVIOUS
  <1>1. SnapshotInit(Update, given.snapshots) /\ Update \in Updates
        /\ given.snapshots \in [Suites -> Contents]
    BY ScenarioAssumption DEF Init, IsScenario, Update, Updates
  <1>2. FilesInv
    BY <1>1, FilesInit
  <1>3. SnapshotsSettled /\ Broken = {}
    BY <1>1 DEF SnapshotInit, SnapshotsSettled, Broken
  <1> QED BY <1>2, <1>3 DEF PoolsInv

LEMMA PoolsStay ==
  ASSUME PoolsInv, UNCHANGED snapshotVars,
         place' \notin {"pool", "over"} => SnapshotsSettled /\ Broken = {}
  PROVE  PoolsInv'
  <1>1. FilesInv'
    BY FilesStutter DEF PoolsInv
  <1>2. SnapshotsSettled' = SnapshotsSettled /\ Broken' = Broken
    BY DEF snapshotVars, SnapshotsSettled, Broken
  <1> QED BY <1>1, <1>2 DEF PoolsInv

LEMMA PoolsStep ==
  ASSUME PoolsInv, Next
  PROVE  PoolsInv'
  <1> USE DEF otherVars, Exit, Fail, Continue, Finish
  <1>1. CASE LoadConfiguration \/ Select \/ (\E f \in Files : StageMeanwhile(f))
             \/ (\E d \in todo : ClearCache(d)) \/ CachesCleared \/ SelectionError \/ Plan
             \/ Merged \/ WriteReports \/ EmitResults
    <2>1. UNCHANGED snapshotVars /\ place \notin {"pool", "over"}
      BY <1>1 DEF LoadConfiguration, Select, StageMeanwhile, ClearCache, CachesCleared,
                  SelectionError, Plan, Merged, WriteReports, EmitResults
    <2> QED BY <2>1, PoolsStay DEF PoolsInv
  <1>2. ASSUME NEW i, NEW tests \in SUBSET Suites, NEW f, StartProject(i, tests, f)
        PROVE  PoolsInv'
    <2>1. place = "projects"
      BY <1>2 DEF StartProject
    <2>2. CASE cli.provider \in {"babel", "v8"}
      <3>1. StartPool(tests) /\ place' = "pool"
        BY <1>2, <2>2 DEF StartProject
      <3> QED BY <2>1, <3>1, FilesStart DEF PoolsInv
    <2>3. CASE cli.provider \notin {"babel", "v8"}
      <3>1. UNCHANGED snapshotVars
        BY <1>2, <2>3 DEF StartProject
      <3> QED BY <2>1, <3>1, PoolsStay DEF PoolsInv
    <2> QED BY <2>2, <2>3
  <1>3. ASSUME NEW s \in Suites, RunSuite(s)
        PROVE  PoolsInv'
    <2>1. SnapshotStep(s) /\ place' = "pool"
      BY <1>3 DEF RunSuite
    <2> QED BY <2>1, FilesStep DEF PoolsInv
  <1>4. CASE EndProject
    <2>1. UNCHANGED snapshotVars /\ SnapshotsSettled /\ (place' # "over" => Broken = {})
      BY <1>4 DEF EndProject
    <2> QED BY <2>1, PoolsStay
  <1> QED BY <1>1, <1>2, <1>3, <1>4, StepParts DEF Later
-----------------------------------------------------------------------------
\* What results there are.

LEMMA UnitsAre == Units \subseteq Contexts \X Files
  BY DEF Units

LEMMA SettingsNarrow ==
  ASSUME NEW wanted, NEW configured, NEW sources \in SUBSET Files, NEW changes \in SUBSET Files,
         NEW tests, NEW findRelated
  PROVE  LET settings == Settings(wanted, configured, sources, changes, tests, findRelated, Files)
         IN settings.filter \subseteq Files /\ settings.sources \subseteq Files
  BY DEF Settings

LEMMA SettingsOfFiles ==
  ASSUME ChosenInv, context > 0, NEW i \in Contexts
  PROVE  SettingsOf(i).filter \subseteq Files /\ SettingsOf(i).sources \subseteq Files
  <1>1. filters[i] \subseteq Files
    BY DEF ChosenInv, Contexts
  <1>2. \A root, from, ignored, excluded, present :
          Sources(root, from, ignored, excluded, present) \subseteq present
    BY DEF Sources
  <1> DEFINE p == Executed(config)[i]
             own == Discover(p, {}, FALSE, Present, given.tree.directories).tests
             below == {f \in Present : BelowRoots(f, i)}
             sources == Sources(config.root, given.from, given.uncovered, own \cup given.setup, below)
  <1>4. sources \in SUBSET Files
    BY <1>2, PresentAreFiles
  <1>5. SettingsOf(i) = Settings(Collecting, given.from # NoPatterns, sources, filters[i], own,
                                 FindRelated, Files)
    BY DEF SettingsOf
  <1> HIDE DEF sources, own
  <1> QED BY <1>1, <1>4, <1>5, SettingsNarrow

LEMMA InstrumentedAreFiles ==
  ASSUME ChosenInv, context > 0, current \in Contexts, NEW s
  PROVE  DOMAIN Instrumented(s) \subseteq Files
  <1>1. SettingsOf(current).filter \subseteq Files /\ SettingsOf(current).sources \subseteq Files
    BY SettingsOfFiles
  <1> QED BY <1>1 DEF Instrumented, NoRecords

LEMMA PooledStays ==
  ASSUME SnapshotTypeOK, NEW s \in Suites, SnapshotStep(s), current' = current
  PROVE  Pooled' = Pooled
  <1>1. \A x \in Suites \ {s} : step'[x] = step[x]
    BY OthersKeep DEF Others
  <1>2. step[s] # "idle" /\ step'[s] # "idle"
    BY DEF SnapshotTypeOK, SnapshotStep, Load, Return, Persist_Begin, Open, Fill, Unlink, ListFolder,
           RemoveFolder, Go
  <1> QED BY <1>1, <1>2 DEF Pooled

LEMMA ResultsInit == Init => ResultsInv
  BY DEF Init, ResultsInv, ResultsType, NoResults

LEMMA LoadKeepsResults ==
  ASSUME LoadedInv, ResultsInv, LoadConfiguration
  PROVE  ResultsInv'
  <1>1. /\ place = "load" /\ UNCHANGED <<given, crashed, results>>
        /\ place' \in {"over", "clear", "select"}
        /\ place' = "clear" => cli'.clearCache /\ ~cli'.showConfig
        /\ place' = "select" => ~cli'.clearCache /\ ~cli'.showConfig /\ todo' = todo
    BY DEF LoadConfiguration, otherVars, Exit, Fail, Continue, cli
  <1>2. todo = {} /\ DOMAIN results = {} /\ crashed \subseteq Suites
    BY <1>1 DEF ResultsInv, ResultsType, LoadedInv
  <1> QED BY <1>1, <1>2 DEF ResultsInv, ResultsType

LEMMA TypeStays ==
  ASSUME ResultsType, given' = given, config' = config, UNCHANGED <<crashed, results>>
  PROVE  ResultsType'
  BY ConfigStays DEF ResultsType

LEMMA SelectKeepsResults ==
  ASSUME ResultsInv, Select \/ \E f \in Files : StageMeanwhile(f)
  PROVE  ResultsInv'
  <1>1. /\ place = "select" /\ place' = "select"
        /\ UNCHANGED <<given, config, todo, crashed, results>>
    BY DEF Select, StageMeanwhile, Continue, runVars
  <1>2. ResultsType'
    BY <1>1, TypeStays DEF ResultsInv
  <1> QED BY <1>1, <1>2 DEF ResultsInv, cli

LEMMA PlanKeepsResults ==
  ASSUME LoadedInv, GitInv, ResultsInv, Plan
  PROVE  ResultsInv'
  <1>1. UNCHANGED <<given, config, chosen, context>>
    BY LaterKeeps DEF Later, selectionVars
  <1>2. /\ place = "select" /\ UNCHANGED <<crashed, results>>
        /\ context > Len(Executed(config))
        /\ \/ place' = "over"
           \/ place' = "projects" /\ todo' = Units /\ ~cli.listTests
           \/ place' = "emit" /\ Units = {} /\ ~cli.listTests
    BY DEF Plan, Exit, Fail, Continue, SelectionDone
  <1>3. /\ DOMAIN results = {} /\ todo = {} /\ ~cli.clearCache /\ ~cli.showConfig
    BY <1>2 DEF ResultsInv
  <1>4. ResultsType'
    BY <1>1, <1>2, TypeStays DEF ResultsInv
  <1>5. Units' = Units /\ Executed(config)' = Executed(config) /\ cli' = cli
    BY <1>1, UnitsStay, ConfigStays DEF cli
  <1>6. context' > Len(Executed(config)')
    BY <1>1, <1>2, <1>5
  <1> QED BY <1>1, <1>2, <1>3, <1>4, <1>5, <1>6 DEF ResultsInv

\* A step behind the plan that leaves the results as they are.
LEMMA ResultsStay ==
  ASSUME ResultsInv, given' = given, config' = config, UNCHANGED <<chosen, context, results>>,
         crashed' \subseteq Suites,
         place' \in {"over", "clear", "projects", "pool", "reports", "emit"},
         place' = "clear" => place = "clear",
         place' \in {"projects", "pool", "reports", "emit"} =>
           place \in {"projects", "pool", "reports", "emit"},
         place' = "projects" => DOMAIN results \cup todo' = Units,
         place' = "pool" => DOMAIN results \cup todo' \cup Pooled' = Units,
         place' \in {"reports", "emit"} => DOMAIN results = Units
  PROVE  ResultsInv'
  <1>1. ResultsType'
    BY ConfigStays DEF ResultsInv, ResultsType
  <1>2. Units' = Units /\ Executed(config)' = Executed(config) /\ cli' = cli
    BY UnitsStay, ConfigStays DEF cli
  <1> QED BY <1>1, <1>2 DEF ResultsInv

LEMMA StartKeepsResults ==
  ASSUME ResultsInv, NEW i, NEW tests \in SUBSET Suites, NEW f, StartProject(i, tests, f)
  PROVE  ResultsInv'
  <1>1. /\ given' = given /\ config' = config /\ UNCHANGED <<chosen, context, results>>
        /\ place = "projects" /\ {i} \X tests \subseteq todo
    BY DEF StartProject, selectionVars
  <1>2. DOMAIN results \cup todo = Units /\ crashed \subseteq Suites
    BY <1>1 DEF ResultsInv, ResultsType
  <1>3. CASE cli.provider \in {"babel", "v8"}
    <2>1. /\ StartPool(tests) /\ place' = "pool" /\ crashed' = {} /\ current' = i
          /\ todo' = todo \ ({i} \X tests)
      BY <1>3 DEF StartProject, Continue
    <2>2. Pooled' = {i} \X tests
      BY <2>1 DEF Pooled, StartPool
    <2>3. DOMAIN results \cup todo' \cup Pooled' = Units
      BY <1>1, <1>2, <2>1, <2>2
    <2> QED BY <1>1, <2>1, <2>3, ResultsStay
  <1>4. CASE cli.provider \notin {"babel", "v8"}
    <2>1. place' = "over" /\ crashed' = crashed
      BY <1>4 DEF StartProject, Fail, Exit
    <2> QED BY <1>1, <1>2, <2>1, ResultsStay
  <1> QED BY <1>3, <1>4

LEMMA RunKeepsResults ==
  ASSUME PoolsInv, ResultsInv, NEW s \in Suites, RunSuite(s)
  PROVE  ResultsInv'
  <1>1. /\ given' = given /\ config' = config /\ UNCHANGED <<chosen, context, results, todo, current>>
        /\ place = "pool" /\ place' = "pool" /\ SnapshotStep(s)
        /\ crashed' \subseteq crashed \cup {s}
    BY DEF RunSuite, Continue, selectionVars
  <1>2. Pooled' = Pooled
    BY <1>1, PooledStays DEF PoolsInv, FilesInv
  <1>3. DOMAIN results \cup todo' \cup Pooled' = Units /\ crashed' \subseteq Suites
    BY <1>1, <1>2 DEF ResultsInv, ResultsType
  <1> QED BY <1>1, <1>3, ResultsStay

\* Without an error every test of the pool has a result.
LEMMA EndKeepsResults ==
  ASSUME LoadedInv, GitInv, ChosenInv, ResultsInv, EndProject
  PROVE  ResultsInv'
  <1>1. /\ given' = given /\ config' = config /\ UNCHANGED <<chosen, context, todo, crashed>>
        /\ place = "pool" /\ SnapshotsSettled
    BY DEF EndProject, otherVars, selectionVars
  <1>2. /\ DOMAIN results \cup todo \cup Pooled = Units /\ crashed \subseteq Suites
        /\ context > Len(Executed(config))
    BY <1>1 DEF ResultsInv, ResultsType
  <1>3. CASE Broken # {}
    <2>1. place' = "over" /\ results' = results
      BY <1>3 DEF EndProject, Fail, Exit
    <2> QED BY <1>1, <1>2, <2>1, ResultsStay
  <1>4. CASE Broken = {}
    <2> DEFINE done == {current} \X {s \in Suites : step[s] = "done"}
               ended == [u \in done |->
                           [outcome |-> IF u[2] \in crashed THEN "error"
                                        ELSE IF u[2] \in given.failing THEN "failed" ELSE "passed",
                            coverage |-> Instrumented(u[2])]]
    <2>1. place' = "projects" /\ results' = Over(results, ended)
      BY <1>4 DEF EndProject, Continue
    <2>2. done = Pooled
      BY <1>1, <1>4 DEF SnapshotsSettled, Broken, Pooled
    <2>3. DOMAIN ended = done
      OBVIOUS
    <2>4. \A u \in done : /\ ended[u].outcome \in Outcomes
                          /\ ended[u].coverage = Instrumented(u[2])
      BY DEF Outcomes
    <2> HIDE DEF done, ended
    <2>5. /\ DOMAIN results' = DOMAIN results \cup done
          /\ \A u \in DOMAIN results : results'[u] = results[u]
          /\ \A u \in done \ DOMAIN results : results'[u] = ended[u]
      BY <2>1, <2>3 DEF Over
    <2>6. DOMAIN results' \cup todo = Units
      BY <1>2, <2>2, <2>5
    <2>7. \A u \in done : u[1] \in Contexts /\ u[2] \in Files /\ current \in Contexts
      BY <1>2, <2>2, UnitsAre DEF Pooled
    <2>8. ASSUME NEW u \in done \ DOMAIN results
          PROVE  DOMAIN results'[u].coverage \subseteq Files
      <3>1. current \in Contexts /\ context > 0
        BY <1>1, <1>2, <2>7, ExecutedIsList DEF GitInv
      <3>2. DOMAIN Instrumented(u[2]) \subseteq Files
        BY <3>1, InstrumentedAreFiles
      <3> QED BY <2>4, <2>5, <3>2
    <2>9. \A u \in DOMAIN results' :
            /\ u[1] \in Contexts /\ u[2] \in Files
            /\ results'[u].outcome \in Outcomes
            /\ DOMAIN results'[u].coverage \subseteq Files
      <3> SUFFICES ASSUME NEW u \in DOMAIN results'
                   PROVE  /\ u[1] \in Contexts /\ u[2] \in Files
                          /\ results'[u].outcome \in Outcomes
                          /\ DOMAIN results'[u].coverage \subseteq Files
        OBVIOUS
      <3>1. CASE u \in DOMAIN results
        BY <2>5, <3>1 DEF ResultsInv, ResultsType
      <3>2. CASE u \in done \ DOMAIN results
        BY <2>4, <2>5, <2>7, <2>8, <3>2
      <3> QED BY <2>5, <3>1, <3>2
    <2>10. ResultsType'
      BY <1>1, <1>2, <2>9, ConfigStays DEF ResultsType
    <2>11. Units' = Units /\ Executed(config)' = Executed(config) /\ cli' = cli
      BY <1>1, UnitsStay, ConfigStays DEF cli
    <2> QED BY <1>1, <2>1, <2>6, <2>10, <2>11 DEF ResultsInv
  <1> QED BY <1>3, <1>4

LEMMA ResultsStep ==
  ASSUME LoadedInv, GitInv, ChosenInv, PoolsInv, ResultsInv, Next
  PROVE  ResultsInv'
  <1> USE DEF Exit, Fail, Continue, Finish, otherVars
  <1>1. CASE LoadConfiguration
    BY <1>1, LoadKeepsResults
  <1>2. CASE Select \/ \E f \in Files : StageMeanwhile(f)
    BY <1>2, SelectKeepsResults
  <1>3. ASSUME NEW d \in todo, ClearCache(d)
        PROVE  ResultsInv'
    <2>1. /\ given' = given /\ config' = config /\ UNCHANGED <<chosen, context, results, crashed>>
          /\ place = "clear" /\ place' \in {"over", "clear"}
      BY <1>3 DEF ClearCache, selectionVars
    <2> QED BY <2>1, ResultsStay DEF ResultsInv, ResultsType
  <1>4. CASE CachesCleared \/ SelectionError
    <2>1. /\ given' = given /\ config' = config /\ UNCHANGED <<chosen, context, results, crashed>>
          /\ place' = "over"
      BY <1>4 DEF CachesCleared, SelectionError, selectionVars, runVars
    <2> QED BY <2>1, ResultsStay DEF ResultsInv, ResultsType
  <1>5. CASE Plan
    BY <1>5, PlanKeepsResults
  <1>6. ASSUME NEW i, NEW tests \in SUBSET Suites, NEW f, StartProject(i, tests, f)
        PROVE  ResultsInv'
    BY <1>6, StartKeepsResults
  <1>7. ASSUME NEW s \in Suites, RunSuite(s)
        PROVE  ResultsInv'
    BY <1>7, RunKeepsResults
  <1>8. CASE EndProject
    BY <1>8, EndKeepsResults
  <1>9. CASE Merged \/ WriteReports \/ EmitResults
    <2>1. /\ given' = given /\ config' = config /\ UNCHANGED <<chosen, context, results, crashed>>
          /\ \/ place = "projects" /\ todo = {} /\ place' \in {"over", "reports", "emit"}
             \/ place = "reports" /\ place' \in {"over", "emit"}
             \/ place = "emit" /\ place' = "over"
      BY <1>9 DEF Merged, WriteReports, EmitResults, selectionVars
    <2>2. place' \in {"reports", "emit"} => DOMAIN results = Units
      BY <2>1 DEF ResultsInv
    <2> QED BY <2>1, <2>2, ResultsStay DEF ResultsInv, ResultsType
  <1> QED BY <1>1, <1>2, <1>3, <1>4, <1>5, <1>6, <1>7, <1>8, <1>9, StepParts DEF Later
-----------------------------------------------------------------------------
\* What coverage is made of.

LEMMA CoverInit == Init => CoverInv
  BY DEF Init, CoverInv, NoResults

\* A step that leaves the results as they are, and what was made of them.
LEMMA CoverStays ==
  ASSUME CoverInv, results' = results,
         place' = "reports" => place = "reports" /\ merged' = merged,
         place' = "emit" => \/ DOMAIN results = {}
                            \/ /\ place = "emit" /\ given' = given /\ config' = config
                               /\ merged' = merged /\ unmet' = unmet
  PROVE  CoverInv'
  <1>1. Coverages' = Coverages
    BY DEF Coverages
  <1>2. CASE place' # "emit" \/ DOMAIN results = {}
    BY <1>1, <1>2 DEF CoverInv
  <1>3. CASE place' = "emit" /\ DOMAIN results # {}
    <2>1. Collecting' = Collecting /\ Thresholds' = Thresholds
      BY <1>3 DEF Collecting, Thresholds, cli
    <2> QED BY <1>1, <1>3, <2>1 DEF CoverInv
  <1> QED BY <1>2, <1>3

\* The records of a worker.
LEMMA InstrumentedIsRecords ==
  ASSUME given \in Scenarios, NEW s
  PROVE  \A f \in DOMAIN Instrumented(s) : IsRecord(Instrumented(s)[f])
  <1> DEFINE settings == SettingsOf(current)
             code == Option(given.points, current, NoRecords)
             loaded == {f \in DOMAIN given.hits[s] \cap DOMAIN code \cap settings.filter :
                          f \notin given.setup \cup {s} /\ ~MatchesAny(given.uncovered, f)}
             alone == IF s = first /\ cli.provider = "babel"
                      THEN (settings.sources \cap DOMAIN code) \ loaded ELSE {}
  <1>1. \A f \in DOMAIN code : IsFiniteSet(code[f])
    <2>1. CASE current \in DOMAIN given.points
      BY <2>1, ScenarioAssumption DEF IsScenario, Option
    <2>2. CASE current \notin DOMAIN given.points
      BY <2>2 DEF Option, NoRecords
    <2> QED BY <2>1, <2>2
  <1>2. loaded \subseteq DOMAIN code /\ alone \subseteq DOMAIN code
    OBVIOUS
  <1>3. Instrumented(s) =
          IF ~settings.enabled \/ s \in crashed THEN NoRecords
          ELSE [f \in loaded \cup alone |->
                  IF f \in loaded THEN [points |-> code[f], hit |-> given.hits[s][f] \cap code[f]]
                  ELSE Unhit(code[f])]
    BY DEF Instrumented
  <1> HIDE DEF settings, code, loaded, alone
  <1>4. DOMAIN NoRecords = {}
    BY DEF NoRecords
  <1>5. ASSUME NEW f \in DOMAIN code
        PROVE  /\ IsRecord([points |-> code[f], hit |-> given.hits[s][f] \cap code[f]])
               /\ IsRecord(Unhit(code[f]))
    BY <1>1, <1>5 DEF IsRecord, Unhit
  <1> QED BY <1>2, <1>3, <1>4, <1>5

LEMMA EndKeepsCover ==
  ASSUME given \in Scenarios, CoverInv, EndProject
  PROVE  CoverInv'
  <1>1. CASE Broken # {}
    BY <1>1, CoverStays DEF EndProject, Fail, Exit
  <1>2. CASE Broken = {}
    <2> DEFINE done == {current} \X {s \in Suites : step[s] = "done"}
               ended == [u \in done |->
                           [outcome |-> IF u[2] \in crashed THEN "error"
                                        ELSE IF u[2] \in given.failing THEN "failed" ELSE "passed",
                            coverage |-> Instrumented(u[2])]]
    <2>1. place' = "projects" /\ results' = Over(results, ended)
      BY <1>2 DEF EndProject, Continue
    <2>2. DOMAIN ended = done /\ \A u \in done : ended[u].coverage = Instrumented(u[2])
      OBVIOUS
    <2> HIDE DEF done, ended
    <2>3. /\ DOMAIN results' = DOMAIN results \cup done
          /\ \A u \in DOMAIN results : results'[u] = results[u]
          /\ \A u \in done \ DOMAIN results : results'[u] = ended[u]
      BY <2>1, <2>2 DEF Over
    <2>4. ASSUME NEW u \in DOMAIN results', NEW f \in DOMAIN results'[u].coverage
          PROVE  IsRecord(results'[u].coverage[f])
      <3>1. CASE u \in DOMAIN results
        BY <2>3, <2>4, <3>1 DEF CoverInv
      <3>2. CASE u \in done \ DOMAIN results
        <4>1. results'[u].coverage = Instrumented(u[2])
          BY <2>2, <2>3, <3>2
        <4> QED BY <4>1, InstrumentedIsRecords
      <3> QED BY <2>3, <3>1, <3>2
    <2> QED BY <2>1, <2>4 DEF CoverInv
  <1> QED BY <1>1, <1>2

\* The tests of all projects are finitely many.
LEMMA UnitsAreFinite ==
  ASSUME LoadedInv, place \notin {"load", "over"}
  PROVE  IsFiniteSet(Units)
  <1>1. Len(Executed(config)) \in Nat /\ Contexts \subseteq 1 .. Len(Executed(config))
    BY ExecutedIsList
  <1>2. IsFiniteSet(Contexts)
    <2>1. IsFiniteSet(1 .. Len(Executed(config)))
      BY <1>1, FS_Interval
    <2> QED BY <1>1, <2>1, FS_Subset
  <1>3. IsFiniteSet(Contexts \X Files)
    BY <1>2, RelatedAssumption, FS_Product
  <1> QED BY <1>3, UnitsAre, FS_Subset

LEMMA MergeKeepsCover ==
  ASSUME LoadedInv, ResultsInv, CoverInv, Merged
  PROVE  CoverInv'
  <1> DEFINE units == SetToSeq(DOMAIN results)
             n == Cardinality(DOMAIN results)
             maps == [k \in DOMAIN units |-> results[units[k]].coverage]
             all == MergeMaps(maps)
  <1>1. /\ place = "projects" /\ todo = {} /\ results' = results
        /\ IF all.error # "none" THEN Fail /\ UNCHANGED merged
           ELSE merged' = all.map /\ Continue(IF Collecting THEN "reports" ELSE "emit")
        /\ given' = given /\ config' = config
    BY DEF Merged, otherVars
  <1>2. IsFiniteSet(DOMAIN results)
    BY <1>1, UnitsAreFinite DEF ResultsInv
  <1>3. /\ n \in Nat /\ units \in [1 .. n -> DOMAIN results]
        /\ DOMAIN results = {units[k] : k \in 1 .. n}
    BY <1>2, ListOfSet
  <1> HIDE DEF units, n
  <1>4. DOMAIN maps = 1 .. n /\ Len(maps) = n
    <2> DEFINE some == {maps[k] : k \in 1 .. n}
    <2>1. maps \in [1 .. n -> some]
      BY <1>3
    <2> HIDE DEF maps, some
    <2>2. maps \in Seq(some)
      BY <1>3, <2>1
    <2> QED BY <1>3, <2>1, <2>2
  <1>5. \A k \in 1 .. n : maps[k] = Coverages[units[k]]
    BY <1>3 DEF Coverages
  <1> HIDE DEF maps
  <1>6. all.error = "none" => Joins(all.map, maps, 1 .. n)
    BY <1>3, <1>4, MergedJoins
  <1> HIDE DEF all
  <1>7. ASSUME all.error = "none" PROVE Joins(all.map, Coverages, DOMAIN results)
    <2>1. Joins(all.map, maps, 1 .. n)
      BY <1>6, <1>7
    <2>2. DOMAIN all.map = UNION {DOMAIN Coverages[u] : u \in DOMAIN results}
      <3>1. DOMAIN all.map = UNION {DOMAIN maps[k] : k \in 1 .. n}
        BY <2>1 DEF Joins
      <3>2. ASSUME NEW u \in DOMAIN results
            PROVE  \E k \in 1 .. n : maps[k] = Coverages[u]
        <4>1. PICK k \in 1 .. n : units[k] = u
          BY <1>3
        <4> QED BY <1>5, <4>1
      <3>3. ASSUME NEW k \in 1 .. n
            PROVE  \E u \in DOMAIN results : maps[k] = Coverages[u]
        BY <1>3, <1>5
      <3> QED BY <3>1, <3>2, <3>3
    <2>3. ASSUME NEW f \in DOMAIN all.map, NEW u \in DOMAIN results, f \in DOMAIN Coverages[u]
          PROVE  Coverages[u][f].points = all.map[f].points
      <3>1. PICK k \in 1 .. n : units[k] = u
        BY <1>3
      <3>2. maps[k] = Coverages[u]
        BY <1>5, <3>1
      <3> QED BY <2>1, <2>3, <3>2 DEF Joins
    <2>4. ASSUME NEW f \in DOMAIN all.map
          PROVE  all.map[f].hit = UNION {Coverages[u][f].hit :
                                           u \in {v \in DOMAIN results : f \in DOMAIN Coverages[v]}}
      <3>1. all.map[f].hit = UNION {maps[k][f].hit : k \in {j \in 1 .. n : f \in DOMAIN maps[j]}}
        BY <2>1 DEF Joins
      <3>2. ASSUME NEW p, p \in all.map[f].hit
            PROVE  \E u \in DOMAIN results : f \in DOMAIN Coverages[u] /\ p \in Coverages[u][f].hit
        <4>1. PICK k \in 1 .. n : f \in DOMAIN maps[k] /\ p \in maps[k][f].hit
          BY <3>1, <3>2
        <4> QED BY <1>3, <1>5, <4>1
      <3>3. ASSUME NEW p, NEW u \in DOMAIN results, f \in DOMAIN Coverages[u],
                   p \in Coverages[u][f].hit
            PROVE  p \in all.map[f].hit
        <4>1. PICK k \in 1 .. n : units[k] = u
          BY <1>3
        <4> QED BY <1>5, <3>1, <3>3, <4>1
      <3> QED BY <3>2, <3>3
    <2> QED BY <2>2, <2>3, <2>4 DEF Joins
  <1>8. Coverages' = Coverages /\ Collecting' = Collecting
    BY <1>1 DEF Coverages, Collecting, cli
  <1>9. CASE all.error # "none"
    <2>1. place' = "over"
      BY <1>1, <1>9 DEF Fail, Exit
    <2> QED BY <1>1, <2>1, CoverStays
  <1>10. CASE all.error = "none"
    <2>1. merged' = all.map /\ place' = IF Collecting THEN "reports" ELSE "emit"
      BY <1>1, <1>10 DEF Continue
    <2> QED BY <1>1, <1>7, <1>8, <1>10, <2>1 DEF CoverInv
  <1> QED BY <1>9, <1>10

LEMMA ReportsKeepCover ==
  ASSUME CoverInv, WriteReports
  PROVE  CoverInv'
  <1>1. /\ place = "reports" /\ results' = results /\ merged' = merged
        /\ given' = given /\ config' = config
        /\ \/ place' = "over"
           \/ place' = "emit" /\ unmet' = Failures(Thresholds, merged)
    BY DEF WriteReports, otherVars, Fail, Exit, Continue
  <1>2. Coverages' = Coverages /\ Thresholds' = Thresholds
    BY <1>1 DEF Coverages, Thresholds
  <1> QED BY <1>1, <1>2 DEF CoverInv

LEMMA CoverStep ==
  ASSUME LoadedInv, ResultsInv, CoverInv, Next
  PROVE  CoverInv'
  <1> USE DEF Exit, Fail, Continue, Finish
  <1>1. CASE LoadConfiguration
    BY <1>1, CoverStays DEF LoadConfiguration
  <1>2. CASE Select \/ \E f \in Files : StageMeanwhile(f)
    <2>1. place' = "select" /\ results' = results
      BY <1>2 DEF Select, StageMeanwhile, runVars
    <2> QED BY <2>1, CoverStays
  <1>3. ASSUME NEW d \in todo, ClearCache(d)
        PROVE  CoverInv'
    <2>1. place' \in {"over", "clear"} /\ results' = results
      BY <1>3 DEF ClearCache
    <2> QED BY <2>1, CoverStays
  <1>4. CASE CachesCleared \/ SelectionError
    <2>1. place' = "over" /\ results' = results
      BY <1>4 DEF CachesCleared, SelectionError, runVars
    <2> QED BY <2>1, CoverStays
  <1>5. CASE Plan
    <2>1. place = "select" /\ place' \in {"over", "projects", "emit"} /\ results' = results
      BY <1>5 DEF Plan
    <2>2. DOMAIN results = {}
      BY <2>1 DEF ResultsInv
    <2> QED BY <2>1, <2>2, CoverStays
  <1>6. ASSUME NEW i, NEW tests, NEW f, StartProject(i, tests, f)
        PROVE  CoverInv'
    <2>1. place' \in {"over", "pool"} /\ results' = results
      BY <1>6 DEF StartProject
    <2> QED BY <2>1, CoverStays
  <1>7. ASSUME NEW s, RunSuite(s)
        PROVE  CoverInv'
    <2>1. place' = "pool" /\ results' = results
      BY <1>7 DEF RunSuite
    <2> QED BY <2>1, CoverStays
  <1>8. CASE EndProject
    BY <1>8, EndKeepsCover DEF LoadedInv
  <1>9. CASE Merged
    BY <1>9, MergeKeepsCover
  <1>10. CASE WriteReports
    BY <1>10, ReportsKeepCover
  <1>11. CASE EmitResults
    <2>1. place' = "over" /\ results' = results
      BY <1>11 DEF EmitResults
    <2> QED BY <2>1, CoverStays
  <1> QED BY <1>1, <1>2, <1>3, <1>4, <1>5, <1>6, <1>7, <1>8, <1>9, <1>10, <1>11, StepParts DEF Later
-----------------------------------------------------------------------------
\* What the tests have hit of each file is what was merged.
LEMMA HitTogether ==
  ASSUME NEW map, Joins(map, Coverages, DOMAIN results), NEW f \in DOMAIN map
  PROVE  LET Records == {results[u].coverage[f] :
                           u \in {w \in DOMAIN results : f \in DOMAIN results[w].coverage}}
         IN UNION {r.points : r \in Records} = map[f].points
              /\ UNION {r.hit : r \in Records} = map[f].hit
  <1> DEFINE some == {w \in DOMAIN results : f \in DOMAIN results[w].coverage}
             Records == {results[u].coverage[f] : u \in some}
  <1>1. \A u \in DOMAIN results : Coverages[u] = results[u].coverage
    BY DEF Coverages
  <1>2. some # {}
    BY <1>1 DEF Joins
  <1>3. \A u \in some : results[u].coverage[f].points = map[f].points
    BY <1>1 DEF Joins
  <1>4. map[f].hit = UNION {Coverages[u][f].hit :
                              u \in {v \in DOMAIN results : f \in DOMAIN Coverages[v]}}
    BY DEF Joins
  <1>5. {v \in DOMAIN results : f \in DOMAIN Coverages[v]} = some
    BY <1>1
  <1>6. map[f].hit = UNION {results[u].coverage[f].hit : u \in some}
    BY <1>1, <1>4, <1>5
  <1> HIDE DEF some
  <1>7. UNION {r.points : r \in Records} = map[f].points
    BY <1>2, <1>3
  <1>8. UNION {r.hit : r \in Records} = map[f].hit
    BY <1>6
  <1> QED BY <1>7, <1>8 DEF some

LEMMA MergedAreRecords ==
  ASSUME CoverInv, NEW map, Joins(map, Coverages, DOMAIN results)
  PROVE  \A f \in DOMAIN map : IsRecord(map[f])
  <1> SUFFICES ASSUME NEW f \in DOMAIN map PROVE IsRecord(map[f])
    OBVIOUS
  <1>1. \A u \in DOMAIN results : Coverages[u] = results[u].coverage
    BY DEF Coverages
  <1>2. PICK u \in DOMAIN results : f \in DOMAIN Coverages[u]
    BY DEF Joins
  <1>3. IsFiniteSet(map[f].points)
    <2>1. IsRecord(Coverages[u][f]) /\ Coverages[u][f].points = map[f].points
      BY <1>1, <1>2 DEF CoverInv, Joins
    <2> QED BY <2>1 DEF IsRecord
  <1>4. ASSUME NEW p \in map[f].hit PROVE p \in map[f].points
    <2>1. PICK v \in DOMAIN results : f \in DOMAIN Coverages[v] /\ p \in Coverages[v][f].hit
      BY DEF Joins
    <2>2. IsRecord(Coverages[v][f]) /\ Coverages[v][f].points = map[f].points
      BY <1>1, <2>1 DEF CoverInv, Joins
    <2> QED BY <2>1, <2>2 DEF IsRecord
  <1> QED BY <1>3, <1>4 DEF IsRecord

\* What ThresholdsMet asks of what the tests have hit is what the merged map
\* is asked.
LEMMA MetTogether ==
  ASSUME NEW map, Joins(map, Coverages, DOMAIN results)
  PROVE  ThresholdsMet <=> \A g \in DOMAIN Thresholds : GroupIsMet(Thresholds, g, map)
  <1> DEFINE files == UNION {DOMAIN results[u].coverage : u \in DOMAIN results}
             Records(f) == {results[u].coverage[f] :
                              u \in {w \in DOMAIN results : f \in DOMAIN results[w].coverage}}
             Points(f) == UNION {r.points : r \in Records(f)}
             Hit(f) == UNION {r.hit : r \in Records(f)}
             Of(points, m) ==
               IF m = "lines" THEN {p.line : p \in {q \in points : q.counter = "statements"}}
               ELSE {p \in points : p.counter = m}
             All(part, m) == Cardinality(UNION {{f} \X Of(Points(f), m) : f \in part})
             Covered(part, m) == Cardinality(UNION {{f} \X Of(Hit(f), m) : f \in part})
             MeetsIt(part, rules) ==
               \A m \in DOMAIN rules \cap Metrics :
                 IF rules[m] < 0 THEN All(part, m) - Covered(part, m) <= -rules[m]
                 ELSE IF All(part, m) = 0 THEN rules[m] <= 10000
                 ELSE Covered(part, m) * 10000 >= rules[m] * All(part, m)
             others == DOMAIN Thresholds \ {"global"}
             OfGroup(g) == files \cap (Thresholds[g].prefix \cup Thresholds[g].glob)
             left == files \ UNION {OfGroup(g) : g \in others}
             GroupMeets(g) ==
               IF g = "global"
               THEN files = {} \/ MeetsIt(IF left = {} THEN files ELSE left, Thresholds[g].rules)
               ELSE /\ OfGroup(g) # {}
                    /\ IF OfGroup(g) \cap Thresholds[g].prefix # {}
                       THEN MeetsIt(OfGroup(g), Thresholds[g].rules)
                       ELSE \A f \in OfGroup(g) : MeetsIt({f}, Thresholds[g].rules)
  <1>1. ThresholdsMet <=> \A g \in DOMAIN Thresholds : GroupMeets(g)
    BY DEF ThresholdsMet
  <1>2. files = DOMAIN map
    <2>1. \A u \in DOMAIN results : Coverages[u] = results[u].coverage
      BY DEF Coverages
    <2> QED BY <2>1 DEF Joins
  <1>3. \A f \in files : Points(f) = map[f].points /\ Hit(f) = map[f].hit
    BY <1>2, HitTogether
  <1>4. \A points, m : Of(points, m) = Counted(points, m)
    BY DEF Counted
  <1> HIDE DEF Points, Hit, Of
  <1>5. ASSUME NEW part \in SUBSET files, NEW m
        PROVE  /\ All(part, m) = Cardinality(Pairs(PointsOf(map, part, m), part))
               /\ Covered(part, m) = Cardinality(Pairs(HitsOf(map, part, m), part))
    <2>1. ASSUME NEW f \in part
          PROVE  /\ Of(Points(f), m) = PointsOf(map, part, m)[f]
                 /\ Of(Hit(f), m) = HitsOf(map, part, m)[f]
      BY <1>3, <1>4 DEF PointsOf, HitsOf
    <2>2. /\ UNION {{f} \X Of(Points(f), m) : f \in part} = Pairs(PointsOf(map, part, m), part)
          /\ UNION {{f} \X Of(Hit(f), m) : f \in part} = Pairs(HitsOf(map, part, m), part)
      BY <2>1 DEF Pairs
    <2> QED BY <2>2
  <1> HIDE DEF All, Covered
  <1>6. ASSUME NEW part \in SUBSET files, NEW rules
        PROVE  MeetsIt(part, rules) <=> Meets(map, part, rules)
    BY <1>5 DEF Meets, Fits
  <1> HIDE DEF MeetsIt
  <1>7. ASSUME NEW g
        PROVE  GroupMeets(g) <=> GroupIsMet(Thresholds, g, map)
    <2>1. OfGroup(g) = DOMAIN map \cap (Thresholds[g].prefix \cup Thresholds[g].glob)
          /\ OfGroup(g) \in SUBSET files /\ left \in SUBSET files
      BY <1>2
    <2>2. left = DOMAIN map \ UNION {DOMAIN map \cap (Thresholds[n].prefix \cup Thresholds[n].glob) :
                                       n \in DOMAIN Thresholds \ {"global"}}
      BY <1>2
    <2> HIDE DEF OfGroup, left, files
    <2>3. CASE g = "global"
      BY <1>2, <1>6, <2>1, <2>2, <2>3 DEF GroupIsMet
    <2>4. CASE g # "global"
      BY <1>2, <1>6, <2>1, <2>4 DEF GroupIsMet
    <2> QED BY <2>3, <2>4
  <1> HIDE DEF GroupMeets
  <1> QED BY <1>1, <1>7

LEMMA ThresholdsJudged ==
  ASSUME LoadedInv, ResultsInv, CoverInv
  PROVE  ThresholdsAreJudged
  <1> SUFFICES ASSUME place = "emit", Collecting, DOMAIN results # {}
               PROVE  unmet = {} <=> ThresholdsMet
    BY DEF ThresholdsAreJudged
  <1>1. Joins(merged, Coverages, DOMAIN results) /\ unmet = Failures(Thresholds, merged)
    BY DEF CoverInv
  <1>2. \A f \in DOMAIN merged : IsRecord(merged[f])
    BY <1>1, MergedAreRecords
  <1>3. IsFiniteSet(DOMAIN merged)
    <2>1. \A u \in DOMAIN results : DOMAIN Coverages[u] \subseteq Files
      BY DEF ResultsInv, ResultsType, Coverages
    <2>2. DOMAIN merged \subseteq Files
      BY <1>1, <2>1 DEF Joins
    <2> QED BY <2>2, RelatedAssumption, FS_Subset
  <1>4. \A g \in DOMAIN Thresholds : AreRules(Thresholds[g].rules)
    BY DEF LoadedInv, Thresholds, AreThresholds, AreRules
  <1>5. unmet = {} <=> \A g \in DOMAIN Thresholds : GroupIsMet(Thresholds, g, merged)
    BY <1>1, <1>2, <1>3, <1>4, NoFailuresWhenMet
  <1> QED BY <1>1, <1>5, MetTogether
-----------------------------------------------------------------------------
\* What has worked.

LEMMA WorkedInit == Init => WorkedInv
  <1> SUFFICES ASSUME Init PROVE WorkedInv
    OBVIOUS
  <1>1. asked = 0 /\ context = 0 /\ search = "idle" /\ place = "load" /\ DOMAIN results = {}
    BY DEF Init, SelectionInit, RelatedInit, NoResults
  <1>2. 1 .. asked = {}
    BY <1>1
  <1> QED BY <1>1, <1>2 DEF WorkedInv

\* Whether it has is the same as long as it has the same to work on.
LEMMA WorkStays ==
  ASSUME given' = given, config' = config, UNCHANGED <<changed, chosen>>
  PROVE  /\ SelectionHasWorked' = SelectionHasWorked /\ NoTestsAllowed' = NoTestsAllowed
         /\ CacheDirectories' = CacheDirectories
         /\ \A d : SafeToClear(d)' = SafeToClear(d)
         /\ Collecting' = Collecting /\ Thresholds' = Thresholds /\ cli' = cli
  <1>1. /\ Contexts' = Contexts /\ Executed(config)' = Executed(config) /\ Queries' = Queries
        /\ ChangedSelection' = ChangedSelection /\ FindRelated' = FindRelated
        /\ Narrowed' = Narrowed
        /\ \A i : Candidates(i)' = Candidates(i)
    BY ConfigStays
  <1>2. \A i : Wanted(i)' = Wanted(i)
    BY ChoiceStays
  <1>3. SelectionHasWorked' = SelectionHasWorked
    BY <1>1, <1>2 DEF SelectionHasWorked
  <1>4. NoTestsAllowed' = NoTestsAllowed
    BY <1>1 DEF NoTestsAllowed
  <1>5. CacheDirectories' = CacheDirectories /\ \A d : SafeToClear(d)' = SafeToClear(d)
    BY <1>1 DEF CacheDirectories, SafeToClear
  <1>6. Collecting' = Collecting /\ Thresholds' = Thresholds /\ cli' = cli
    BY DEF Collecting, Thresholds, cli
  <1> QED BY <1>3, <1>4, <1>5, <1>6

\* The selection has, when a step leaves it alone.
LEMMA SearchWorkStays ==
  ASSUME WorkedInv, given' = given, config' = config, UNCHANGED <<asked, changed, context, search>>
  PROVE  /\ \A n \in 1 .. asked' : Queries'[n] \notin given'.git.fails
         /\ context' > 0 /\ Narrowed' =>
              \A i \in Contexts' : i < context' /\ Wanted(i)' # {} => i \notin given'.unresolved
         /\ search' # "idle" => context' \notin given'.unresolved
  <1>1. Contexts' = Contexts /\ Queries' = Queries /\ Narrowed' = Narrowed
    BY ConfigStays
  <1>2. \A i : Wanted(i)' = Wanted(i)
    BY ChoiceStays
  <1> QED BY <1>1, <1>2 DEF WorkedInv

\* One more command, project or round of a search.
LEMMA SelectKeepsWorked ==
  ASSUME LoadedInv, GitInv, TiedInv, ResultsInv, WorkedInv, Select
  PROVE  WorkedInv'
  <1>1. /\ given' = given /\ config' = config /\ place = "select" /\ place' = "select"
        /\ results' = results
    BY DEF Select, Continue, runVars
  <1>2. DOMAIN results = {}
    BY <1>1 DEF ResultsInv
  <1>3. Contexts' = Contexts /\ Queries' = Queries /\ Narrowed' = Narrowed
    BY <1>1, ConfigStays
  <1>4. /\ Len(Executed(config)) \in Nat /\ Contexts \subseteq 1 .. Len(Executed(config))
        /\ context \in Nat /\ asked \in Nat
        /\ DOMAIN Executed(config) = 1 .. Len(Executed(config))
    BY <1>1, ExecutedIsList, QueriesLength DEF GitInv
  <1>5. SUFFICES /\ \A n \in 1 .. asked' : Queries[n] \notin given.git.fails
                 /\ context' > 0 /\ Narrowed =>
                      \A i \in Contexts : i < context' /\ Wanted(i)' # {} => i \notin given.unresolved
                 /\ search' # "idle" => context' \notin given.unresolved
    BY <1>1, <1>2, <1>3 DEF WorkedInv
  <1>6. changed' = changed => \A i : Wanted(i)' = Wanted(i)
    BY <1>1, ChoiceStays
  <1>7. CASE AskGit
    <2>1. /\ asked' = asked + 1 /\ Queries[asked + 1] \notin given.git.fails
          /\ ChangedSelection /\ ~FindRelated /\ given.git.repository /\ asked < Len(Queries)
          /\ context' = context /\ search' = search
      BY <1>7 DEF AskGit, relatedVars
    <2>2. context = 0
      BY <2>1, <1>4, QueriesLength DEF GitInv
    <2>3. \A n \in 1 .. asked + 1 : n \in 1 .. asked \/ n = asked + 1
      BY <1>4
    <2> QED BY <2>1, <2>2, <2>3 DEF WorkedInv
  <1>8. CASE NoSearch \/ BeginSearch
    <2>1. asked' = asked /\ changed' = changed /\ search' = search /\ context = 0
      BY <1>8 DEF NoSearch, BeginSearch, relatedVars
    <2>2. search = "idle"
      BY <1>1, <1>4, <2>1 DEF TiedInv
    <2>3. BeginSearch => \A i \in Contexts : ~(i < context')
      BY <1>4 DEF BeginSearch
    <2>4. NoSearch /\ Narrowed => \A i : Wanted(i) = {}
      BY DEF NoSearch, Wanted, Narrowed
    <2> QED BY <1>6, <1>8, <2>1, <2>2, <2>3, <2>4 DEF WorkedInv
  <1>9. CASE SkipProject
    <2>1. /\ asked' = asked /\ changed' = changed /\ search = "idle" /\ search' = search
          /\ context' = context + 1 /\ context \in DOMAIN Executed(config)
          /\ context \notin Contexts \/ Wanted(context) = {}
      BY <1>9 DEF SkipProject, Searching, relatedVars
    <2>2. \A i \in Contexts : i < context + 1 => i < context \/ i = context
      BY <1>4
    <2> QED BY <1>4, <1>6, <2>1, <2>2 DEF WorkedInv
  <1>10. CASE SearchProject
    <2>1. UNCHANGED <<asked, changed, context>> /\ context \notin given.unresolved
      BY <1>10 DEF SearchProject, selectionVars
    <2> QED BY <1>6, <2>1 DEF WorkedInv
  <1>11. CASE ExpandSearch
    <2>1. UNCHANGED <<asked, changed, context>> /\ search # "idle"
      BY <1>11 DEF ExpandSearch, Expand, selectionVars
    <2> QED BY <1>6, <2>1 DEF WorkedInv
  <1>12. CASE FinishProject
    <2>1. /\ asked' = asked /\ changed' = changed /\ search = "done" /\ search' = "idle"
          /\ context' = context + 1 /\ context \in DOMAIN Executed(config)
      BY <1>12 DEF FinishProject, Searching
    <2>2. \A i \in Contexts : i < context + 1 => i < context \/ i = context
      BY <1>4
    <2>3. context \notin given.unresolved
      BY <2>1 DEF WorkedInv
    <2> QED BY <1>4, <1>6, <2>1, <2>2, <2>3 DEF WorkedInv
  <1> QED BY <1>7, <1>8, <1>9, <1>10, <1>11, <1>12 DEF Select, SelectStep

\* At its end no part of the selection has failed.
LEMMA SelectionWorked ==
  ASSUME LoadedInv, GitInv, WorkedInv, place = "select", SelectionDone,
         \A i \in Contexts : TestsOf(i).error = "none"
  PROVE  SelectionHasWorked
  <1>1. /\ context > Len(Executed(config)) /\ Len(Executed(config)) \in Nat /\ context \in Nat
        /\ Contexts \subseteq 1 .. Len(Executed(config))
    BY ExecutedIsList DEF SelectionDone, GitInv
  <1>2. context > 0 /\ \A i \in Contexts : i < context
    BY <1>1
  <1>3. \A i \in Contexts : Candidates(i).error = "none"
    <2> SUFFICES ASSUME NEW i \in Contexts PROVE Candidates(i).error = "none"
      OBVIOUS
    <2>1. TestsOf(i).error = Candidates(i).error
      BY CandidatesAreFiles DEF TestsOf
    <2> QED BY <2>1
  <1>4. ChangedSelection /\ ~FindRelated /\ given.git.repository =>
          \A n \in 1 .. Len(Queries) : Queries[n] \notin given.git.fails
    BY <1>2 DEF GitInv, WorkedInv
  <1> QED BY <1>2, <1>3, <1>4 DEF WorkedInv, SelectionHasWorked

LEMMA PlanKeepsWorked ==
  ASSUME LoadedInv, GitInv, ResultsInv, WorkedInv, Plan
  PROVE  WorkedInv'
  <1>1. UNCHANGED <<given, config, asked, changed, chosen, context, search>>
    BY LaterKeeps DEF Later, selectionVars, relatedVars
  <1>2. /\ place = "select" /\ SelectionDone /\ results' = results
        /\ \/ place' = "over"
           \/ /\ \A i \in Contexts : TestsOf(i).error = "none"
              /\ \/ place' = "projects" /\ Units # {}
                 \/ place' = "emit" /\ NoTestsAllowed
    BY DEF Plan, Exit, Fail, Continue
  <1>3. DOMAIN results = {}
    BY <1>2 DEF ResultsInv
  <1>4. place' # "over" => SelectionHasWorked
    BY <1>2, SelectionWorked
  <1>5. Units' = Units /\ SelectionHasWorked' = SelectionHasWorked /\ NoTestsAllowed' = NoTestsAllowed
    BY <1>1, UnitsStay, WorkStays
  <1> QED BY <1>1, <1>2, <1>3, <1>4, <1>5, SearchWorkStays DEF WorkedInv

LEMMA ClearKeepsWorked ==
  ASSUME ResultsInv, WorkedInv, NEW d \in todo, ClearCache(d)
  PROVE  WorkedInv'
  <1>1. UNCHANGED <<given, config, asked, changed, chosen, context, search, results>>
    BY DEF ClearCache, otherVars, selectionVars, relatedVars
  <1>2. place = "clear" /\ DOMAIN results = {}
    BY DEF ClearCache, ResultsInv
  <1>3. /\ CacheDirectories' = CacheDirectories
        /\ \A x : SafeToClear(x)' = SafeToClear(x)
    BY <1>1, WorkStays
  <1>4. CASE place' = "over"
    BY <1>1, <1>2, <1>4, SearchWorkStays DEF WorkedInv
  <1>5. CASE place' # "over"
    <2>1. /\ SafeToClear(d) /\ Normalized(d) \notin given.locked
          /\ cleared' = cleared \cup {Normalized(d)} /\ todo' = todo \ {d} /\ place' = "clear"
      BY <1>2, <1>5 DEF ClearCache, Fail, Exit, Continue
    <2>2. ASSUME NEW x \in CacheDirectories \ todo'
          PROVE  SafeToClear(x) /\ Normalized(x) \in cleared' \ given.locked
      <3>1. CASE x = d
        BY <2>1, <3>1
      <3>2. CASE x # d
        BY <1>2, <2>1, <2>2, <3>2 DEF WorkedInv
      <3> QED BY <3>1, <3>2
    <2>3. \A x : Normalized(x)' = Normalized(x)
      OBVIOUS
    <2>4. \A x \in CacheDirectories' \ todo' :
            SafeToClear(x)' /\ Normalized(x) \in cleared' \ given'.locked
      BY <1>1, <1>3, <2>2
    <2> QED BY <1>1, <1>2, <2>1, <2>4, SearchWorkStays DEF WorkedInv
  <1> QED BY <1>4, <1>5

\* A step behind the plan, with what it must see to.
LEMMA WorkedStays ==
  ASSUME WorkedInv, UNCHANGED <<given, config, selectionVars, relatedVars>>,
         place \in {"projects", "pool", "reports", "emit"}, place' \notin {"clear", "select"},
         DOMAIN results' # {} \/ place' = "pool" => cli.provider \in {"babel", "v8"},
         place' = "emit" /\ Collecting /\ DOMAIN results' # {} => ReportsAreWritten'
  PROVE  WorkedInv'
  <1>1. UNCHANGED <<asked, changed, chosen, context, search>>
    BY DEF selectionVars, relatedVars
  <1>2. /\ Units' = Units /\ SelectionHasWorked' = SelectionHasWorked
        /\ NoTestsAllowed' = NoTestsAllowed /\ Collecting' = Collecting /\ cli' = cli
    BY <1>1, UnitsStay, WorkStays
  <1> QED BY <1>1, <1>2, SearchWorkStays DEF WorkedInv

\* Reports without an error are those of every reporter.
LEMMA ReportsAreAll ==
  ASSUME NEW reporters, Reports(reporters).error = "none"
  PROVE  \A n \in DOMAIN reporters :
           reporters[n] \in Reporters /\ FilesOf(reporters[n]) \subseteq Reports(reporters).files
  <1> DEFINE unknown == {i \in DOMAIN reporters : reporters[i] \notin Reporters}
             told == {i \in DOMAIN reporters : \A j \in unknown : i < j}
  <1>1. /\ Reports(reporters).error = IF unknown = {} THEN "none" ELSE "UnsupportedReporter"
        /\ Reports(reporters).files = UNION {FilesOf(reporters[i]) : i \in told}
    BY DEF Reports
  <1>2. unknown = {}
    BY <1>1
  <1>3. told = DOMAIN reporters
    BY <1>2
  <1> QED BY <1>1, <1>2, <1>3

LEMMA ReportsKeepWorked ==
  ASSUME ResultsInv, WorkedInv, WriteReports
  PROVE  WorkedInv'
  <1>1. /\ UNCHANGED <<given, config, selectionVars, relatedVars>> /\ results' = results
        /\ place = "reports" /\ place' \in {"over", "emit"}
    BY DEF WriteReports, otherVars, Fail, Exit, Continue
  <1>2. ASSUME place' = "emit" PROVE ReportsAreWritten'
    <2>1. /\ ~cli.badThreshold /\ written' = written \cup Reports(cli.reporters).files
          /\ Reports(cli.reporters).error = "none"
          /\ \A g \in DOMAIN Thresholds : Thresholds[g].valid
      BY <1>2 DEF WriteReports, Fail, Exit
    <2>2. \A n \in DOMAIN cli.reporters :
            cli.reporters[n] \in Reporters /\ FilesOf(cli.reporters[n]) \subseteq written'
      BY <2>1, ReportsAreAll
    <2>3. cli' = cli /\ Thresholds' = Thresholds
      BY <1>1 DEF cli, Thresholds
    <2> QED BY <2>1, <2>2, <2>3 DEF ReportsAreWritten
  <1> QED BY <1>1, <1>2, WorkedStays DEF WorkedInv

LEMMA WorkedStep ==
  ASSUME LoadedInv, GitInv, TiedInv, ResultsInv, WorkedInv, Next
  PROVE  WorkedInv'
  <1> USE DEF Exit, Fail, Continue, Finish
  <1>1. CASE LoadConfiguration
    <2>1. /\ UNCHANGED <<given, selectionVars, relatedVars, results>> /\ place = "load"
          /\ \/ place' \in {"over", "select"}
             \/ place' = "clear" /\ todo' = CacheDirectories'
      BY <1>1 DEF LoadConfiguration, otherVars
    <2>2. asked' = 0 /\ context' = 0 /\ search' = "idle" /\ DOMAIN results' = {}
      BY <2>1 DEF LoadedInv, ResultsInv, selectionVars, relatedVars
    <2>3. 1 .. asked' = {}
      BY <2>2
    <2> QED BY <2>1, <2>2, <2>3 DEF WorkedInv
  <1>2. CASE Select
    BY <1>2, SelectKeepsWorked
  <1>3. ASSUME NEW f \in Files, StageMeanwhile(f)
        PROVE  WorkedInv'
    <2>1. /\ place = "select" /\ place' = "select"
          /\ UNCHANGED <<given, config, asked, changed, context, search, results>>
      BY <1>3 DEF StageMeanwhile, Stage, runVars, relatedVars
    <2>2. DOMAIN results = {}
      BY <2>1 DEF ResultsInv
    <2> QED BY <2>1, <2>2, SearchWorkStays DEF WorkedInv
  <1>4. ASSUME NEW d \in todo, ClearCache(d)
        PROVE  WorkedInv'
    BY <1>4, ClearKeepsWorked
  <1>5. CASE CachesCleared \/ SelectionError
    <2>1. /\ UNCHANGED <<given, config, asked, changed, context, search, results>>
          /\ place' = "over" /\ place \in {"clear", "select"}
      BY <1>5 DEF CachesCleared, SelectionError, otherVars, selectionVars, relatedVars, runVars
    <2>2. DOMAIN results = {}
      BY <2>1 DEF ResultsInv
    <2> QED BY <2>1, <2>2, SearchWorkStays DEF WorkedInv
  <1>6. CASE Plan
    BY <1>6, PlanKeepsWorked
  <1>7. ASSUME NEW i, NEW tests \in SUBSET Suites, NEW f, StartProject(i, tests, f)
        PROVE  WorkedInv'
    <2>1. /\ UNCHANGED <<given, config, selectionVars, relatedVars, results>>
          /\ place = "projects"
          /\ \/ place' = "over"
             \/ place' = "pool" /\ cli.provider \in {"babel", "v8"}
      BY <1>7 DEF StartProject
    <2> QED BY <2>1, WorkedStays DEF WorkedInv
  <1>8. ASSUME NEW s \in Suites, RunSuite(s)
        PROVE  WorkedInv'
    <2>1. /\ UNCHANGED <<given, config, selectionVars, relatedVars, results>>
          /\ place = "pool" /\ place' = "pool"
      BY <1>8 DEF RunSuite
    <2> QED BY <2>1, WorkedStays DEF WorkedInv
  <1>9. CASE EndProject
    <2>1. /\ UNCHANGED <<given, config, selectionVars, relatedVars>>
          /\ place = "pool" /\ place' \in {"over", "projects"}
      BY <1>9 DEF EndProject, otherVars
    <2> QED BY <2>1, WorkedStays DEF WorkedInv
  <1>10. CASE Merged
    <2>1. /\ UNCHANGED <<given, config, selectionVars, relatedVars, results>>
          /\ place = "projects"
          /\ place' \in {"over", "reports"} \/ (place' = "emit" /\ ~Collecting)
      BY <1>10 DEF Merged, otherVars
    <2> QED BY <2>1, WorkedStays DEF WorkedInv
  <1>11. CASE WriteReports
    BY <1>11, ReportsKeepWorked
  <1>12. CASE EmitResults
    <2>1. /\ UNCHANGED <<given, config, selectionVars, relatedVars, results>>
          /\ place = "emit" /\ place' = "over"
      BY <1>12 DEF EmitResults, otherVars
    <2> QED BY <2>1, WorkedStays DEF WorkedInv
  <1> QED BY <1>1, <1>2, <1>3, <1>4, <1>5, <1>6, <1>7, <1>8, <1>9, <1>10, <1>11, <1>12, StepParts
      DEF Later
-----------------------------------------------------------------------------
\* How it ends.

LEMMA EndInit == Init => EndInv
  BY DEF Init, EndInv, SuccessIsTold, Running

LEMMA StatusIsByte == \A code \in Int : Status(code) \in 0 .. 255
  BY DEF Status

\* A step that does not end it, or ends it with an error.
LEMMA EndStays ==
  ASSUME EndInv, place # "over",
         \/ place' # "over" /\ exit' = exit
         \/ place' = "over" /\ exit' \in {1, Aborted}
  PROVE  EndInv'
  BY DEF EndInv, SuccessIsTold, Running, Aborted

\* One that ends it with success, before any test has run.
LEMMA EndEarly ==
  ASSUME EndInv, place # "over", place' = "over", exit' = 0,
         config'.error = "none", Broken' = {},
         cli'.clearCache /\ ~cli'.showConfig => CachesAreGone',
         ~(cli'.showConfig \/ cli'.clearCache) => SelectionHasWorked',
         cli'.showConfig \/ cli'.clearCache \/ cli'.listTests
  PROVE  EndInv'
  BY DEF EndInv, SuccessIsTold, Running

\* Where the maps of the tests were merged they agree.
LEMMA JoinsAgree ==
  ASSUME NEW map, Joins(map, Coverages, DOMAIN results)
  PROVE  CoverageAgrees
  <1>1. \A u \in DOMAIN results : Coverages[u] = results[u].coverage
    BY DEF Coverages
  <1>2. ASSUME NEW u \in DOMAIN results, NEW f \in DOMAIN results[u].coverage
        PROVE  results[u].coverage[f].points = map[f].points
    BY <1>1 DEF Joins
  <1> QED BY <1>2 DEF CoverageAgrees

\* What thresholds and records say of the results is the same as long as these are.
LEMMA JudgementStays ==
  ASSUME given' = given, config' = config, results' = results
  PROVE  ThresholdsMet' = ThresholdsMet /\ CoverageAgrees' = CoverageAgrees
         /\ (written \subseteq written' /\ ReportsAreWritten => ReportsAreWritten')
  BY DEF ThresholdsMet, CoverageAgrees, ReportsAreWritten, Thresholds, cli

LEMMA EmitEnds ==
  ASSUME LoadedInv, PoolsInv, ResultsInv, CoverInv, WorkedInv, EndInv, EmitResults
  PROVE  EndInv'
  <1>1. PICK answer \in Answers :
          IF answer = "error" \/ cli.output = "unwritable" THEN Fail /\ UNCHANGED written
          ELSE /\ written' = written \cup ({cli.output} \ {"none"})
               /\ Finish(answer = "success")
    BY DEF EmitResults
  <1>2. /\ place = "emit" /\ given' = given /\ config' = config
        /\ UNCHANGED <<changed, chosen, context, results, crashed, snapshotVars>>
    BY DEF EmitResults, otherVars, selectionVars
  <1>3. CASE answer = "error" \/ cli.output = "unwritable"
    BY <1>1, <1>2, <1>3, EndStays DEF Fail, Exit
  <1>4. CASE ~(answer = "error" \/ cli.output = "unwritable")
    <2>1. /\ written' = written \cup ({cli.output} \ {"none"})
          /\ place' = "over"
          /\ exit' = IF answer = "success" THEN 0
                     ELSE Status(config.options.testFailureExitCode)
      BY <1>1, <1>4 DEF Finish, Exit
    <2>2. config.error = "none" /\ config.options.testFailureExitCode \in Int
      BY <1>2 DEF LoadedInv
    <2>3. exit' \in 0 .. 255
      BY <2>1, <2>2, StatusIsByte
    <2>4. Broken' = {}
      BY <1>2 DEF PoolsInv, Broken, snapshotVars
    <2>5. /\ ~cli.clearCache /\ ~cli.showConfig /\ DOMAIN results = Units
          /\ SelectionHasWorked /\ (Units # {} \/ NoTestsAllowed)
      BY <1>2 DEF ResultsInv, WorkedInv
    <2>6. CoverageAgrees
      <3>1. CASE DOMAIN results = {}
        BY <3>1 DEF CoverageAgrees
      <3>2. CASE DOMAIN results # {}
        BY <1>2, <3>2, JoinsAgree DEF CoverInv
      <3> QED BY <3>1, <3>2
    <2>7. IF DOMAIN results = {} THEN NoTestsAllowed
          ELSE cli.provider \in {"babel", "v8"} /\ (Collecting => ReportsAreWritten)
      BY <1>2, <2>5 DEF WorkedInv
    <2>8. ASSUME ~given.processor, exit' = 0, Status(config.options.testFailureExitCode) # 0
          PROVE  /\ \A u \in DOMAIN results : results[u].outcome = "passed"
                 /\ Collecting /\ DOMAIN results # {} => ThresholdsMet
      <3>1. answer = "success"
        BY <2>1, <2>8
      <3>2. BaseSuccess
        BY <2>8, <3>1 DEF Answers
      <3>3. Collecting /\ DOMAIN results # {} => (unmet = {} <=> ThresholdsMet)
        BY <1>2, ThresholdsJudged DEF ThresholdsAreJudged
      <3> QED BY <3>2, <3>3 DEF BaseSuccess
    <2>9. cli.output # "unwritable" /\ {cli.output} \ {"none"} \subseteq written'
      BY <1>4, <2>1
    <2>10. /\ Units' = Units /\ cli' = cli /\ SelectionHasWorked' = SelectionHasWorked
           /\ NoTestsAllowed' = NoTestsAllowed /\ Collecting' = Collecting
      BY <1>2, UnitsStay, WorkStays
    <2>11. /\ ThresholdsMet' = ThresholdsMet /\ CoverageAgrees' = CoverageAgrees
           /\ ReportsAreWritten => ReportsAreWritten'
      BY <1>2, <2>1, JudgementStays
    <2>12. exit' = 0 =>
             /\ DOMAIN results' = Units' /\ CoverageAgrees'
             /\ IF DOMAIN results' = {} THEN NoTestsAllowed'
                ELSE cli'.provider \in {"babel", "v8"} /\ (Collecting' => ReportsAreWritten')
             /\ cli'.output # "unwritable" /\ {cli'.output} \ {"none"} \subseteq written'
             /\ ~given'.processor /\ Status(config'.options.testFailureExitCode) # 0 =>
                  /\ \A u \in DOMAIN results' : results'[u].outcome = "passed"
                  /\ Collecting' /\ DOMAIN results' # {} => ThresholdsMet'
      BY <1>2, <2>5, <2>6, <2>7, <2>8, <2>9, <2>10, <2>11
    <2>13. SuccessIsTold'
      BY <1>2, <2>2, <2>4, <2>5, <2>10, <2>12 DEF SuccessIsTold, Status
    <2> QED BY <2>1, <2>3, <2>13 DEF EndInv, Running
  <1> QED BY <1>3, <1>4

LEMMA LoadEnds ==
  ASSUME LoadedInv, PoolsInv, EndInv, LoadConfiguration
  PROVE  EndInv'
  <1>1. place = "load" /\ given' = given /\ UNCHANGED snapshotVars
    BY DEF LoadConfiguration, otherVars
  <1>2. Broken' = {}
    BY <1>1 DEF PoolsInv, Broken, snapshotVars
  <1>3. \/ place' # "over" /\ exit' = exit
        \/ place' = "over" /\ exit' \in {1, Aborted}
        \/ place' = "over" /\ exit' = 0 /\ config'.error = "none" /\ cli'.showConfig
    <2>1. cli' = cli
      BY <1>1 DEF cli
    <2>2. IF config'.error = "StackOverflow" THEN Exit(Aborted) /\ UNCHANGED todo
          ELSE IF config'.error # "none" THEN Fail /\ UNCHANGED todo
          ELSE IF cli.showConfig THEN Exit(0) /\ UNCHANGED todo
          ELSE IF cli.clearCache THEN Continue("clear") /\ todo' = CacheDirectories'
          ELSE Continue("select") /\ UNCHANGED todo
      BY DEF LoadConfiguration
    <2> HIDE DEF cli
    <2>3. CASE config'.error = "StackOverflow"
      BY <2>2, <2>3 DEF Exit
    <2>4. CASE config'.error # "StackOverflow" /\ config'.error # "none"
      BY <2>2, <2>4 DEF Fail, Exit
    <2>5. CASE config'.error = "none" /\ cli.showConfig
      BY <2>1, <2>2, <2>5 DEF Exit
    <2>6. CASE config'.error = "none" /\ ~cli.showConfig /\ cli.clearCache
      BY <2>2, <2>6 DEF Continue
    <2>7. CASE config'.error = "none" /\ ~cli.showConfig /\ ~cli.clearCache
      BY <2>2, <2>7 DEF Continue
    <2> QED BY <2>3, <2>4, <2>5, <2>6, <2>7
  <1> QED BY <1>1, <1>2, <1>3, EndStays, EndEarly

LEMMA EndStep ==
  ASSUME LoadedInv, GitInv, PoolsInv, ResultsInv, CoverInv, WorkedInv, EndInv, Next
  PROVE  EndInv'
  <1> USE DEF Exit, Fail, Continue, otherVars
  <1>1. CASE LoadConfiguration
    BY <1>1, LoadEnds
  <1>2. CASE Select \/ \E f \in Files : StageMeanwhile(f)
    BY <1>2, EndStays DEF Select, StageMeanwhile
  <1>3. ASSUME NEW d \in todo, ClearCache(d)
        PROVE  EndInv'
    BY <1>3, EndStays DEF ClearCache
  <1>4. CASE CachesCleared
    <2>1. /\ place = "clear" /\ todo = {} /\ place' = "over" /\ exit' = 0
          /\ UNCHANGED <<given, config, changed, chosen, cleared, snapshotVars>>
      BY <1>4 DEF CachesCleared, runVars, selectionVars
    <2>2. Broken' = {} /\ config'.error = "none" /\ cli'.clearCache
      BY <2>1 DEF PoolsInv, LoadedInv, ResultsInv, Broken, snapshotVars, cli
    <2>3. CachesAreGone'
      <3>1. \A d \in CacheDirectories :
              SafeToClear(d) /\ Normalized(d) \in cleared \ given.locked
        BY <2>1 DEF WorkedInv
      <3>2. /\ CacheDirectories' = CacheDirectories
            /\ \A d : SafeToClear(d)' = SafeToClear(d)
        BY <2>1, WorkStays
      <3> QED BY <2>1, <3>1, <3>2 DEF CachesAreGone
    <2> QED BY <2>1, <2>2, <2>3, EndEarly
  <1>5. CASE SelectionError
    BY <1>5, EndStays DEF SelectionError
  <1>6. CASE Plan
    <2>1. /\ place = "select" /\ SelectionDone
          /\ UNCHANGED <<given, config, changed, chosen, snapshotVars>>
          /\ \/ place' # "over" /\ exit' = exit
             \/ place' = "over" /\ exit' = 1
             \/ /\ place' = "over" /\ exit' = 0 /\ cli.listTests
                /\ \A i \in Contexts : TestsOf(i).error = "none"
      BY <1>6 DEF Plan, selectionVars
    <2>2. Broken' = {} /\ config'.error = "none" /\ ~cli'.clearCache /\ cli' = cli
      BY <2>1 DEF PoolsInv, LoadedInv, ResultsInv, Broken, snapshotVars, cli
    <2>3. SelectionHasWorked' = SelectionHasWorked
      BY <2>1, WorkStays
    <2>4. place' = "over" /\ exit' = 0 => SelectionHasWorked
      BY <2>1, SelectionWorked
    <2> QED BY <2>1, <2>2, <2>3, <2>4, EndStays, EndEarly
  <1>7. ASSUME NEW i, NEW tests, NEW f, StartProject(i, tests, f)
        PROVE  EndInv'
    BY <1>7, EndStays DEF StartProject
  <1>8. ASSUME NEW s, RunSuite(s)
        PROVE  EndInv'
    BY <1>8, EndStays DEF RunSuite
  <1>9. CASE EndProject \/ Merged \/ WriteReports
    BY <1>9, EndStays DEF EndProject, Merged, WriteReports
  <1>10. CASE EmitResults
    BY <1>10, EmitEnds
  <1> QED BY <1>1, <1>2, <1>3, <1>4, <1>5, <1>6, <1>7, <1>8, <1>9, <1>10, StepParts DEF Later
-----------------------------------------------------------------------------
\* A step that changes nothing.

LEMMA LoadedStutter ==
  ASSUME LoadedInv, UNCHANGED vars
  PROVE  LoadedInv'
  <1>1. OptionsPrevail'
    BY DEF vars, LoadedInv, OptionsPrevail, Prevails, cli
  <1> QED BY <1>1 DEF vars, selectionVars, relatedVars, runVars, LoadedInv

LEMMA ResultsStutter ==
  ASSUME ResultsInv, UNCHANGED vars
  PROVE  ResultsInv'
  <1>1. /\ given' = given /\ config' = config
        /\ UNCHANGED <<place, chosen, context, todo, results, crashed, current, step>>
    BY DEF vars, selectionVars, runVars, snapshotVars
  <1>2. ResultsType'
    BY <1>1, TypeStays DEF ResultsInv
  <1>3. /\ Units' = Units /\ Executed(config)' = Executed(config) /\ cli' = cli
        /\ Pooled' = Pooled
    BY <1>1, UnitsStay, ConfigStays DEF cli, Pooled
  <1> QED BY <1>1, <1>2, <1>3 DEF ResultsInv

LEMMA CoverStutter ==
  ASSUME CoverInv, UNCHANGED vars
  PROVE  CoverInv'
  <1>1. /\ given' = given /\ config' = config /\ place' = place
        /\ UNCHANGED <<results, merged, unmet>>
    BY DEF vars, runVars
  <1> QED BY <1>1, CoverStays

LEMMA WorkedStutter ==
  ASSUME WorkedInv, UNCHANGED vars
  PROVE  WorkedInv'
  <1>1. UNCHANGED <<given, config, asked, changed, chosen, context, search, place, todo, cleared,
                    results, written>>
    BY DEF vars, selectionVars, relatedVars, runVars
  <1>2. /\ Units' = Units /\ SelectionHasWorked' = SelectionHasWorked
        /\ NoTestsAllowed' = NoTestsAllowed /\ Collecting' = Collecting /\ cli' = cli
        /\ CacheDirectories' = CacheDirectories
        /\ \A d : SafeToClear(d)' = SafeToClear(d)
    BY <1>1, UnitsStay, WorkStays
  <1>3. ReportsAreWritten => ReportsAreWritten'
    BY <1>1, JudgementStays
  <1>4. place' = "clear" =>
          \A d \in CacheDirectories' \ todo' :
            SafeToClear(d)' /\ Normalized(d) \in cleared' \ given'.locked
    BY <1>1, <1>2 DEF WorkedInv
  <1> QED BY <1>1, <1>2, <1>3, <1>4, SearchWorkStays DEF WorkedInv

LEMMA EndStutter ==
  ASSUME EndInv, UNCHANGED vars
  PROVE  EndInv'
  <1>1. /\ given' = given /\ config' = config
        /\ UNCHANGED <<place, exit, changed, chosen, cleared, results, written, snapshotVars>>
    BY DEF vars, selectionVars, runVars
  <1>2. /\ Units' = Units /\ cli' = cli /\ Broken' = Broken
        /\ SelectionHasWorked' = SelectionHasWorked
        /\ NoTestsAllowed' = NoTestsAllowed /\ Collecting' = Collecting
    BY <1>1, UnitsStay, WorkStays DEF Broken, snapshotVars
  <1>3. /\ ThresholdsMet' = ThresholdsMet /\ CoverageAgrees' = CoverageAgrees
        /\ ReportsAreWritten => ReportsAreWritten'
    BY <1>1, JudgementStays
  <1>4. CachesAreGone' = CachesAreGone
    <2>1. /\ CacheDirectories' = CacheDirectories
          /\ \A d : SafeToClear(d)' = SafeToClear(d)
      BY <1>1, WorkStays
    <2> QED BY <1>1, <2>1 DEF CachesAreGone
  <1>5. SuccessIsTold'
    BY <1>1, <1>2, <1>3, <1>4 DEF EndInv, SuccessIsTold, Status
  <1> QED BY <1>1, <1>5 DEF EndInv

LEMMA InvocationStutter ==
  ASSUME InvocationInv, UNCHANGED vars
  PROVE  InvocationInv'
  <1> USE DEF InvocationInv
  <1>1. /\ given' = given /\ config' = config /\ place' = place
        /\ UNCHANGED <<selectionVars, relatedVars, snapshotVars>>
    BY DEF vars
  <1>2. UNCHANGED <<work, staged, asked, changed, context, chosen, filters>>
    BY <1>1 DEF selectionVars
  <1>3. LoadedInv'
    BY LoadedStutter
  <1>4. GitInv'
    BY <1>1, <1>2, GitKept DEF GitInv
  <1>5. ChosenInv' /\ TiedInv'
    BY <1>1, <1>2, ChosenStays, TiedStays
  <1>6. PoolsInv'
    BY <1>1, PoolsStay DEF PoolsInv
  <1>7. ResultsInv' /\ CoverInv' /\ WorkedInv' /\ EndInv'
    BY ResultsStutter, CoverStutter, WorkedStutter, EndStutter
  <1> QED BY <1>3, <1>4, <1>5, <1>6, <1>7

\* InvocationInv is inductive: what was loaded, what Git has been asked, the
\* tests chosen so far, the search of the project in turn, the threads of the
\* pool, the results and the exit code fit each other in every invocation of
\* run, with files, projects and options of any number.
THEOREM InvocationInvariant == Spec => []InvocationInv
  <1>1. Init => InvocationInv
    BY LoadedInit, GitInit, ChosenInit, PoolsInit, ResultsInit, CoverInit, WorkedInit,
       EndInit
    DEF InvocationInv
  <1>2. InvocationInv /\ Next => InvocationInv'
    <2> SUFFICES ASSUME InvocationInv, Next PROVE InvocationInv'
      OBVIOUS
    <2> USE DEF InvocationInv
    <2>1. LoadedInv' /\ GitInv'
      BY LoadedStep, GitStep
    <2>2. ChosenInv' /\ TiedInv'
      BY ChosenStep
    <2>3. PoolsInv' /\ ResultsInv' /\ CoverInv' /\ WorkedInv' /\ EndInv'
      BY PoolsStep, ResultsStep, CoverStep, WorkedStep, EndStep
    <2> QED BY <2>1, <2>2, <2>3
  <1>3. InvocationInv /\ [Next]_vars => InvocationInv'
    BY <1>2, InvocationStutter
  <1> QED BY <1>1, <1>3, PTL DEF Spec
-----------------------------------------------------------------------------
\* In every invocation the command line, the project, its preset and the
\* default are heard in that order (merge_preset, normalize and the overrides of
\* main.rs).
THEOREM OptionsAlwaysPrevail == Spec => []OptionsPrevail
  <1>1. InvocationInv => OptionsPrevail
    BY DEF InvocationInv, LoadedInv
  <1> QED BY <1>1, InvocationInvariant, PTL

\* No change in the working tree is missed between the commands that Git is
\* asked, whatever the user stages meanwhile
\* (git_changed_files_with_options).
THEOREM ChangesAreAlwaysSeen == Spec => []ChangesAreSeen
  <1>1. InvocationInv => ChangesAreSeen
    BY ChangesSeen DEF InvocationInv
  <1> QED BY <1>1, InvocationInvariant, PTL

\* The search of each project of an invocation finds the tests that lead to a
\* change and no others (find_related_tests).
THEOREM RelatedAreExact == Spec => []RelatedIsExact
  <1>1. InvocationInv => RelatedIsExact
    BY SearchExact DEF InvocationInv, TiedInv
  <1> QED BY <1>1, InvocationInvariant, PTL

\* The projects of an invocation share their snapshot files, and still a file is
\* what its test has left (run_file and write_snapshot_file).
THEOREM SnapshotsAreOnDisk == Spec => []SnapshotsOnDisk
  <1>1. InvocationInv => SnapshotsOnDisk
    BY FilesOnDisk DEF InvocationInv, PoolsInv
  <1> QED BY <1>1, InvocationInvariant, PTL

\* Each variable has its type in every invocation; an exit code is known at its
\* end and not before, and it is a byte (main).
THEOREM InvocationTypeCorrect == Spec => []InvocationTypeOK
  <1>1. InvocationInv => InvocationTypeOK
    <2> SUFFICES ASSUME InvocationInv PROVE InvocationTypeOK
      OBVIOUS
    <2> USE DEF InvocationInv
    <2>1. asked \in 0 .. 3
      BY QueriesLength DEF GitInv
    <2>2. changed \subseteq Files
      BY DEF GitInv, Mine
    <2>3. SelectionTypeOK
      BY <2>1, <2>2 DEF SelectionTypeOK, GitInv, ChosenInv
    <2>4. RelatedTypeOK
      BY DEF TiedInv, SearchInv
    <2>5. SnapshotTypeOK
      BY DEF PoolsInv, FilesInv
    <2> QED BY <2>3, <2>4, <2>5 DEF InvocationTypeOK, LoadedInv, ResultsInv, ResultsType, EndInv
  <1> QED BY <1>1, InvocationInvariant, PTL

\* The results that emit_results is given are those of every test the run was
\* asked for, in every selected project: a worker that gives no result has an
\* error for it, and a selection by changes has every test they can affect.
THEOREM ResultsAreAlwaysWhole == Spec => []ResultsAreWhole
  <1>1. InvocationInv => ResultsAreWhole
    <2> SUFFICES ASSUME InvocationInv, place = "emit"
                 PROVE  DOMAIN results =
                          UNION {{i} \X (IF Narrowed THEN AffectedTests(i) ELSE Candidates(i).tests) :
                                   i \in Contexts}
      BY DEF ResultsAreWhole
    <2> USE DEF InvocationInv
    <2>1. DOMAIN results = Units /\ context > Len(Executed(config)) /\ context \in Nat
      BY DEF ResultsInv, GitInv
    <2>2. config.error = "none"
      BY DEF LoadedInv
    <2>3. \A i \in Contexts : 0 < context /\ i < context
      BY <2>1, <2>2, ExecutedIsList DEF Contexts, LoadedInv
    <2>4. \A i \in Contexts :
            TestsOf(i).tests = IF Narrowed THEN AffectedTests(i) ELSE Candidates(i).tests
      BY <2>3, TestsAreChosen DEF ChosenInv
    <2>5. \A i \in Contexts : TestsOf(i).tests \subseteq Files
      BY TestsAreChosen, CandidatesAreFiles
    <2>6. Units = UNION {{i} \X TestsOf(i).tests : i \in Contexts}
      BY <2>5 DEF Units
    <2> QED BY <2>1, <2>4, <2>6
  <1> QED BY <1>1, InvocationInvariant, PTL

\* An exit code of 0 is never that of an error: the configuration was loaded,
\* Git answered every command, the tests and the graphs of all projects were
\* found, every cache directory is gone, no pool was broken, the coverage of the
\* tests was merged, every report and the output file are written and every
\* threshold can be judged; and where nothing but the results decides, all tests
\* have passed and the thresholds are met (main and emit_results).
THEOREM SuccessIsAlwaysTold == Spec => []SuccessIsTold
  <1>1. InvocationInv => SuccessIsTold
    BY DEF InvocationInv, EndInv
  <1> QED BY <1>1, InvocationInvariant, PTL
\* Thresholds are judged as the tests have hit the files, for every number of
\* tests, files and points: merge_coverage_maps forgets no hit and counts no
\* point twice, and evaluate_thresholds finds a rule unmet when too few of the
\* points of a part of the files are hit by any test, and only then.
THEOREM ThresholdsAreAlwaysJudged == Spec => []ThresholdsAreJudged
  <1>1. InvocationInv => ThresholdsAreJudged
    BY ThresholdsJudged DEF InvocationInv
  <1> QED BY <1>1, InvocationInvariant, PTL

\* A run that says it was a success has run every test it was asked for in
\* every selected project, each has passed, and the thresholds are met; and no
\* error of any part of it has been swallowed on the way (run, emit_results and
\* main).
THEOREM ExitAlwaysTellsTheTruth == Spec => []ExitTellsTheTruth
  BY ThresholdsAreAlwaysJudged, ResultsAreAlwaysWhole, SuccessIsAlwaysTold, PTL
  DEF ExitTellsTheTruth
=============================================================================
