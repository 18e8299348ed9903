--------------------------- MODULE WatchLoopProofs ---------------------------
(***************************************************************************)
(* Proofs about watch mode and its cycles, for every set of test files,    *)
(* projects and settings; first of all that the shards of a list partition *)
(* it: each position belongs to exactly one of the shards 1..count,        *)
(* however the length and the count divide.                                *)
(***************************************************************************)
EXTENDS WatchLoop, FiniteSetTheorems, SequenceTheorems, TLAPS

\* The shard with a given index.
Nth(i, count) == [index |-> i, count |-> count]

\* The start of a shard, with the quotient and the remainder of n by count.
LEMMA Division ==
  ASSUME NEW n \in Nat, NEW count \in Nat \ {0}
  PROVE  /\ n \div count \in Nat
         /\ n % count \in 0..(count - 1)
         /\ n = count * (n \div count) + (n % count)
  OBVIOUS

\* Start and size are natural numbers.
LEMMA BoundsAreNatural ==
  ASSUME NEW n \in Nat, NEW count \in Nat \ {0}, NEW i \in 1..count
  PROVE  /\ ShardStart(n, Nth(i, count)) \in Nat
         /\ ShardSize(n, Nth(i, count)) \in Nat
  <1> DEFINE q == n \div count
             r == n % count
  <1>1. q \in Nat /\ r \in 0..(count - 1)
    BY Division
  <1> HIDE DEF q, r
  <1>2. (i - 1) * q \in Nat
    BY <1>1
  <1>3. ShardStart(n, Nth(i, count)) = (i - 1) * q + AtMost(i - 1, r)
    BY DEF ShardStart, Nth, q, r
  <1>4. ShardSize(n, Nth(i, count)) = q + (IF i <= r THEN 1 ELSE 0)
    BY DEF ShardSize, Nth, q, r
  <1>. QED
    BY <1>1, <1>2, <1>3, <1>4 DEF AtMost

\* The first shard begins at the first position (shard_bounds).
THEOREM FirstShard ==
  ASSUME NEW n \in Nat, NEW count \in Nat \ {0}
  PROVE  ShardStart(n, Nth(1, count)) = 0
  <1>1. n \div count \in Nat /\ n % count \in Nat
    BY Division
  <1>. QED
    BY <1>1 DEF ShardStart, Nth, AtMost

\* A shard ends where the next one begins (shard_bounds).
THEOREM ShardsAreAdjacent ==
  ASSUME NEW n \in Nat, NEW count \in Nat \ {0}, NEW i \in 1..count, i < count
  PROVE  ShardStart(n, Nth(i + 1, count))
           = ShardStart(n, Nth(i, count)) + ShardSize(n, Nth(i, count))
  <1> DEFINE q == n \div count
             r == n % count
  <1>1. q \in Nat /\ r \in 0..(count - 1)
    BY Division
  <1>3. ShardStart(n, Nth(i, count)) = (i - 1) * q + AtMost(i - 1, r)
    BY DEF ShardStart, Nth
  <1>4. ShardStart(n, Nth(i + 1, count)) = i * q + AtMost(i, r)
    BY DEF ShardStart, Nth
  <1>5. ShardSize(n, Nth(i, count)) = q + (IF i <= r THEN 1 ELSE 0)
    BY DEF ShardSize, Nth
  <1> HIDE DEF q, r
  <1>2. i * q = (i - 1) * q + q /\ (i - 1) * q \in Nat
    BY <1>1
  <1>. QED
    BY <1>1, <1>2, <1>3, <1>4, <1>5 DEF AtMost

\* The last shard ends with the list (shard_bounds).
THEOREM LastShard ==
  ASSUME NEW n \in Nat, NEW count \in Nat \ {0}
  PROVE  ShardStart(n, Nth(count, count)) + ShardSize(n, Nth(count, count)) = n
  <1> DEFINE q == n \div count
             r == n % count
  <1>1. q \in Nat /\ r \in 0..(count - 1) /\ n = count * q + r
    BY Division
  <1>3. ShardStart(n, Nth(count, count)) = (count - 1) * q + AtMost(count - 1, r)
    BY DEF ShardStart, Nth
  <1>5. ShardSize(n, Nth(count, count)) = q + (IF count <= r THEN 1 ELSE 0)
    BY DEF ShardSize, Nth
  <1> HIDE DEF q, r
  <1>2. count * q = (count - 1) * q + q /\ (count - 1) * q \in Nat
    BY <1>1
  <1>. QED
    BY <1>1, <1>2, <1>3, <1>5 DEF AtMost

\* A shard ends before every later one begins.
LEMMA ShardsInOrder ==
  ASSUME NEW n \in Nat, NEW count \in Nat \ {0},
         NEW i \in 1..count, NEW j \in 1..count, i < j
  PROVE  ShardStart(n, Nth(i, count)) + ShardSize(n, Nth(i, count))
           <= ShardStart(n, Nth(j, count))
  <1> DEFINE q == n \div count
             r == n % count
  <1>1. q \in Nat /\ r \in 0..(count - 1)
    BY Division
  <1>3. ShardStart(n, Nth(i, count)) = (i - 1) * q + AtMost(i - 1, r)
    BY DEF ShardStart, Nth
  <1>4. ShardStart(n, Nth(j, count)) = (j - 1) * q + AtMost(j - 1, r)
    BY DEF ShardStart, Nth
  <1>5. ShardSize(n, Nth(i, count)) = q + (IF i <= r THEN 1 ELSE 0)
    BY DEF ShardSize, Nth
  <1> HIDE DEF q, r
  <1>2. PICK d \in Nat : j = i + 1 + d
    BY j - i - 1 \in Nat
  <1>6. (j - 1) * q = (i - 1) * q + q + d * q /\ d * q \in Nat /\ (i - 1) * q \in Nat
    BY <1>1, <1>2
  <1>7. AtMost(i - 1, r) + (IF i <= r THEN 1 ELSE 0) <= AtMost(j - 1, r)
    BY <1>1 DEF AtMost
  <1>8. AtMost(i - 1, r) \in Nat /\ AtMost(j - 1, r) \in Nat
    BY <1>1 DEF AtMost
  <1>. QED
    BY <1>1, <1>3, <1>4, <1>5, <1>6, <1>7, <1>8

\* No position belongs to two shards.
THEOREM ShardsAreDisjoint ==
  ASSUME NEW n \in Nat, NEW count \in Nat \ {0},
         NEW i \in 1..count, NEW j \in 1..count, i # j
  PROVE  Positions(n, Nth(i, count)) \cap Positions(n, Nth(j, count)) = {}
  <1>1. /\ ShardStart(n, Nth(i, count)) \in Nat /\ ShardSize(n, Nth(i, count)) \in Nat
        /\ ShardStart(n, Nth(j, count)) \in Nat /\ ShardSize(n, Nth(j, count)) \in Nat
    BY BoundsAreNatural
  <1>2. CASE i < j
    BY <1>1, <1>2, ShardsInOrder DEF Positions
  <1>3. CASE j < i
    BY <1>1, <1>3, ShardsInOrder DEF Positions
  <1>. QED
    BY <1>2, <1>3

\* Every position belongs to a shard, so that no test is left out (shard_bounds).
\* The witness is computed from the position: the first r shards have q + 1
\* positions, the others q.
THEOREM ShardsCover ==
  ASSUME NEW n \in Nat, NEW count \in Nat \ {0}, NEW k \in 1..n
  PROVE  \E i \in 1..count : k \in Positions(n, Nth(i, count))
  <1> DEFINE q == n \div count
             r == n % count
  <1>1. q \in Nat /\ r \in 0..(count - 1) /\ n = count * q + r
    BY Division
  <1>a. ASSUME NEW i \in 1..count
        PROVE  /\ ShardStart(n, Nth(i, count)) = (i - 1) * q + AtMost(i - 1, r)
               /\ ShardSize(n, Nth(i, count)) = q + (IF i <= r THEN 1 ELSE 0)
    BY DEF ShardStart, ShardSize, Nth
  <1> HIDE DEF q, r
  <1>2. CASE k <= r * (q + 1)
    <2> DEFINE e == (k - 1) \div (q + 1)
               s == (k - 1) % (q + 1)
               i == e + 1
    <2>0. /\ e \in Nat /\ s \in 0..q
          /\ k - 1 = (q + 1) * e + s
      <3> DEFINE w == q + 1
                 x == k - 1
      <3>1. w \in Nat \ {0} /\ x \in Nat
        BY <1>1
      <3>2. e = x \div w /\ s = x % w
        OBVIOUS
      <3> HIDE DEF w, x, e, s
      <3>3. e \in Nat /\ s \in 0..(w - 1) /\ x = w * e + s
        BY <3>1, <3>2, Division
      <3>. QED
        BY <1>1, <3>3 DEF w, x
    <2> HIDE DEF e, s
    <2>1. /\ i \in Nat \ {0} /\ i - 1 \in Nat /\ s \in 0..q
          /\ k - 1 = (q + 1) * (i - 1) + s
      BY <2>0
    <2> HIDE DEF i
    <2>2. i <= r
      <3>1. SUFFICES ASSUME i - 1 >= r PROVE FALSE
        BY <1>1, <2>1
      <3>2. PICK d \in Nat : i - 1 = r + d
        BY <1>1, <2>1, <3>1, i - 1 - r \in Nat
      <3>3. (q + 1) * (i - 1) = r * (q + 1) + d * (q + 1) /\ d * (q + 1) \in Nat
        BY <1>1, <3>2
      <3>4. r * (q + 1) \in Nat
        BY <1>1
      <3>. QED
        BY <1>1, <1>2, <2>1, <3>3, <3>4
    <2>3. i \in 1..count
      BY <1>1, <2>1, <2>2
    <2>4. AtMost(i - 1, r) = i - 1
      BY <1>1, <2>1, <2>2 DEF AtMost
    <2>5. (q + 1) * (i - 1) = (i - 1) * q + (i - 1) /\ (i - 1) * q \in Nat
      BY <1>1, <2>1
    <2>6. /\ ShardStart(n, Nth(i, count)) = (i - 1) * q + (i - 1)
          /\ ShardSize(n, Nth(i, count)) = q + 1
      BY <1>a, <2>2, <2>3, <2>4
    <2>7. k \in Positions(n, Nth(i, count))
      BY <1>1, <2>1, <2>5, <2>6 DEF Positions
    <2>. QED
      BY <2>3, <2>7
  <1>3. CASE k > r * (q + 1)
    <2>0. r * (q + 1) \in Nat /\ k - 1 - r * (q + 1) \in Nat
      BY <1>1, <1>3
    <2>9. q # 0
      <3>1. SUFFICES ASSUME q = 0 PROVE FALSE
        OBVIOUS
      <3>2. count * q = 0 /\ r * (q + 1) = r
        BY <1>1, <3>1
      <3>. QED
        BY <1>1, <1>3, <3>2
    <2> DEFINE e == (k - 1 - r * (q + 1)) \div q
               s == (k - 1 - r * (q + 1)) % q
               i == r + e + 1
    <2>1. /\ e \in Nat /\ s \in 0..(q - 1)
          /\ k - 1 - r * (q + 1) = q * e + s
      BY <1>1, <2>0, <2>9, Division
    <2> HIDE DEF e, s
    <2>2. r + e < count
      <3>1. SUFFICES ASSUME r + e >= count PROVE FALSE
        BY <1>1, <2>1
      <3>2. PICK d \in Nat : e = count - r + d
        BY <1>1, <2>1, <3>1, e - (count - r) \in Nat
      <3>3. q * e = q * count - q * r + q * d /\ q * d \in Nat
        BY <1>1, <3>2
      <3>4. r * (q + 1) = q * r + r /\ count * q = q * count
        BY <1>1
      <3>5. q * r \in Nat /\ q * count \in Nat /\ q * e \in Nat
        BY <1>1, <2>1
      <3>. QED
        BY <1>1, <2>0, <2>1, <3>3, <3>4, <3>5
    <2>3. i \in 1..count /\ i > r /\ i - 1 = r + e
      BY <1>1, <2>1, <2>2
    <2> HIDE DEF i
    <2>4. AtMost(i - 1, r) = r
      BY <1>1, <2>1, <2>3 DEF AtMost
    <2>5. (i - 1) * q + r = r * (q + 1) + q * e /\ q * e \in Nat
      <3>1. (i - 1) * q = r * q + e * q
        BY <1>1, <2>1, <2>3
      <3>2. r * (q + 1) = r * q + r /\ e * q = q * e /\ r * q \in Nat /\ q * e \in Nat
        BY <1>1, <2>1
      <3>. QED
        BY <1>1, <3>1, <3>2
    <2>6. /\ ShardStart(n, Nth(i, count)) = r * (q + 1) + q * e
          /\ ShardSize(n, Nth(i, count)) = q
      BY <1>1, <1>a, <2>3, <2>4, <2>5
    <2>7. k \in Positions(n, Nth(i, count))
      BY <1>1, <2>0, <2>1, <2>5, <2>6 DEF Positions
    <2>. QED
      BY <2>3, <2>7
  <1>. QED
    BY <1>1, <1>2, <1>3, r * (q + 1) \in Nat

\* A shard ends within the list.
LEMMA ShardsEndInList ==
  ASSUME NEW n \in Nat, NEW count \in Nat \ {0}, NEW i \in 1..count
  PROVE  ShardStart(n, Nth(i, count)) + ShardSize(n, Nth(i, count)) <= n
<1>1. CASE i = count
  BY <1>1, LastShard, BoundsAreNatural
<1>2. CASE i < count
  <2>1. count \in 1..count
    OBVIOUS
  <2>2. /\ ShardStart(n, Nth(i, count)) + ShardSize(n, Nth(i, count)) <= ShardStart(n, Nth(count, count))
        /\ ShardStart(n, Nth(count, count)) + ShardSize(n, Nth(count, count)) = n
    BY <1>2, <2>1, LastShard, ShardsInOrder
  <2>3. /\ ShardStart(n, Nth(i, count)) \in Nat /\ ShardSize(n, Nth(i, count)) \in Nat
        /\ ShardStart(n, Nth(count, count)) \in Nat /\ ShardSize(n, Nth(count, count)) \in Nat
    BY <2>1, BoundsAreNatural
  <2> QED
    BY <2>2, <2>3
<1> QED
  BY <1>1, <1>2
-----------------------------------------------------------------------------
Parts == {"sequencer", "hooks", "reporters"}

-----------------------------------------------------------------------------
\* Operators of the cycle are well typed.
LEMMA SessionsTyped ==
  ASSUME CycleTypes
  PROVE  /\ Dropped \in [Parts -> SessionStates]
         /\ \A s \in Parts : Closed(s) \in SessionStates
         /\ NoSessions \in [Parts -> SessionStates]
BY DEF CycleTypes, Dropped, Closed, Parts, SessionStates, NoSessions

LEMMA RecordedType ==
  ASSUME CycleTypes
  PROVE  Recorded \in [Keys \X Paths -> {"none", "passed", "failed"}]
BY DEF CycleTypes, Recorded

LEMMA NoHistoryType == NoHistory \in [Keys \X Paths -> {"none", "passed", "failed"}]
BY DEF NoHistory

LEMMA OrdersAreSequences ==
  ASSUME CycleTypes, NEW o \in NativeOrders \cup CustomOrders
  PROVE  o \in Seq(Units)
<1>1. ASSUME NEW S \in SUBSET Units, NEW n \in Nat, o \in [1..n -> S]
      PROVE  o \in Seq(Units)
  <2>1. o \in [1..n -> Units]
    BY <1>1
  <2> QED
    BY <2>1, SeqDef
<1>2. IsFiniteSet(selected) /\ selected \subseteq Units
  BY FS_Subset, CycleAssumption DEF CycleTypes
<1>3. CASE o \in CustomOrders
  <2>1. Cardinality(selected) \in Nat
    BY <1>2, FS_CardinalityType
  <2> QED
    BY <1>1, <1>2, <1>3, <2>1 DEF CustomOrders, BoundedSeq, SeqOf
<1>4. CASE o \in NativeOrders
  <2> DEFINE units == {u \in ShardedTests : mode.onlyFailures => Performance(u) = "failed"}
  <2>1. units \subseteq Units /\ Cardinality(units) \in Nat
    BY <1>2, FS_Subset, FS_CardinalityType DEF ShardedTests, TestsOfShard
  <2>2. o \in SetToSeqs(units)
    BY <1>4 DEF NativeOrders
  <2> HIDE DEF units
  <2>3. o \in [1..Cardinality(units) -> units]
    BY <2>2 DEF SetToSeqs
  <2> QED
    BY <1>1, <2>1, <2>3
<1> QED
  BY <1>3, <1>4

-----------------------------------------------------------------------------
\* A group of adjacent units is an interval that begins at next.
LEMMA GroupIsInterval ==
  ASSUME CycleTypes
  PROVE  /\ Cardinality(Group) \in Nat /\ IsFiniteSet(Group)
         /\ Group = next..(next + Cardinality(Group) - 1)
         /\ next + Cardinality(Group) <= Len(order) + 1
<1> DEFINE c == Cardinality(Group)
<1>1. next \in Nat /\ Len(order) \in Nat /\ next <= Len(order) + 1
  BY LenProperties DEF CycleTypes
<1>2. Group \subseteq next..Len(order)
  BY DEF Group
<1>3. IsFiniteSet(next..Len(order)) /\ Cardinality(next..Len(order)) = Len(order) + 1 - next
  BY <1>1, FS_Interval
<1>4. IsFiniteSet(Group) /\ c \in Nat /\ c <= Len(order) + 1 - next
  <2>1. IsFiniteSet(Group) /\ c <= Cardinality(next..Len(order))
    BY ONLY <1>2, <1>3, FS_Subset
  <2>2. c \in Nat
    BY ONLY <2>1, FS_CardinalityType
  <2> QED
    BY <1>3, <2>1, <2>2
<1>5. ASSUME NEW i \in Group, NEW j \in next..i
      PROVE  j \in Group
  BY <1>1, <1>5 DEF Group
<1> HIDE DEF c
<1>6. ASSUME NEW i \in next..(next + c - 1)
      PROVE  i \in Group
  <2> SUFFICES ASSUME i \notin Group PROVE FALSE
    OBVIOUS
  <2>1. i \in Nat /\ i - 1 \in Int
    BY <1>1, <1>4
  <2>2. ASSUME NEW j \in Group PROVE j \in next..(i - 1)
    <3>1. j \in Nat /\ next <= j
      BY <1>1, <1>2
    <3>2. ~(i <= j)
      BY <1>1, <1>5, <2>1, <3>1
    <3> QED
      BY <1>1, <2>1, <3>1, <3>2
  <2>3. Group \subseteq next..(i - 1)
    BY <2>2
  <2>4. /\ IsFiniteSet(next..(i - 1))
        /\ Cardinality(next..(i - 1)) = IF next > i - 1 THEN 0 ELSE i - 1 - next + 1
    <3>1. next \in Int
      BY <1>1
    <3> QED
      BY ONLY <2>1, <3>1, FS_Interval
  <2>5. c <= Cardinality(next..(i - 1))
    BY <2>3, <2>4, FS_Subset DEF c
  <2> QED
    BY <1>1, <1>4, <2>1, <2>4, <2>5
<1>7. ASSUME NEW i \in Group
      PROVE  i \in next..(next + c - 1)
  <2>1. i \in Nat /\ next <= i
    BY <1>1, <1>2
  <2>2. next..i \subseteq Group
    BY <1>5
  <2>3. Cardinality(next..i) = i - next + 1
    BY <1>1, <2>1, FS_Interval
  <2>4. Cardinality(next..i) <= Cardinality(Group)
    BY ONLY <1>4, <2>2, FS_Subset
  <2>5. i - next + 1 <= c
    BY <2>3, <2>4 DEF c
  <2> QED
    BY <1>1, <1>4, <2>1, <2>5
<1>8. Group = next..(next + c - 1)
  BY <1>6, <1>7
<1> QED
  BY <1>1, <1>4, <1>8 DEF c

\* Every result that the pool returns keeps the results typed.
LEMMA PoolResultsType ==
  ASSUME CycleTypes, PoolReturns
  PROVE  /\ results' \in [1..Len(order) -> Kinds \cup {"none"}]
         /\ next' \in 1..(Len(order) + 1)
         /\ failures' \in Nat
<1>1. PICK o \in PoolResults :
         /\ results' = [i \in DOMAIN results |-> IF i \in Group THEN o.kept[i] ELSE results[i]]
         /\ failures' = failures + o.failed
  BY DEF PoolReturns
<1>2. o.kept \in [Group -> Kinds \cup {"none"}] /\ o.failed \in Nat
  BY <1>1 DEF PoolResults
<1>3. next' = next + Cardinality(Group)
  BY DEF PoolReturns
<1>4. next \in Nat \ {0} /\ Len(order) \in Nat
  BY LenProperties DEF CycleTypes
<1>5. Cardinality(Group) \in Nat /\ next + Cardinality(Group) <= Len(order) + 1
  BY GroupIsInterval
<1> QED
  BY <1>1, <1>2, <1>3, <1>4, <1>5 DEF CycleTypes

-----------------------------------------------------------------------------
\* The cycle keeps its types.
LEMMA CycleTypesStay == CycleTypes /\ UNCHANGED cycleVars => CycleTypes'
BY DEF CycleTypes, cycleVars

LEMMA StepTypes == CycleTypes /\ CycleStep => CycleTypes'
<1> SUFFICES ASSUME CycleTypes, CycleStep PROVE CycleTypes'
  OBVIOUS
<1> USE SessionsTyped DEF Parts
<1>1. CASE SelectTests
  BY <1>1 DEF CycleTypes, SelectTests, Phases
<1>2. CASE OrderTests
  <2>1. order' \in Seq(Units)
    BY <1>2, OrdersAreSequences DEF OrderTests
  <2>2. results' = [i \in DOMAIN order' |-> "none"] /\ next' = 1
    BY <1>2 DEF OrderTests
  <2>3. Len(order') \in Nat /\ DOMAIN order' = 1..Len(order')
    BY <2>1, LenProperties
  <2>4. sessions' \in [{"sequencer", "hooks", "reporters"} -> SessionStates]
    BY <1>2 DEF OrderTests, CycleTypes, SessionStates
  <2> QED
    BY <1>2, <2>1, <2>2, <2>3, <2>4 DEF CycleTypes, OrderTests, Phases
<1>3. CASE NothingToRun
  BY <1>3 DEF CycleTypes, NothingToRun, Over, Phases
<1>4. CASE BeginRun
  BY <1>4 DEF CycleTypes, BeginRun, Phases
<1>5. CASE StartHooks
  BY <1>5 DEF CycleTypes, StartHooks, Phases, SessionStates
<1>6. CASE StartReporters
  BY <1>6 DEF CycleTypes, StartReporters, Phases, SessionStates
<1>7. CASE RunProject
  BY <1>7 DEF CycleTypes, RunProject, Phases
<1>8. CASE PoolReturns
  BY <1>8, PoolResultsType DEF CycleTypes, PoolReturns, Phases
<1>9. CASE ProjectsDone
  BY <1>9 DEF CycleTypes, ProjectsDone, Phases
<1>10. CASE CloseInterrupted
  BY <1>10 DEF CycleTypes, CloseInterrupted, Over, Phases
<1>11. CASE FinishSequencers
  BY <1>11, RecordedType DEF CycleTypes, FinishSequencers, Phases
<1>12. CASE FinishReporters
  BY <1>12 DEF CycleTypes, FinishReporters, Phases
<1>13. CASE FinishHooks
  BY <1>13 DEF CycleTypes, FinishHooks, Phases
<1>14. CASE Report
  BY <1>14 DEF CycleTypes, Report, Over, Phases
<1> QED
  BY <1>1, <1>2, <1>3, <1>4, <1>5, <1>6, <1>7, <1>8, <1>9, <1>10, <1>11, <1>12, <1>13, <1>14
     DEF CycleStep

LEMMA FailTypes == CycleTypes /\ Fails => CycleTypes'
<1> SUFFICES ASSUME CycleTypes, Fails PROVE CycleTypes'
  OBVIOUS
<1>1. /\ Dropped \in [Parts -> SessionStates]
      /\ [Dropped EXCEPT !.hooks = "left"] \in [Parts -> SessionStates]
      /\ [Dropped EXCEPT !.reporters = "left"] \in [Parts -> SessionStates]
  BY SessionsTyped DEF Parts, SessionStates
<1>2. sessions' \in [Parts -> SessionStates]
  BY <1>1 DEF Fails, Over
<1>3. history' \in [Keys \X Paths -> {"none", "passed", "failed"}]
  BY NoHistoryType DEF Fails, CycleTypes
<1> QED
  BY <1>2, <1>3 DEF CycleTypes, Fails, Over, Phases, Parts

\* A step of the watch loop leaves the cycle alone, starts it, ends it, or is a step
\* of the cycle.
PhaseOnly ==
  /\ phase' \in {"discover", "idle"}
  /\ sessions' \in {sessions, NoSessions}
  /\ UNCHANGED <<selected, order, next, results, failures, history, outcome>>

LEMMA StepOnCycle ==
  [Next]_vars => UNCHANGED cycleVars \/ PhaseOnly \/ CycleStep \/ Fails
BY DEF Next, Main, BeginCycle, PollKeyRunning, PollKeyWaiting, PollChange, Settle, Failed, Join,
       Apply, AbsorbEvent, SelectFails, PollFails, Cycle, CycleFails, Press, Change, Deliver,
       Noise, Ended, vars, cycleVars, PhaseOnly

\* The main thread keeps its types.
LEMMA RelatedModeType ==
  ASSUME mode \in Modes, NEW f \in BOOLEAN
  PROVE  RelatedMode(f) \in Modes
BY DEF RelatedMode, Modes

LEMMA LoopTypesStay ==
  ASSUME TypeOK, [Next]_vars
  PROVE  LoopTypes'
<1> USE DEF TypeOK, LoopTypes
<1>1. CASE Apply
  <2>1. /\ \A f \in BOOLEAN : RelatedMode(f) \in Modes
        /\ RelatedMode(mode.filtered) \in Modes
        /\ [mode EXCEPT !.watch = FALSE, !.onlyChanged = FALSE, !.filtered = FALSE] \in Modes
        /\ [mode EXCEPT !.onlyFailures = ~mode.onlyFailures] \in Modes
        /\ [mode EXCEPT !.update = TRUE] \in Modes
        /\ mode \in Modes
    BY RelatedModeType DEF Modes
  <2>2. mode' \in Modes
    BY <1>1, <2>1 DEF Apply
  <2> QED
    BY <1>1, <2>2 DEF Apply
<1>2. CASE Join
  BY <1>2 DEF Join, Modes
<1>3. CASE BeginCycle
  BY <1>3 DEF BeginCycle
<1>4. CASE PollKeyRunning
  BY <1>4 DEF PollKeyRunning
<1>5. CASE PollKeyWaiting
  BY <1>5 DEF PollKeyWaiting
<1>6. CASE PollChange
  BY <1>6 DEF PollChange, Again
<1>7. CASE Settle
  BY <1>7 DEF Settle, Again
<1>8. CASE Failed \/ SelectFails \/ PollFails
  BY <1>8 DEF Failed, SelectFails, PollFails
<1>9. CASE UNCHANGED <<setup, mode, token, watchVars>>
  BY <1>9 DEF watchVars
<1> QED
  BY <1>1, <1>2, <1>3, <1>4, <1>5, <1>6, <1>7, <1>8, <1>9
  DEF Next, Main, AbsorbEvent, Cycle, CycleFails, Press, Change, Deliver, Noise, Ended, vars

LEMMA WorldTypesStay ==
  ASSUME TypeOK, [Next]_vars
  PROVE  WorldTypes'
<1> USE WatchAssumption DEF TypeOK, WorldTypes
<1>1. CASE \E k \in Presses : Press(k)
  BY <1>1 DEF Press
<1>2. CASE Change
  BY <1>2 DEF Change
<1>3. CASE Deliver
  BY <1>3 DEF Deliver
<1>4. CASE Noise
  BY <1>4 DEF Noise
<1>5. CASE BeginCycle
  BY <1>5 DEF BeginCycle
<1>6. CASE PollKeyRunning \/ PollKeyWaiting
  BY <1>6, HeadTailProperties DEF PollKeyRunning, PollKeyWaiting
<1>7. CASE PollChange
  <2>1. ASSUME NEW i \in DOMAIN events
        PROVE  SubSeq(events, i + 1, Len(events)) \in Seq({"change", "noise"})
    BY <2>1
  <2>2. <<>> \in Seq({"change", "noise"})
    OBVIOUS
  <2>3. events' \in Seq({"change", "noise"})
    BY <1>7, <2>1, <2>2 DEF PollChange
  <2> QED
    BY <1>7, <2>3 DEF PollChange
<1>8. CASE AbsorbEvent
  BY <1>8, HeadTailProperties DEF AbsorbEvent
<1>9. CASE UNCHANGED world
  BY <1>9 DEF world
<1> QED
  BY <1>1, <1>2, <1>3, <1>4, <1>5, <1>6, <1>7, <1>8, <1>9
  DEF Next, Main, Settle, Failed, Join, Apply, SelectFails, PollFails, Cycle, CycleFails, Ended,
      vars, world

\* The variables of watch mode and of its cycles keep their types, for every set of
\* files, projects and settings.
THEOREM TypeCorrect == Spec => []TypeOK
<1>1. Init => TypeOK
  <2> SUFFICES ASSUME Init PROVE TypeOK
    OBVIOUS
  <2>1. CycleTypes
    BY NoHistoryType DEF Init, CycleInit, CycleTypes, Phases, NoSessions, SessionStates
  <2>2. LoopTypes
    BY CycleAssumption DEF Init, CycleInit, LoopTypes, Modes
  <2>3. WorldTypes
    BY WatchAssumption DEF Init, WorldTypes
  <2> QED
    BY <2>1, <2>2, <2>3 DEF TypeOK
<1>2. TypeOK /\ [Next]_vars => TypeOK'
  <2> SUFFICES ASSUME TypeOK, [Next]_vars PROVE TypeOK'
    OBVIOUS
  <2>1. CycleTypes'
    <3>1. CASE PhaseOnly
      BY <3>1, SessionsTyped DEF PhaseOnly, TypeOK, CycleTypes, Phases, Parts
    <3> QED
      BY <3>1, StepOnCycle, CycleTypesStay, StepTypes, FailTypes DEF TypeOK
  <2> QED
    BY <2>1, LoopTypesStay, WorldTypesStay DEF TypeOK
<1> QED
  BY <1>1, <1>2, PTL DEF Spec

-----------------------------------------------------------------------------
\* The cycle's thread acts only between the start of a cycle and its end.
LEMMA CycleIsRunning ==
  CycleStep \/ Fails => phase \notin {"idle", "over"} /\ phase' # "idle"
BY DEF CycleStep, SelectTests, OrderTests, NothingToRun, BeginRun, StartHooks, StartReporters,
       RunProject, PoolReturns, ProjectsDone, CloseInterrupted, FinishSequencers,
       FinishReporters, FinishHooks, Report, Fails, Fallible, Over

\* The main thread selects and applies only while no cycle runs.
NoCycle == pc \in {"select", "apply", "ended"} => phase = "idle"

\* --updateSnapshot is on only for the user's option or for a key, and the key's
\* effect ends with the cycle that it started.
UpdateOnce ==
  /\ mode.update => setup.update \/ updateOnce
  /\ phase = "idle" /\ pc \in {"key", "change", "settle", "apply"} => ~updateOnce
  /\ pc = "select" /\ updateOnce => action = "UpdateSnapshots"

LEMMA NoCycleStays == NoCycle /\ [Next]_vars => NoCycle'
<1> SUFFICES ASSUME NoCycle, [Next]_vars PROVE NoCycle'
  OBVIOUS
<1> USE DEF NoCycle
<1>1. CASE Main
  BY <1>1 DEF Main, BeginCycle, PollKeyRunning, PollKeyWaiting, PollChange, Settle, Failed, Join,
              Apply, Again, cycleVars
<1>2. CASE Cycle \/ CycleFails
  BY <1>2, CycleIsRunning DEF Cycle, CycleFails, watchVars
<1>3. CASE UNCHANGED <<phase, pc>> \/ SelectFails \/ PollFails
  BY <1>3 DEF SelectFails, PollFails, cycleVars
<1> QED
  BY <1>1, <1>2, <1>3
  DEF Next, AbsorbEvent, Press, Change, Deliver, Noise, Ended, vars, cycleVars, watchVars

LEMMA UpdateOnceStays ==
  ASSUME TypeOK, NoCycle, UpdateOnce, [Next]_vars
  PROVE  UpdateOnce'
<1> USE DEF UpdateOnce, NoCycle
<1>0. mode \in Modes
  BY DEF TypeOK, LoopTypes
<1>1. CASE Apply
  <2>1. mode'.update => mode.update \/ action = "UpdateSnapshots"
    BY <1>0, <1>1 DEF Apply, RelatedMode, Modes
  <2> QED
    BY <1>1, <2>1 DEF Apply
<1>2. CASE Join
  <2>1. mode'.update => mode.update /\ (outcome = "error" \/ ~updateOnce)
    BY <1>0, <1>2 DEF Join, Modes
  <2> QED
    BY <1>2, <2>1 DEF Join
<1>3. CASE BeginCycle
  BY <1>3 DEF BeginCycle
<1>4. CASE PollKeyRunning \/ PollKeyWaiting
  BY <1>4 DEF PollKeyRunning, PollKeyWaiting, cycleVars
<1>5. CASE PollChange \/ Settle
  BY <1>5 DEF PollChange, Settle, Again, cycleVars
<1>6. CASE Failed \/ SelectFails \/ PollFails
  BY <1>6 DEF Failed, SelectFails, PollFails, cycleVars
<1>7. CASE Cycle \/ CycleFails
  BY <1>7, CycleIsRunning DEF Cycle, CycleFails, watchVars
<1>8. CASE UNCHANGED <<setup, mode, phase, watchVars>>
  BY <1>8 DEF watchVars
<1> QED
  BY <1>1, <1>2, <1>3, <1>4, <1>5, <1>6, <1>7, <1>8
  DEF Next, Main, AbsorbEvent, Press, Change, Deliver, Noise, Ended, vars, cycleVars, watchVars

\* A cycle runs with --updateSnapshot only if the process was started with it or the
\* key for it was the last action, however keys, changes and cycles interleave.
THEOREM UpdateIsAskedFor == Spec => []UpdateOnlyAsked
<1>1. Init => NoCycle /\ UpdateOnce
  BY DEF Init, CycleInit, NoCycle, UpdateOnce
<1>2. TypeOK /\ NoCycle /\ UpdateOnce /\ [Next]_vars => NoCycle' /\ UpdateOnce'
  BY NoCycleStays, UpdateOnceStays
<1>3. UpdateOnce => UpdateOnlyAsked
  BY DEF UpdateOnce, UpdateOnlyAsked
<1> QED
  BY <1>1, <1>2, <1>3, TypeCorrect, PTL DEF Spec

-----------------------------------------------------------------------------
\* A change that the latest cycle has not seen is pending, in the batch that is being
\* collected, noted as the next action, or was dropped by a key.
ChangeKnown ==
  pc \in {"key", "change", "join"} =>
    begun = disk \/ Pending \/ action = "FilesChanged" \/ token

\* The loop waits without an action.
WaitsForAction ==
  phase = "idle" /\ pc \in {"key", "change", "settle"} => action = "none"

LEMMA WaitsStays ==
  ASSUME NoCycle, WaitsForAction, [Next]_vars
  PROVE  WaitsForAction'
<1> USE DEF WaitsForAction, NoCycle
<1>1. CASE Main
  BY <1>1 DEF Main, BeginCycle, PollKeyRunning, PollKeyWaiting, PollChange, Settle, Failed, Join,
              Apply, Again, cycleVars
<1>2. CASE Cycle \/ CycleFails
  BY <1>2, CycleIsRunning DEF Cycle, CycleFails, watchVars
<1>3. CASE UNCHANGED <<phase, pc, action>> \/ SelectFails \/ PollFails
  BY <1>3 DEF SelectFails, PollFails, cycleVars
<1> QED
  BY <1>1, <1>2, <1>3
  DEF Next, AbsorbEvent, Press, Change, Deliver, Noise, Ended, vars, cycleVars, watchVars

LEMMA ChangeKnownStays ==
  ASSUME TypeOK, NoCycle, ChangeKnown, [Next]_vars
  PROVE  ChangeKnown'
<1> USE DEF ChangeKnown, NoCycle
<1>1. CASE BeginCycle
  BY <1>1 DEF BeginCycle
<1>2. CASE PollKeyRunning \/ PollKeyWaiting
  BY <1>2 DEF PollKeyRunning, PollKeyWaiting, Pending, cycleVars
<1>3. CASE PollChange
  <2>1. CASE pc' = "settle"
    BY <2>1
  <2>2. CASE pc' # "settle"
    BY <1>3, <2>2 DEF PollChange, Pending, Again, ToSet
  <2> QED
    BY <2>1, <2>2
<1>4. CASE Settle
  BY <1>4 DEF Settle
<1>5. CASE Failed \/ SelectFails \/ PollFails \/ Apply
  BY <1>5 DEF Failed, SelectFails, PollFails, Apply
<1>6. CASE Join
  BY <1>6 DEF Join, Pending, world
<1>7. CASE AbsorbEvent
  BY <1>7 DEF AbsorbEvent, watchVars
<1>8. CASE Change
  BY <1>8 DEF Change, Pending, TypeOK, WorldTypes
<1>9. CASE Deliver
  <2>1. "change" \in ToSet(events')
    <3>1. events' = Append(events, "change") /\ events \in Seq({"change", "noise"})
      BY <1>9 DEF Deliver, TypeOK, WorldTypes
    <3>2. Len(events) + 1 \in DOMAIN events' /\ events'[Len(events) + 1] = "change"
      BY <3>1
    <3> QED
      BY <3>2 DEF ToSet
  <2> QED
    BY <1>9, <2>1 DEF Deliver, Pending, watchVars
<1>10. CASE Noise
  <2>1. "change" \notin ToSet(events)
    BY <1>10 DEF Noise, ToSet
  <2> QED
    BY <1>10, <2>1 DEF Noise, Pending, watchVars
<1>11. CASE UNCHANGED <<token, watchVars, disk, unseen, events, begun>>
  BY <1>11 DEF watchVars, Pending
<1> QED
  BY <1>1, <1>2, <1>3, <1>4, <1>5, <1>6, <1>7, <1>8, <1>9, <1>10, <1>11
  DEF Next, Main, Cycle, CycleFails, Press, Ended, vars, watchVars, world

\* While the loop waits, the latest cycle has seen every change that the watcher does
\* not still have to hand over, unless a key interrupted that cycle.
THEOREM ChangeIsKept == Spec => []ChangeNotLost
<1>1. Init => NoCycle /\ WaitsForAction /\ ChangeKnown
  BY DEF Init, CycleInit, NoCycle, WaitsForAction, ChangeKnown
<1>2. TypeOK /\ NoCycle /\ WaitsForAction /\ ChangeKnown /\ [Next]_vars
        => NoCycle' /\ WaitsForAction' /\ ChangeKnown'
  BY NoCycleStays, WaitsStays, ChangeKnownStays
<1>3. WaitsForAction /\ ChangeKnown => ChangeNotLost
  BY DEF WaitsForAction, ChangeKnown, ChangeNotLost
<1> QED
  BY <1>1, <1>2, <1>3, TypeCorrect, PTL DEF Spec

-----------------------------------------------------------------------------
\* Where the sessions are at each place of a cycle.
SessionsSoFar ==
  /\ phase \in {"discover", "order"} => sessions = NoSessions
  /\ phase \in {"begin", "hooks", "reporters", "projects", "pool", "check"} =>
       sessions["sequencer"] \in {"none", "open"}
  /\ phase \in {"begin", "hooks"} => sessions["hooks"] = "none"
  /\ phase \in {"reporters", "projects", "pool", "check", "complete", "teardown"} =>
       sessions["hooks"] \in {"none", "open"}
  /\ phase \in {"complete", "teardown", "report"} => sessions["sequencer"] \in {"none", "closed"}
  /\ phase = "report" => sessions["hooks"] \in {"none", "closed"}
  /\ phase = "over" /\ outcome # "error" =>
       /\ sessions["hooks"] \in {"none", "closed"}
       /\ sessions["sequencer"] \in {"none", "closed"}

LEMMA SessionsStep ==
  ASSUME CycleTypes, SessionsSoFar, CycleStep
  PROVE  SessionsSoFar'
<1> USE DEF SessionsSoFar, CycleTypes
<1>1. CASE SelectTests
  BY <1>1 DEF SelectTests
<1>2. CASE OrderTests
  BY <1>2 DEF OrderTests, NoSessions
<1>3. CASE NothingToRun
  BY <1>3 DEF NothingToRun, Over, Closed
<1>4. CASE BeginRun
  BY <1>4 DEF BeginRun
<1>5. CASE StartHooks
  BY <1>5 DEF StartHooks
<1>6. CASE StartReporters
  BY <1>6 DEF StartReporters
<1>7. CASE RunProject \/ PoolReturns \/ ProjectsDone
  BY <1>7 DEF RunProject, PoolReturns, ProjectsDone
<1>8. CASE CloseInterrupted
  <2>1. Dropped \in [Parts -> SessionStates]
    BY SessionsTyped
  <2> QED
    BY <1>8, <2>1 DEF CloseInterrupted, Over, Closed, Parts
<1>9. CASE FinishSequencers
  BY <1>9 DEF FinishSequencers, Closed
<1>10. CASE FinishReporters \/ FinishHooks
  BY <1>10 DEF FinishReporters, FinishHooks, Closed
<1>11. CASE Report
  BY <1>11 DEF Report, Over
<1> QED
  BY <1>1, <1>2, <1>3, <1>4, <1>5, <1>6, <1>7, <1>8, <1>9, <1>10, <1>11 DEF CycleStep

LEMMA SessionsStay ==
  ASSUME TypeOK, SessionsSoFar, [Next]_vars
  PROVE  SessionsSoFar'
<1>1. CASE BeginCycle \/ Failed \/ Join
  BY <1>1 DEF SessionsSoFar, BeginCycle, Failed, Join
<1>2. CASE CycleStep
  BY <1>2, SessionsStep DEF TypeOK
<1>3. CASE Fails
  BY <1>3 DEF Fails, Over, SessionsSoFar
<1>4. CASE UNCHANGED cycleVars
  BY <1>4 DEF SessionsSoFar, cycleVars
<1> QED
  BY <1>1, <1>2, <1>3, <1>4
  DEF Next, Main, PollKeyRunning, PollKeyWaiting, PollChange, Settle, Apply, AbsorbEvent,
      SelectFails, PollFails, Cycle, CycleFails, Press, Change, Deliver, Noise, Ended, vars

\* A cycle that returns without an error, also an interrupted one, has told the hook
\* process to tear down and has closed the sequencer.
THEOREM TeardownIsReached == Spec => []SetupIsTornDown
<1>1. Init => SessionsSoFar
  BY DEF Init, CycleInit, SessionsSoFar
<1>2. TypeOK /\ SessionsSoFar /\ [Next]_vars => SessionsSoFar'
  BY SessionsStay
<1>3. SessionsSoFar => SetupIsTornDown
  BY DEF SessionsSoFar, SetupIsTornDown
<1> QED
  BY <1>1, <1>2, <1>3, TypeCorrect, PTL DEF Spec

-----------------------------------------------------------------------------
\* The results before next are there, unless the run was stopped, and those from next
\* on are not.
Complete == \A i \in DOMAIN results : results[i] # "none"

ResultsSoFar ==
  /\ phase \in {"begin", "hooks", "reporters", "projects", "pool"} =>
       \A i \in DOMAIN results : i >= next => results[i] = "none"
  /\ phase \in {"begin", "hooks", "reporters"} => next = 1
  /\ phase \in {"projects", "pool"} =>
       token \/ BailReached \/ \A i \in DOMAIN results : i < next => results[i] # "none"
  /\ phase = "pool" => ~BailReached
  /\ phase = "check" => token \/ BailReached \/ Complete

BailKept == setup.bail > 0 => failures < setup.bail + MostFailed

\* What the pool adds to the failed tests.
LEMMA PoolAdds ==
  ASSUME CycleTypes, setup \in Setups, ResultsSoFar, BailKept, PoolReturns
  PROVE  /\ phase' = "projects"
         /\ \A i \in DOMAIN results' : i >= next' => results'[i] = "none"
         /\ setup.bail > 0 => failures' < setup.bail + MostFailed
         /\ \/ token
            \/ setup.bail > 0 /\ failures' >= setup.bail
            \/ \A i \in DOMAIN results' : i < next' => results'[i] # "none"
<1>1. PICK o \in PoolResults :
        /\ results' = [i \in DOMAIN results |-> IF i \in Group THEN o.kept[i] ELSE results[i]]
        /\ failures' = failures + o.failed
  BY DEF PoolReturns
<1> DEFINE all == \A i \in Group : o.kept[i] # "none"
<1>2. /\ next' = next + Cardinality(Group) /\ phase = "pool" /\ phase' = "projects"
      /\ next \in Nat \ {0} /\ DOMAIN results = 1..Len(order) /\ Len(order) \in Nat
  BY LenProperties DEF PoolReturns, CycleTypes
<1>3. setup.bail \in Nat /\ MostFailed \in Nat \ {0} /\ failures \in Nat
  BY CycleAssumption DEF CycleTypes
<1>4. /\ Group = next..(next' - 1) /\ Group \subseteq DOMAIN results /\ next' \in Nat
      /\ IsFiniteSet(Group) /\ next <= next'
  BY <1>2, GroupIsInterval
<1>5. o.failed \in Nat
  BY <1>1 DEF PoolResults
<1>6. /\ Limit > 0 => o.failed < Limit + MostFailed
      /\ all \/ token \/ (Limit > 0 /\ o.failed >= Limit)
  BY <1>1 DEF PoolResults
<1> HIDE DEF all
<1>7. /\ \A i \in DOMAIN results : i \in Nat
      /\ \A i \in Nat : i \in Group <=> next <= i /\ i < next'
  <2>1. \A i \in DOMAIN results : i \in Nat
    BY <1>2
  <2>2. \A i \in Nat : i \in next..(next' - 1) <=> next <= i /\ i < next'
    BY <1>2, <1>4
  <2> QED
    BY <1>4, <2>1, <2>2
<1>8. /\ \A i \in DOMAIN results : i >= next => results[i] = "none"
      /\ token \/ BailReached \/ \A i \in DOMAIN results : i < next => results[i] # "none"
      /\ ~BailReached
  BY <1>2 DEF ResultsSoFar
<1>9. /\ DOMAIN results' = DOMAIN results
      /\ \A i \in DOMAIN results : results'[i] = IF i \in Group THEN o.kept[i] ELSE results[i]
  BY <1>1
<1>10. \A i \in DOMAIN results' : i >= next' => results'[i] = "none"
  <2> SUFFICES ASSUME NEW i \in DOMAIN results, i >= next' PROVE results'[i] = "none"
    BY <1>9
  <2>1. i \in Nat /\ i \notin Group /\ i >= next
    BY <1>2, <1>4, <1>7
  <2> QED
    BY <1>8, <1>9, <2>1
<1>11. /\ setup.bail > 0 => Limit = setup.bail - failures /\ Limit > 0
       /\ setup.bail = 0 => Limit = 0
  BY <1>3, <1>8 DEF Limit, BailReached
<1>12. setup.bail > 0 => failures' < setup.bail + MostFailed
  BY <1>1, <1>3, <1>5, <1>6, <1>11
<1>13. token \/ all \/ (setup.bail > 0 /\ failures' >= setup.bail)
  BY <1>1, <1>3, <1>5, <1>6, <1>11
<1>14. ASSUME all, ~token
       PROVE  \A i \in DOMAIN results' : i < next' => results'[i] # "none"
  <2> SUFFICES ASSUME NEW i \in DOMAIN results, i < next' PROVE results'[i] # "none"
    BY <1>9
  <2>1. CASE i \in Group
    BY <1>14, <1>9, <2>1 DEF all
  <2>2. CASE i \notin Group
    <3>1. i < next
      BY <1>2, <1>4, <1>7, <2>2
    <3>2. results[i] # "none"
      BY <1>8, <1>14, <3>1
    <3> QED
      BY <1>9, <2>2, <3>2
  <2> QED
    BY <2>1, <2>2
<1> QED
  BY <1>2, <1>10, <1>12, <1>13, <1>14

LEMMA ResultsStep ==
  ASSUME CycleTypes, setup \in Setups, ResultsSoFar, BailKept, CycleStep,
         UNCHANGED <<setup, token>>
  PROVE  ResultsSoFar' /\ BailKept'
<1> USE DEF ResultsSoFar, BailKept
<1>0. setup.bail \in Nat /\ next \in Nat /\ MostFailed \in Nat \ {0}
  <2>1. setup.bail \in Nat /\ MostFailed \in Nat \ {0}
    BY CycleAssumption
  <2>2. Len(order) \in Nat /\ next \in 1..(Len(order) + 1)
    BY LenProperties DEF CycleTypes
  <2>3. next \in Nat
    BY <2>2
  <2> QED
    BY <2>1, <2>3
<1>1. CASE SelectTests \/ NothingToRun \/ BeginRun \/ StartHooks
  BY <1>0, <1>1 DEF SelectTests, NothingToRun, BeginRun, StartHooks, Over, BailReached
<1>2. CASE OrderTests
  BY <1>0, <1>2 DEF OrderTests
<1>3. CASE StartReporters
  <2>1. DOMAIN results = 1..Len(order)
    BY DEF CycleTypes
  <2>2. next = 1 /\ \A i \in DOMAIN results : ~(i < next)
    BY <1>3, <2>1, LenProperties DEF StartReporters, CycleTypes
  <2> QED
    BY <1>0, <1>3, <2>2 DEF StartReporters, BailReached
<1>4. CASE RunProject
  BY <1>0, <1>4 DEF RunProject, BailReached
<1>5. CASE PoolReturns
  <2>1. setup.bail > 0 /\ failures' >= setup.bail => BailReached'
    BY DEF BailReached
  <2> QED
    BY <1>0, <1>5, <2>1, PoolAdds
<1>6. CASE ProjectsDone
  <2>1. ASSUME next > Len(order), \A i \in DOMAIN results : i < next => results[i] # "none"
        PROVE  Complete
    BY <1>0, <2>1, LenProperties DEF CycleTypes, Complete
  <2>2. token \/ BailReached \/ Complete
    BY <1>6, <2>1 DEF ProjectsDone
  <2> QED
    BY <1>0, <1>6, <2>2 DEF ProjectsDone, BailReached, Complete
<1>7. CASE CloseInterrupted \/ FinishSequencers \/ FinishReporters \/ FinishHooks \/ Report
  BY <1>0, <1>7 DEF CloseInterrupted, FinishSequencers, FinishReporters, FinishHooks, Report, Over
<1> QED
  BY <1>1, <1>2, <1>3, <1>4, <1>5, <1>6, <1>7 DEF CycleStep

LEMMA ResultsStay ==
  ASSUME TypeOK, NoCycle, ResultsSoFar, BailKept, [Next]_vars
  PROVE  ResultsSoFar' /\ BailKept'
<1>1. setup' = setup /\ setup \in Setups /\ CycleTypes
  BY DEF Next, Main, BeginCycle, PollKeyRunning, PollKeyWaiting, PollChange, Settle, Failed, Join,
         Apply, AbsorbEvent, SelectFails, PollFails, Cycle, CycleFails, Press, Change, Deliver,
         Noise, Ended, vars, TypeOK, LoopTypes
<1>2. CASE BeginCycle \/ Failed \/ Join
  BY <1>1, <1>2 DEF BeginCycle, Failed, Join, ResultsSoFar, BailKept
<1>3. CASE Cycle
  BY <1>1, <1>3, ResultsStep DEF Cycle
<1>4. CASE CycleFails
  BY <1>1, <1>4 DEF CycleFails, Fails, Over, ResultsSoFar, BailKept
<1>5. CASE PollKeyRunning
  BY <1>1, <1>5 DEF PollKeyRunning, cycleVars, ResultsSoFar, BailKept, BailReached, Complete
<1>6. CASE UNCHANGED <<setup, token, cycleVars>>
  BY <1>6 DEF cycleVars, ResultsSoFar, BailKept, BailReached, Complete
<1> QED
  BY <1>2, <1>3, <1>4, <1>5, <1>6
  DEF Next, Main, PollKeyWaiting, PollChange, Settle, Apply, AbsorbEvent, SelectFails, PollFails,
      Press, Change, Deliver, Noise, Ended, vars

LEMMA ResultsInvariant == Spec => [](TypeOK /\ NoCycle /\ ResultsSoFar /\ BailKept)
<1>1. Init => NoCycle /\ ResultsSoFar /\ BailKept
  <2> SUFFICES ASSUME Init PROVE NoCycle /\ ResultsSoFar /\ BailKept
    OBVIOUS
  <2>1. setup.bail \in Nat /\ MostFailed \in Nat \ {0} /\ failures = 0
    BY CycleAssumption DEF Init, CycleInit
  <2>2. phase = "idle" /\ pc = "select"
    BY DEF Init, CycleInit
  <2>3. NoCycle
    BY DEF Init, CycleInit, NoCycle
  <2>4. ResultsSoFar
    BY <2>2 DEF ResultsSoFar
  <2> QED
    BY <2>1, <2>3, <2>4 DEF BailKept
<1>2. TypeOK /\ NoCycle /\ ResultsSoFar /\ BailKept /\ [Next]_vars
        => NoCycle' /\ ResultsSoFar' /\ BailKept'
  BY NoCycleStays, ResultsStay
<1> QED
  BY <1>1, <1>2, TypeCorrect, PTL DEF Spec

\* No project is started past the threshold, or without one, and the failed tests of
\* all projects exceed it by less than those of one file, for any number of projects and
\* in any order of their tests.
THEOREM OneThreshold == Spec => []BailAcrossProjects
<1>1. TypeOK /\ ResultsSoFar /\ BailKept => BailAcrossProjects
  <2> SUFFICES ASSUME TypeOK, ResultsSoFar, BailKept, setup.bail > 0
               PROVE  failures < setup.bail + MostFailed /\ (phase = "pool" => Limit > 0)
    BY DEF BailAcrossProjects
  <2>1. failures \in Nat /\ setup.bail \in Nat
    BY CycleAssumption DEF TypeOK, LoopTypes, CycleTypes
  <2> QED
    BY <2>1 DEF ResultsSoFar, BailKept, BailReached, Limit
<1> QED
  BY <1>1, ResultsInvariant, PTL

\* The performance cache is written only by a run that has a result of each of its
\* files, wherever a cancellation or a failure strikes.
THEOREM CacheIsComplete == Spec => HistoryFromCompleteRuns
<1>1. ResultsSoFar /\ [Next]_vars
        => [history' # history => \A i \in DOMAIN results : results[i] # "none"]_vars
  <2> SUFFICES ASSUME ResultsSoFar, [Next]_vars, history' # history
               PROVE  Complete
    BY DEF Complete
  <2>1. FinishSequencers \/ (Fails /\ phase = "check" /\ ~token /\ ~BailReached)
    BY DEF Next, Main, BeginCycle, PollKeyRunning, PollKeyWaiting, PollChange, Settle, Failed,
           Join, Apply, AbsorbEvent, SelectFails, PollFails, Cycle, CycleFails, Press, Change,
           Deliver, Noise, Ended, vars, cycleVars, CycleStep, SelectTests, OrderTests,
           NothingToRun, BeginRun, StartHooks, StartReporters, RunProject, PoolReturns,
           ProjectsDone, CloseInterrupted, FinishReporters, FinishHooks, Report, Fails
  <2>2. phase = "check" /\ ~token /\ ~BailReached
    BY <2>1 DEF FinishSequencers
  <2> QED
    BY <2>2 DEF ResultsSoFar
<1> QED
  BY <1>1, ResultsInvariant, PTL DEF Spec, HistoryFromCompleteRuns

-----------------------------------------------------------------------------
\* The shards.  The units have different ranks: what their hashes are does not matter.
LEMMA RanksDiffer ==
  \A u, w \in Units : HashRank[u] \in Nat /\ (HashRank[u] = HashRank[w] => u = w)
<1>1. DOMAIN ByHash \subseteq Nat
  BY CycleAssumption, LenProperties
<1>2. \A u \in Units : \E i \in DOMAIN ByHash : ByHash[i] = u
  BY CycleAssumption DEF ToSet
<1>3. \A u \in Units : HashRank[u] \in DOMAIN ByHash /\ ByHash[HashRank[u]] = u
  BY <1>2 DEF HashRank
<1> QED
  BY <1>1, <1>3

\* The selected units that stand up to u in that order.
UpTo(u) == {w \in selected : HashRank[w] <= HashRank[u]}

LEMMA UpToIsFinite ==
  ASSUME selected \subseteq Units
  PROVE  /\ IsFiniteSet(selected) /\ Cardinality(selected) \in Nat
         /\ \A u \in selected : /\ IsFiniteSet(UpTo(u)) /\ Cardinality(UpTo(u)) \in Nat
                                /\ Cardinality(UpTo(u)) <= Cardinality(selected)
                                /\ Place(u) = Cardinality(UpTo(u))
<1>1. IsFiniteSet(selected) /\ Cardinality(selected) \in Nat
  BY CycleAssumption, FS_Subset, FS_CardinalityType
<1>2. ASSUME NEW u \in selected
      PROVE  /\ IsFiniteSet(UpTo(u)) /\ Cardinality(UpTo(u)) \in Nat
             /\ Cardinality(UpTo(u)) <= Cardinality(selected)
             /\ Place(u) = Cardinality(UpTo(u))
  <2>1. UpTo(u) \in SUBSET selected /\ Place(u) = Cardinality(UpTo(u))
    BY DEF UpTo, Place
  <2> QED
    BY <1>1, <2>1, FS_Subset, FS_CardinalityType
<1> QED
  BY <1>1, <1>2

\* The places of the selected units are those of a list of them.
LEMMA PlaceInList ==
  ASSUME selected \subseteq Units, NEW u \in selected
  PROVE  Place(u) \in 1..Cardinality(selected)
<1>1. /\ IsFiniteSet(UpTo(u)) /\ Cardinality(UpTo(u)) \in Nat /\ Cardinality(selected) \in Nat
      /\ Cardinality(UpTo(u)) <= Cardinality(selected) /\ Place(u) = Cardinality(UpTo(u))
  BY UpToIsFinite
<1>2. u \in UpTo(u)
  BY RanksDiffer DEF UpTo
<1>3. Cardinality(UpTo(u)) # 0
  BY <1>1, <1>2, FS_EmptySet
<1> QED
  BY <1>1, <1>3

LEMMA PlacesDiffer ==
  ASSUME selected \subseteq Units, NEW u \in selected, NEW w \in selected, Place(u) = Place(w)
  PROVE  u = w
<1>1. /\ IsFiniteSet(UpTo(u)) /\ IsFiniteSet(UpTo(w))
      /\ Cardinality(UpTo(u)) = Cardinality(UpTo(w))
  BY UpToIsFinite
<1>2. UpTo(u) \subseteq UpTo(w) \/ UpTo(w) \subseteq UpTo(u)
  BY RanksDiffer DEF UpTo
<1>3. UpTo(u) = UpTo(w)
  <2>1. CASE UpTo(u) \subseteq UpTo(w)
    BY <1>1, <2>1, FS_Subset
  <2>2. CASE UpTo(w) \subseteq UpTo(u)
    BY <1>1, <2>2, FS_Subset
  <2> QED
    BY <1>2, <2>1, <2>2
<1>4. HashRank[u] <= HashRank[w] /\ HashRank[w] <= HashRank[u]
  BY <1>3, RanksDiffer DEF UpTo
<1> QED
  BY <1>4, RanksDiffer

\* Whatever a cycle selects, each of its tests is in exactly one of the shards, so that
\* the processes of a sharded run execute all of them, and none twice.
THEOREM ShardsPartition == Spec => []EveryTestInOneShard
<1>1. TypeOK => EveryTestInOneShard
  <2> DEFINE count == setup.shard.count
             n == Cardinality(selected)
  <2> SUFFICES ASSUME TypeOK, NEW u \in selected
               PROVE  \E i \in 1..count :
                        /\ u \in TestsOfShard(Nth(i, count))
                        /\ \A j \in 1..count \ {i} : u \notin TestsOfShard(Nth(j, count))
    BY DEF EveryTestInOneShard, Nth
  <2>1. count \in Nat \ {0}
    BY CycleAssumption DEF TypeOK, LoopTypes, Shards
  <2>2. n \in Nat /\ Place(u) \in 1..n
    BY UpToIsFinite, PlaceInList DEF TypeOK, CycleTypes
  <2> HIDE DEF count, n
  <2>3. PICK i \in 1..count : Place(u) \in Positions(n, Nth(i, count))
    BY <2>1, <2>2, ShardsCover
  <2>4. \A j \in 1..count \ {i} : Place(u) \notin Positions(n, Nth(j, count))
    BY <2>1, <2>2, <2>3, ShardsAreDisjoint
  <2> QED
    BY <2>3, <2>4 DEF TestsOfShard, n
<1> QED
  BY <1>1, TypeCorrect, PTL

\* The number of tests of a shard is the size that shard_bounds says: places are not
\* left free and not taken twice.
THEOREM ShardHasItsSize ==
  ASSUME selected \subseteq Units, NEW count \in Nat \ {0}, NEW i \in 1..count
  PROVE  Cardinality(TestsOfShard(Nth(i, count))) = ShardSize(Cardinality(selected), Nth(i, count))
<1> DEFINE n == Cardinality(selected)
           P == Positions(n, Nth(i, count))
           T == TestsOfShard(Nth(i, count))
           all == [u \in selected |-> Place(u)]
           f == [u \in T |-> Place(u)]
<1>1. n \in Nat /\ IsFiniteSet(selected) /\ \A u \in selected : Place(u) \in 1..n
  BY UpToIsFinite, PlaceInList
<1>2. all \in Injection(selected, 1..n)
  BY <1>1, PlacesDiffer DEF Injection, IsInjective
<1>3. IsFiniteSet(1..n) /\ Cardinality(1..n) = n
  BY <1>1, FS_Interval
<1>4. all \in Surjection(selected, 1..n)
  BY <1>2, <1>3, FS_Injection
<1>5. \A k \in 1..n : \E u \in selected : Place(u) = k
  BY <1>4 DEF Surjection
<1>6. T = {u \in selected : Place(u) \in P}
  BY DEF TestsOfShard
<1>7. /\ ShardStart(n, Nth(i, count)) \in Nat /\ ShardSize(n, Nth(i, count)) \in Nat
      /\ ShardStart(n, Nth(i, count)) + ShardSize(n, Nth(i, count)) <= n
  BY <1>1, BoundsAreNatural, ShardsEndInList
<1>8. P \subseteq 1..n
  BY <1>1, <1>7 DEF Positions
<1>9. IsFiniteSet(P) /\ Cardinality(P) = ShardSize(n, Nth(i, count))
  <2> DEFINE a == ShardStart(n, Nth(i, count))
             z == ShardSize(n, Nth(i, count))
  <2>1. P = (a + 1)..(a + z) /\ a \in Nat /\ z \in Nat
    BY <1>7 DEF Positions
  <2> HIDE DEF a, z, P
  <2>2. /\ IsFiniteSet((a + 1)..(a + z))
        /\ Cardinality((a + 1)..(a + z)) = IF a + 1 > a + z THEN 0 ELSE (a + z) - (a + 1) + 1
    BY <2>1, FS_Interval
  <2>3. IsFiniteSet(P) /\ Cardinality(P) = z
    BY <2>1, <2>2
  <2> QED
    BY <2>3 DEF z
<1>10. f \in Injection(T, P) /\ f \in Surjection(T, P)
  <2>1. \A u, w \in selected : Place(u) = Place(w) => u = w
    BY PlacesDiffer
  <2> HIDE DEF T, P
  <2>2. f \in [T -> P]
    BY <1>6
  <2>3. f \in Injection(T, P)
    BY <1>6, <2>1, <2>2 DEF Injection, IsInjective
  <2>4. f \in Surjection(T, P)
    BY <1>5, <1>6, <1>8, <2>2 DEF Surjection
  <2> QED
    BY <2>3, <2>4
<1> HIDE DEF f, T, P
<1>11. Cardinality(T) = Cardinality(P)
  BY <1>9, <1>10, FS_Injection
<1> QED
  BY <1>9, <1>11 DEF T
=============================================================================
