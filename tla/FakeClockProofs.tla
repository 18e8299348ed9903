--------------------------- MODULE FakeClockProofs ---------------------------
(***************************************************************************)
(* Proofs about FakeClock for every set of timers, of durations and of     *)
(* asynchronous advances.  MaxOps is used only for the type of ops, and    *)
(* MaxTime and MaxRuns not at all: the invariants do not rest on bounds.   *)
(***************************************************************************)
EXTENDS FakeClock, SequenceTheorems, TLAPS

-----------------------------------------------------------------------------
\* The automatic drivers.
DriverInv == DriverTypes /\ OneDriver

LEMMA SwitchKeepsDrivers ==
  ASSUME DriverInv, NEW m \in Modes, m # "manual" => active,
         SwitchTo(m), loopFailed' \in BOOLEAN
  PROVE  DriverInv'
<1>1. counter' \in Nat /\ counter' = counter + 1 /\ counter + 1 \notin loops
  BY DEF DriverInv, DriverTypes, SwitchTo
<1>2. loops' \subseteq 0..counter'
  BY <1>1 DEF DriverInv, DriverTypes, SwitchTo
<1>3. DriverTypes'
  BY <1>1, <1>2 DEF DriverInv, DriverTypes, SwitchTo
<1>4. OneDriver'
  BY <1>1 DEF DriverInv, DriverTypes, OneDriver, SwitchTo, Modes
<1> QED
  BY <1>3, <1>4 DEF DriverInv

LEMMA SettleKeepsDrivers ==
  ASSUME DriverInv, NEW k, Settle(k), loopFailed' \in BOOLEAN, loopFailed => loopFailed'
  PROVE  DriverInv'
<1>1. CASE UNCHANGED driverVars
  BY <1>1 DEF DriverInv, DriverTypes, OneDriver, driverVars
<1>2. CASE active /\ SwitchTo("nextAsync")
  BY <1>2, SwitchKeepsDrivers DEF Modes
<1> QED
  BY <1>1, <1>2 DEF Settle

\* A step of the model leaves the drivers alone, or it is one of a few.
LEMMA DriverSteps ==
  ASSUME [Next]_vars
  PROVE  \/ UNCHANGED <<driverVars, loopFailed>>
         \/ \E m \in Modes : SetTickMode(m)
         \/ \E n \in Epochs : \E advance \in BOOLEAN : Install(n, advance)
         \/ Restore
         \/ active /\ SwitchTo("manual") /\ UNCHANGED loopFailed
         \/ \E k : Settle(k) /\ UNCHANGED loopFailed
         \/ \E c \in loops : LoopTurn(c)
         \/ Throw
<1>1. CASE UNCHANGED vars
  BY <1>1 DEF vars
<1>2. CASE Test
  BY <1>2 DEF Test, Schedule, Refresh, Clear, ClearAll, QueueTick, SetSystemTime, AdvanceBy,
              AdvanceToNext, RunPending, Until, RunTicks, RunAll, StartAsync, Async, handleVars
<1>3. CASE Run
  BY <1>3 DEF Run, UntilFires, UntilEnds, AllFires, AllEnds, TickRuns, TicksEnd, Return,
              TaskBack, LoopBack
<1>4. CASE \E k \in Tasks : Turn(k)
  BY <1>4 DEF Turn, TurnUntil, TurnPending, TurnAll
<1>5. CASE AutoTick \/ Rest
  BY <1>5 DEF AutoTick, Rest, vars
<1> QED
  BY <1>1, <1>2, <1>3, <1>4, <1>5 DEF Next

LEMMA ThrowKeepsDrivers ==
  ASSUME DriverInv, Throw
  PROVE  DriverInv'
<1>1. PICK catcher : ThrowTo(catcher)
  BY DEF Throw
<1> DEFINE frames == {stack[i] : i \in (catcher + 1)..Len(stack)}
           Ended(kinds) == {f \in frames : f.kind \in kinds}
<1>2. loopFailed' = (loopFailed \/ Ended({"loop"}) # {})
  BY <1>1 DEF ThrowTo
<1>3. \/ \E k : Settle(k)
      \/ \E f \in Ended({"until", "loop"}) :
           /\ loops' = loops \ {c \in loops : f.kind = "loop" /\ c = f.n}
           /\ UNCHANGED <<active, mode, counter, auto>>
      \/ UNCHANGED driverVars
  BY <1>1 DEF ThrowTo
<1>4. loopFailed => loopFailed'
  BY <1>2
<1>5. loopFailed' \in BOOLEAN
  BY <1>2 DEF DriverInv, DriverTypes
<1> HIDE DEF Ended
<1>6. CASE \E k : Settle(k)
  BY <1>4, <1>5, <1>6, SettleKeepsDrivers
<1>7. CASE UNCHANGED driverVars
  BY <1>4, <1>5, <1>7 DEF DriverInv, DriverTypes, OneDriver, driverVars
<1>8. ASSUME NEW f \in Ended({"until", "loop"}),
             loops' = loops \ {c \in loops : f.kind = "loop" /\ c = f.n},
             UNCHANGED <<active, mode, counter, auto>>
      PROVE  DriverInv'
  <2>1. f.kind = "loop" => loopFailed'
    <3>1. f.kind = "loop" => f \in Ended({"loop"})
      BY DEF Ended
    <3> QED
      BY <1>2, <3>1
  <2>2. DriverTypes'
    BY <1>5, <1>8 DEF DriverInv, DriverTypes
  <2>3. counter \in loops' => counter \in loops
    BY <1>8
  <2>4. counter \in loops => counter \in loops' \/ loopFailed'
    BY <1>8, <2>1
  <2>5. OneDriver'
    BY <1>4, <1>8, <2>3, <2>4 DEF DriverInv, OneDriver
  <2> QED
    BY <2>2, <2>5 DEF DriverInv
<1> QED
  BY <1>3, <1>6, <1>7, <1>8

LEMMA LoopTurnKeepsDrivers ==
  ASSUME DriverInv, NEW c \in loops, LoopTurn(c)
  PROVE  DriverInv'
<1>1. UNCHANGED <<active, mode, counter, auto, loopFailed>>
  BY DEF LoopTurn
<1>2. UNCHANGED loops \/ (loops' = loops \ {c} /\ ~ (active /\ c = counter))
  BY DEF LoopTurn
<1>3. mode = "nextAsync" => active
  BY DEF DriverInv, OneDriver
<1> QED
  BY <1>1, <1>2, <1>3 DEF DriverInv, DriverTypes, OneDriver

LEMMA DriversBegin ==
  ASSUME Init
  PROVE  DriverInv
<1>1. active \in BOOLEAN /\ auto \in BOOLEAN /\ (auto => active)
  BY DEF Init
<1>2. mode = (IF auto THEN "interval" ELSE "manual") /\ counter \in Nat
      /\ loops = {} /\ loopFailed = FALSE
  BY DEF Init
<1> QED
  BY <1>1, <1>2 DEF DriverInv, DriverTypes, OneDriver, Modes

LEMMA DriversKept ==
  ASSUME DriverInv, [Next]_vars
  PROVE  DriverInv'
<1>1. CASE UNCHANGED <<driverVars, loopFailed>>
  BY <1>1 DEF DriverInv, DriverTypes, OneDriver, driverVars
<1>2. ASSUME NEW m \in Modes, SetTickMode(m)
      PROVE  DriverInv'
  <2>1. active /\ UNCHANGED loopFailed /\ loopFailed \in BOOLEAN
    BY <1>2 DEF SetTickMode, DriverInv, DriverTypes
  <2>2. CASE UNCHANGED driverVars
    BY <2>1, <2>2 DEF DriverInv, DriverTypes, OneDriver, driverVars
  <2>3. CASE SwitchTo(m)
    BY <2>1, <2>3, SwitchKeepsDrivers
  <2> QED
    BY <1>2, <2>2, <2>3 DEF SetTickMode
<1>3. ASSUME NEW n \in Epochs, NEW advance \in BOOLEAN, Install(n, advance)
      PROVE  DriverInv'
  <2>1. counter' \in Nat /\ counter' > counter
    BY <1>3 DEF Install, DriverInv, DriverTypes
  <2>2. UNCHANGED <<loops, loopFailed>> /\ active' = TRUE /\ auto' = advance
        /\ mode' = IF advance THEN "interval" ELSE "manual"
    BY <1>3 DEF Install
  <2>3. counter' \notin loops /\ loops \subseteq 0..counter'
    BY <2>1 DEF DriverInv, DriverTypes
  <2> QED
    BY <2>1, <2>2, <2>3 DEF DriverInv, DriverTypes, OneDriver, Modes
<1>4. CASE Restore
  <2>1. counter' \in Nat /\ counter' > counter /\ UNCHANGED <<loops, loopFailed>>
    BY <1>4 DEF Restore, DriverInv, DriverTypes
  <2>2. counter' \notin loops /\ loops \subseteq 0..counter'
    BY <2>1 DEF DriverInv, DriverTypes
  <2>3. mode' = "manual" /\ auto' = FALSE /\ active' = FALSE
    BY <1>4 DEF Restore
  <2> QED
    BY <2>1, <2>2, <2>3 DEF DriverInv, DriverTypes, OneDriver, Modes
<1>5. CASE active /\ SwitchTo("manual") /\ UNCHANGED loopFailed
  BY <1>5, SwitchKeepsDrivers DEF Modes, DriverInv, DriverTypes
<1>6. CASE \E k : Settle(k) /\ UNCHANGED loopFailed
  BY <1>6, SettleKeepsDrivers DEF DriverInv, DriverTypes
<1>7. CASE (\E c \in loops : LoopTurn(c)) \/ Throw
  BY <1>7, LoopTurnKeepsDrivers, ThrowKeepsDrivers
<1> QED
  BY <1>1, <1>2, <1>3, <1>4, <1>5, <1>6, <1>7, DriverSteps

-----------------------------------------------------------------------------
\* The stack.  A task is at the bottom of it.  The flag is up while an advance is on it,
\* and every advance upon another one has saved that.
Advancing(f) == f.kind \in {"until", "loop"}

Stacks ==
  {s \in Seq(Frames) : \A i \in 1..Len(s) : s[i].kind = "task" => i = 1 /\ s[i].n \in Tasks}

Guarded(s, flag) ==
  \A j \in 1..Len(s) :
    Advancing(s[j]) => flag /\ \A i \in 1..(j - 1) : Advancing(s[i]) => s[j].saved

Sound(s, flag) == s \in Stacks /\ Guarded(s, flag)

LEMMA EmptySound == ASSUME NEW flag PROVE Sound(<<>>, flag)
BY DEF Sound, Stacks, Guarded

LEMMA AppendedFrame ==
  ASSUME NEW s \in Seq(Frames), NEW f \in Frames
  PROVE  /\ Append(s, f) \in Seq(Frames)
         /\ Len(Append(s, f)) = Len(s) + 1
         /\ Len(s) \in Nat
         /\ \A i \in 1..Len(s) : Append(s, f)[i] = s[i]
         /\ Append(s, f)[Len(s) + 1] = f
BY AppendProperties

LEMMA AppendedStack ==
  ASSUME NEW s \in Stacks, NEW f \in Frames, f.kind # "task"
  PROVE  Append(s, f) \in Stacks
<1>1. s \in Seq(Frames) /\ \A i \in 1..Len(s) : s[i].kind = "task" => i = 1 /\ s[i].n \in Tasks
  BY DEF Stacks
<1> DEFINE r == Append(s, f)
<1>2. /\ r \in Seq(Frames) /\ Len(r) = Len(s) + 1 /\ Len(s) \in Nat
      /\ \A i \in 1..Len(s) : r[i] = s[i]
      /\ r[Len(s) + 1] = f
  BY <1>1, AppendedFrame
<1> HIDE DEF r
<1>3. ASSUME NEW i \in 1..Len(r), r[i].kind = "task"
      PROVE  i = 1 /\ r[i].n \in Tasks
  <2>1. i # Len(s) + 1
    BY <1>2, <1>3
  <2>2. i \in 1..Len(s)
    BY <1>2, <2>1
  <2> QED
    BY <1>1, <1>2, <1>3, <2>2
<1>4. r \in Stacks
  BY <1>2, <1>3 DEF Stacks
<1> QED
  BY <1>4 DEF r

LEMMA PushPlain ==
  ASSUME NEW s, NEW flag, Sound(s, flag), NEW f \in Frames, f.kind \notin {"task", "until", "loop"}
  PROVE  Sound(Append(s, f), flag)
<1>1. s \in Seq(Frames)
  BY DEF Sound, Stacks
<1>2. Append(s, f) \in Stacks
  BY <1>1, AppendedStack DEF Sound
<1>3. Guarded(Append(s, f), flag)
  <2>1. ASSUME NEW j \in 1..Len(Append(s, f)), Advancing(Append(s, f)[j])
        PROVE  flag /\ \A i \in 1..(j - 1) : Advancing(Append(s, f)[i]) => Append(s, f)[j].saved
    <3>1. j \in 1..Len(s)
      BY <1>1, <2>1, AppendedFrame DEF Advancing
    <3> QED
      BY <1>1, <2>1, <3>1, AppendedFrame DEF Sound, Guarded
  <2> QED
    BY <2>1 DEF Guarded
<1> QED
  BY <1>2, <1>3 DEF Sound

LEMMA PushAdvance ==
  ASSUME NEW s, NEW flag \in BOOLEAN, Sound(s, flag),
         NEW f \in Frames, Advancing(f), f.saved = flag
  PROVE  Sound(Append(s, f), TRUE)
<1>1. s \in Seq(Frames)
  BY DEF Sound, Stacks
<1>2. Append(s, f) \in Stacks
  BY <1>1, AppendedStack DEF Sound, Advancing
<1>3. Guarded(Append(s, f), TRUE)
  <2>1. ASSUME NEW j \in 1..Len(Append(s, f)), Advancing(Append(s, f)[j]),
               NEW i \in 1..(j - 1), Advancing(Append(s, f)[i])
        PROVE  Append(s, f)[j].saved
    <3>1. i \in 1..Len(s) /\ Append(s, f)[i] = s[i]
      BY <1>1, AppendedFrame
    <3>2. CASE j = Len(s) + 1
      BY <1>1, <2>1, <3>1, <3>2, AppendedFrame DEF Sound, Guarded
    <3>3. CASE j \in 1..Len(s)
      BY <1>1, <2>1, <3>1, <3>3, AppendedFrame DEF Sound, Guarded
    <3> QED
      BY <1>1, <3>2, <3>3, AppendedFrame
  <2> QED
    BY <2>1 DEF Guarded
<1> QED
  BY <1>2, <1>3 DEF Sound

LEMMA CutTo ==
  ASSUME NEW s, NEW flag, Sound(s, flag), NEW c \in 0..Len(s)
  PROVE  /\ Sound(SubSeq(s, 1, c), flag)
         /\ \A j \in (c + 1)..Len(s) : Advancing(s[j]) => Sound(SubSeq(s, 1, c), s[j].saved)
<1>1. s \in Seq(Frames) /\ Len(s) \in Nat
  BY LenProperties DEF Sound, Stacks
<1>2. /\ SubSeq(s, 1, c) \in Seq(Frames) /\ Len(SubSeq(s, 1, c)) = c
      /\ \A i \in 1..c : SubSeq(s, 1, c)[i] = s[i]
  BY <1>1, SubSeqProperties
<1>3. SubSeq(s, 1, c) \in Stacks
  <2>1. \A i \in 1..Len(s) : s[i].kind = "task" => i = 1 /\ s[i].n \in Tasks
    BY DEF Sound, Stacks
  <2>2. ASSUME NEW i \in 1..c, SubSeq(s, 1, c)[i].kind = "task"
        PROVE  i = 1 /\ SubSeq(s, 1, c)[i].n \in Tasks
    BY <1>1, <1>2, <2>1, <2>2
  <2> QED
    BY <1>2, <2>2 DEF Stacks
<1>4. Guarded(SubSeq(s, 1, c), flag)
  BY <1>1, <1>2 DEF Sound, Guarded
<1>5. ASSUME NEW j \in (c + 1)..Len(s), Advancing(s[j])
      PROVE  Guarded(SubSeq(s, 1, c), s[j].saved)
  BY <1>1, <1>2, <1>5 DEF Sound, Guarded
<1> QED
  BY <1>3, <1>4, <1>5 DEF Sound

LEMMA CountUp ==
  ASSUME NEW s, NEW flag, Sound(s, flag), s # <<>>, s[Len(s)].kind \notin {"task", "until", "loop"}
  PROVE  Sound([s EXCEPT ![Len(s)].n = @ + 1], flag)
<1>1. s \in Seq(Frames) /\ Len(s) \in 1..Len(s) /\ s[Len(s)] \in Frames
  BY LenProperties, ElementOfSeq DEF Sound, Stacks
<1> DEFINE f == [s[Len(s)] EXCEPT !.n = @ + 1]
           r == [s EXCEPT ![Len(s)] = f]
<1>2. f \in Frames /\ f.kind = s[Len(s)].kind
  BY <1>1 DEF Frames
<1>3. /\ r \in Seq(Frames) /\ Len(r) = Len(s)
      /\ \A i \in 1..Len(s) : r[i] = IF i = Len(s) THEN f ELSE s[i]
  BY <1>1, <1>2, ExceptSeq
<1>4. r = [s EXCEPT ![Len(s)].n = @ + 1]
  OBVIOUS
<1> HIDE DEF f, r
<1>5. r \in Stacks
  BY <1>1, <1>2, <1>3 DEF Sound, Stacks
<1>6. Guarded(r, flag)
  BY <1>1, <1>2, <1>3 DEF Sound, Guarded, Advancing
<1> QED
  BY <1>4, <1>5, <1>6 DEF Sound

-----------------------------------------------------------------------------
\* What the stack and the asynchronous advances hold, and what the timers hold.
RunScalars ==
  /\ jobs \in Nat /\ duringTick \in BOOLEAN /\ ops \in 0..MaxOps
  /\ tasks \in [Tasks -> TaskStates]

RunInv == RunScalars /\ Sound(stack, duringTick)

TimerInv == TimerTypes /\ NothingOverdue

LEMMA TopType ==
  ASSUME RunInv, stack # <<>>
  PROVE  /\ Len(stack) \in 1..Len(stack) /\ Top = stack[Len(stack)]
         /\ Top \in Frames /\ (Top.kind = "task" => Top.n \in Tasks)
<1>1. stack \in Seq(Frames)
  BY DEF RunInv, Sound, Stacks
<1>2. Len(stack) \in 1..Len(stack) /\ stack[Len(stack)] \in Frames
  BY <1>1, LenProperties, ElementOfSeq
<1> QED
  BY <1>2 DEF Top, RunInv, Sound, Stacks

LEMMA OrderTypes ==
  ASSUME TimerTypes, NEW t
  PROVE  /\ Without(t) \subseteq (pending \ {t}) \X (pending \ {t})
         /\ Reordered(t) \subseteq (pending \cup {t}) \X (pending \cup {t})
BY DEF TimerTypes, Without, Reordered

\* The part of Fire that is about the timers.
FireTimer(t) ==
  /\ now' = due[t]
  /\ IF t \in Intervals
     THEN /\ due' = [due EXCEPT ![t] = due[t] + Period(t)]
          /\ after' = Reordered(t)
          /\ UNCHANGED pending
     ELSE /\ pending' = pending \ {t}
          /\ after' = Without(t)
          /\ UNCHANGED due

LEMMA TimerSteps ==
  ASSUME RunInv, [Next]_vars
  PROVE  \/ UNCHANGED <<timerVars, handleVars>>
         \/ \E t \in Timers : \/ \E d \in Delays : Schedule(t, d)
                              \/ Refresh(t) \/ Clear(t)
         \/ ClearAll \/ Restore
         \/ \E n \in Epochs : SetSystemTime(n) \/ \E advance \in BOOLEAN : Install(n, advance)
         \/ \E t \in pending : IsNext(t) /\ FireTimer(t) /\ UNCHANGED handleVars
         \/ \E n \in Nat : NoneUntil(n) /\ now' = n /\ UNCHANGED <<pending, due, after, handleVars>>
<1>1. CASE UNCHANGED vars
  BY <1>1 DEF vars
<1>2. CASE Test
  BY <1>2 DEF Test, QueueTick, AdvanceBy, AdvanceToNext, RunPending, Until, RunTicks, RunAll,
              SetTickMode, StartAsync, Async
<1>3. CASE Run
  <2>1. CASE UntilFires
    BY <2>1 DEF UntilFires, IsNextUntil, Fire, FireTimer
  <2>2. CASE AllFires
    BY <2>2 DEF AllFires, Fire, FireTimer
  <2>3. CASE UntilEnds
    <3>1. Top.target \in Nat
      BY <2>3, TopType DEF UntilEnds, On, Frames
    <3> QED
      BY <2>3, <3>1 DEF UntilEnds
  <2>4. CASE AllEnds \/ TickRuns \/ TicksEnd \/ Return \/ TaskBack \/ LoopBack
    BY <2>4 DEF AllEnds, TickRuns, TicksEnd, Return, TaskBack, LoopBack
  <2> QED
    BY <1>3, <2>1, <2>2, <2>3, <2>4 DEF Run
<1>4. CASE Throw
  BY <1>4 DEF Throw, ThrowTo
<1>5. ASSUME NEW k \in Tasks, Turn(k)
      PROVE  \/ UNCHANGED <<timerVars, handleVars>>
             \/ \E t \in pending : IsNext(t) /\ FireTimer(t) /\ UNCHANGED handleVars
             \/ \E n \in Nat : NoneUntil(n) /\ now' = n /\ UNCHANGED <<pending, due, after, handleVars>>
  <2>1. UNCHANGED handleVars /\ tasks[k].target \in Nat
    BY <1>5 DEF Turn, RunInv, RunScalars, TaskStates
  <2>2. CASE TurnUntil(k)
    BY <2>1, <2>2 DEF TurnUntil, IsNextUntil, Fire, FireTimer
  <2>3. CASE TurnPending(k)
    BY <2>1, <2>3 DEF TurnPending
  <2>4. CASE TurnAll(k)
    BY <2>1, <2>4 DEF TurnAll, Fire, FireTimer
  <2> QED
    BY <1>5, <2>2, <2>3, <2>4 DEF Turn
<1>6. CASE AutoTick \/ Rest
  BY <1>6 DEF AutoTick, Rest, vars
<1>7. CASE \E c \in loops : LoopTurn(c)
  BY <1>7 DEF LoopTurn, Fire, FireTimer
<1> QED
  BY <1>1, <1>2, <1>3, <1>4, <1>5, <1>6, <1>7 DEF Next

LEMMA FireKeepsTimers ==
  ASSUME TimerInv, NEW t \in pending, IsNext(t), FireTimer(t), UNCHANGED handleVars
  PROVE  TimerInv'
<1>1. t \in Timers /\ due[t] \in Int /\ now \in Nat /\ due[t] >= now /\ now' = due[t]
  BY DEF TimerInv, TimerTypes, NothingOverdue, FireTimer
<1>2. now' \in Nat
  BY <1>1
<1>3. \A s \in pending : due[s] \in Int /\ due[s] >= due[t]
  <2>1. \A s \in pending : due[s] \in Int
    BY DEF TimerInv, TimerTypes
  <2>2. \A s \in pending \ {t} : due[t] < due[s] \/ due[t] = due[s]
    BY DEF IsNext, Precedes
  <2> QED
    BY <1>1, <2>1, <2>2
<1>4. Period(t) \in Nat
  BY <1>1 DEF Period, TimerInv, TimerTypes
<1>5. CASE t \in Intervals
  <2>1. due' = [due EXCEPT ![t] = due[t] + Period(t)] /\ after' = Reordered(t) /\ UNCHANGED pending
    BY <1>5 DEF FireTimer
  <2>2. due' \in [Timers -> Int] /\ after' \subseteq pending' \X pending'
    BY <1>1, <1>4, <2>1, OrderTypes DEF TimerInv, TimerTypes
  <2>3. \A s \in pending' : due'[s] >= now'
    BY <1>1, <1>3, <1>4, <2>1 DEF TimerInv, TimerTypes
  <2> QED
    BY <1>2, <2>1, <2>2, <2>3 DEF TimerInv, TimerTypes, NothingOverdue, handleVars
<1>6. CASE t \notin Intervals
  <2>1. pending' = pending \ {t} /\ after' = Without(t) /\ UNCHANGED due
    BY <1>6 DEF FireTimer
  <2>2. after' \subseteq pending' \X pending'
    BY <2>1, OrderTypes DEF TimerInv
  <2> QED
    BY <1>1, <1>2, <1>3, <2>1, <2>2 DEF TimerInv, TimerTypes, NothingOverdue, handleVars
<1> QED
  BY <1>5, <1>6

\* Schedule and Refresh put a timer into the map.
LEMMA PutKeepsTimers ==
  ASSUME TimerInv, NEW t \in Timers, NEW d \in Nat,
         due' = [due EXCEPT ![t] = now + d], after' = Reordered(t), pending' = pending \cup {t},
         UNCHANGED now, delay' \in [Timers -> Nat], made' \in [Timers -> Nat], UNCHANGED generation
  PROVE  TimerInv'
<1>1. due' \in [Timers -> Int]
  BY DEF TimerInv, TimerTypes
<1>2. after' \subseteq pending' \X pending'
  BY OrderTypes DEF TimerInv
<1>3. \A s \in pending' : due'[s] >= now'
  BY DEF TimerInv, TimerTypes, NothingOverdue
<1> QED
  BY <1>1, <1>2, <1>3 DEF TimerInv, TimerTypes, NothingOverdue

LEMMA ShiftKeepsTimers ==
  ASSUME TimerInv, NEW n \in Epochs, SetSystemTime(n)
  PROVE  TimerInv'
<1>1. n \in Nat /\ now' = n
  BY ClockAssumption DEF SetSystemTime
<1>2. now \in Nat /\ pending \subseteq Timers /\ due \in [Timers -> Int]
  BY DEF TimerInv, TimerTypes
<1>3. /\ due' = [t \in Timers |-> IF t \in pending THEN due[t] + (n - now) ELSE due[t]]
      /\ UNCHANGED <<handleVars, pending, after>>
  BY DEF SetSystemTime
<1>4. due' \in [Timers -> Int]
  BY <1>1, <1>2, <1>3
<1>5. ASSUME NEW t \in pending
      PROVE  due'[t] >= n
  <2>1. due'[t] = due[t] + (n - now) /\ due[t] \in Int /\ due[t] >= now
    BY <1>2, <1>3 DEF TimerInv, NothingOverdue
  <2> QED
    BY <1>1, <1>2, <2>1
<1> QED
  BY <1>1, <1>3, <1>4, <1>5 DEF TimerInv, TimerTypes, NothingOverdue, handleVars

LEMMA TimersKept ==
  ASSUME TimerInv, RunInv, [Next]_vars
  PROVE  TimerInv'
<1>1. CASE UNCHANGED <<timerVars, handleVars>>
  BY <1>1 DEF TimerInv, TimerTypes, NothingOverdue, timerVars, handleVars
<1>2. ASSUME NEW t \in Timers, NEW d \in Delays, Schedule(t, d)
      PROVE  TimerInv'
  <2> DEFINE duration == IF d = 0 /\ duringTick THEN 1 ELSE d
  <2>1. duration \in Nat /\ generation \in Nat
    BY ClockAssumption DEF TimerInv, TimerTypes
  <2>2. /\ delay' = [delay EXCEPT ![t] = duration] /\ made' = [made EXCEPT ![t] = generation]
        /\ due' = [due EXCEPT ![t] = now + duration]
        /\ after' = Reordered(t) /\ pending' = pending \cup {t} /\ UNCHANGED <<now, generation>>
    BY <1>2 DEF Schedule
  <2> HIDE DEF duration
  <2>3. delay' \in [Timers -> Nat] /\ made' \in [Timers -> Nat]
    BY <2>1, <2>2 DEF TimerInv, TimerTypes
  <2> QED
    BY <2>1, <2>2, <2>3, PutKeepsTimers
<1>3. ASSUME NEW t \in Timers, Refresh(t)
      PROVE  TimerInv'
  <2>1. (IF delay[t] = 0 /\ duringTick THEN 1 ELSE delay[t]) \in Nat
    BY DEF TimerInv, TimerTypes
  <2>2. delay' \in [Timers -> Nat] /\ made' \in [Timers -> Nat]
    BY <1>3 DEF Refresh, handleVars, TimerInv, TimerTypes
  <2> QED
    BY <1>3, <2>1, <2>2, PutKeepsTimers DEF Refresh, handleVars
<1>4. ASSUME NEW t \in Timers, Clear(t)
      PROVE  TimerInv'
  <2>1. after' \subseteq pending' \X pending'
    BY <1>4, OrderTypes DEF Clear, TimerInv
  <2> QED
    BY <1>4, <2>1 DEF Clear, handleVars, TimerInv, TimerTypes, NothingOverdue
<1>5. CASE ClearAll \/ Restore
  BY <1>5 DEF ClearAll, Restore, handleVars, TimerInv, TimerTypes, NothingOverdue
<1>6. ASSUME NEW n \in Epochs, NEW advance \in BOOLEAN, Install(n, advance)
      PROVE  TimerInv'
  BY <1>6, ClockAssumption DEF Install, TimerInv, TimerTypes, NothingOverdue
<1>7. ASSUME NEW n \in Nat, NoneUntil(n), now' = n, UNCHANGED <<pending, due, after, handleVars>>
      PROVE  TimerInv'
  <2>1. \A t \in pending : due[t] \in Int /\ due[t] > n
    BY <1>7 DEF NoneUntil, TimerInv, TimerTypes
  <2>2. \A t \in pending' : due'[t] >= now'
    BY <1>7, <2>1
  <2> QED
    BY <1>7, <2>2 DEF handleVars, TimerInv, TimerTypes, NothingOverdue
<1> QED
  BY <1>1, <1>2, <1>3, <1>4, <1>5, <1>6, <1>7, TimerSteps, FireKeepsTimers, ShiftKeepsTimers

-----------------------------------------------------------------------------
\* What a firing timer, and one that ends, do to the stack.
LEMMA PartFrames ==
  /\ Code \in Frames /\ Code.kind = "code"
  /\ Ticks \in Frames /\ Ticks.kind = "jobs"
BY DEF Code, Ticks, Frame, Frames

LEMMA FiredStack ==
  ASSUME NEW base, NEW flag, Sound(base, flag), NEW t, Fire(t, base)
  PROVE  Sound(stack', flag)
<1>1. Sound(Append(base, Ticks), flag)
  BY PartFrames, PushPlain
<1>2. Sound(Append(Append(base, Ticks), Code), flag)
  BY <1>1, PartFrames, PushPlain
<1> QED
  BY <1>2 DEF Fire

LEMMA PairOfFrames ==
  ASSUME NEW f \in Frames, NEW g \in Frames
  PROVE  Append(<<f>>, g) = <<f, g>>
<1>1. <<f>> \in Seq(Frames) /\ Len(<<f>>) = 1 /\ <<f>>[1] = f
  OBVIOUS
<1>2. /\ Append(<<f>>, g) \in Seq(Frames) /\ Len(Append(<<f>>, g)) = 2
      /\ Append(<<f>>, g)[1] = f /\ Append(<<f>>, g)[2] = g
  BY <1>1, AppendedFrame
<1>3. <<f, g>> \in Seq(Frames) /\ Len(<<f, g>>) = 2 /\ <<f, g>>[1] = f /\ <<f, g>>[2] = g
  OBVIOUS
<1>4. \A i \in 1..2 : Append(<<f>>, g)[i] = <<f, g>>[i]
  <2>1. \A i \in 1..2 : i = 1 \/ i = 2
    OBVIOUS
  <2> QED
    BY <1>2, <1>3, <2>1
<1> HIDE DEF Frames
<1> QED
  BY <1>2, <1>3, <1>4, SeqEqual

LEMMA TaskBase ==
  ASSUME NEW k \in Tasks, NEW flag
  PROVE  Sound(<<Frame("task", 0, FALSE, k)>>, flag)
<1> DEFINE f == Frame("task", 0, FALSE, k)
<1>1. f \in Frames /\ f.kind = "task" /\ f.n \in Tasks
  BY ClockAssumption DEF Frame, Frames
<1> HIDE DEF f
<1>2. <<f>> \in Seq(Frames) /\ Len(<<f>>) = 1 /\ <<f>>[1] = f
  BY <1>1
<1>3. <<f>> \in Stacks
  BY <1>1, <1>2 DEF Stacks
<1>4. Guarded(<<f>>, flag)
  BY <1>1, <1>2 DEF Guarded, Advancing
<1> QED
  BY <1>3, <1>4 DEF Sound, f

LEMMA BelowSound ==
  ASSUME RunInv, stack # <<>>
  PROVE  /\ Sound(Below, duringTick)
         /\ Advancing(Top) => Sound(Below, Top.saved)
<1>1. Len(stack) \in 1..Len(stack) /\ Top = stack[Len(stack)]
  BY TopType
<1>2. Len(stack) - 1 \in 0..Len(stack) /\ Len(stack) \in (Len(stack) - 1 + 1)..Len(stack)
  BY <1>1
<1> QED
  BY <1>1, <1>2, CutTo DEF RunInv, Below

-----------------------------------------------------------------------------
\* The types of what runs.
LEMMA CallCounts ==
  ASSUME RunInv, Call
  PROVE  ops' \in 0..MaxOps
BY ClockAssumption DEF Call, RunInv, RunScalars

LEMMA SettledTasks ==
  ASSUME RunInv, NEW k, Settle(k)
  PROVE  tasks' \in [Tasks -> TaskStates]
<1>1. Idle \in TaskStates
  BY DEF Idle, TaskStates
<1> QED
  BY <1>1 DEF Settle, RunInv, RunScalars

LEMMA TestKeepsScalars ==
  ASSUME RunInv, TimerInv, Test
  PROVE  RunScalars'
<1>1. Call
  BY DEF Test, Schedule, Refresh, Clear, ClearAll, QueueTick, SetSystemTime, Install, Restore,
         AdvanceBy, AdvanceToNext, RunPending, Until, RunTicks, RunAll, SetTickMode, StartAsync, Async
<1>2. ops' \in 0..MaxOps
  BY <1>1, CallCounts
<1>3. jobs' \in Nat
  <2>1. jobs' \in {jobs, 0, jobs + 1}
    BY DEF Test, Schedule, Refresh, Clear, ClearAll, QueueTick, SetSystemTime, Install, Restore,
           AdvanceBy, AdvanceToNext, RunPending, Until, RunTicks, RunAll, SetTickMode, StartAsync,
           Async
  <2> QED
    BY <2>1 DEF RunInv, RunScalars
<1>4. duringTick' \in BOOLEAN
  BY DEF Test, Schedule, Refresh, Clear, ClearAll, QueueTick, SetSystemTime, Install, Restore,
         AdvanceBy, AdvanceToNext, RunPending, Until, RunTicks, RunAll, SetTickMode, StartAsync,
         Async, RunInv, RunScalars
<1>5. tasks' \in [Tasks -> TaskStates]
  <2>1. ASSUME NEW k \in Tasks, StartAsync(k)
        PROVE  tasks' \in [Tasks -> TaskStates]
    <3>1. ASSUME NEW kind \in {"until", "pending", "all"}, NEW target \in Nat, Async(k, kind, target)
          PROVE  tasks' \in [Tasks -> TaskStates]
      <4>1. [Idle EXCEPT !.kind = kind, !.at = "first", !.target = target,
                         !.resume = (mode = "nextAsync")] \in TaskStates
        BY DEF Idle, TaskStates
      <4> QED
        BY <3>1, <4>1 DEF Async, RunInv, RunScalars
    <3>2. \A d \in Steps : now + d \in Nat
      BY ClockAssumption DEF TimerInv, TimerTypes
    <3>3. \A t \in pending : due[t] \in Nat
      BY DEF TimerInv, TimerTypes, NothingOverdue
    <3>4. 0 \in Nat
      OBVIOUS
    <3> QED
      BY <2>1, <3>1, <3>2, <3>3, <3>4 DEF StartAsync
  <2>2. CASE ~ \E k \in Tasks : StartAsync(k)
    <3>1. UNCHANGED tasks
      BY <2>2 DEF Test, Schedule, Refresh, Clear, ClearAll, QueueTick, SetSystemTime, Install,
                  Restore, AdvanceBy, AdvanceToNext, RunPending, Until, RunTicks, RunAll, SetTickMode
    <3> QED
      BY <3>1 DEF RunInv, RunScalars
  <2> QED
    BY <2>1, <2>2
<1> QED
  BY <1>2, <1>3, <1>4, <1>5 DEF RunScalars

LEMMA RunKeepsScalars ==
  ASSUME RunInv, Run
  PROVE  RunScalars'
<1>1. CASE UntilFires \/ AllFires \/ AllEnds \/ TickRuns \/ TicksEnd \/ Return
  BY <1>1 DEF UntilFires, AllFires, AllEnds, TickRuns, TicksEnd, Return, RunInv, RunScalars
<1>2. CASE UntilEnds \/ LoopBack
  <2>1. Top.saved \in BOOLEAN
    BY <1>2, TopType DEF UntilEnds, LoopBack, On, Frames
  <2> QED
    BY <1>2, <2>1 DEF UntilEnds, LoopBack, RunInv, RunScalars
<1>3. CASE TaskBack
  <2>1. tasks' \in [Tasks -> TaskStates]
    BY <1>3, SettledTasks DEF TaskBack, RunInv, RunScalars
  <2> QED
    BY <1>3, <2>1 DEF TaskBack, RunInv, RunScalars
<1> QED
  BY <1>1, <1>2, <1>3 DEF Run

LEMMA TurnKeepsScalars ==
  ASSUME RunInv, TimerInv, NEW k \in Tasks, Turn(k)
  PROVE  RunScalars'
<1>1. UNCHANGED ops /\ tasks[k] \in TaskStates /\ tasks \in [Tasks -> TaskStates]
      /\ jobs \in Nat /\ duringTick \in BOOLEAN /\ ops \in 0..MaxOps
  BY DEF Turn, RunInv, RunScalars
<1>2. \A t \in Last : due[t] \in Nat
  BY DEF Last, TimerInv, TimerTypes, NothingOverdue
<1>3. CASE TurnUntil(k)
  <2>1. UNCHANGED jobs /\ duringTick' \in BOOLEAN
    BY <1>1, <1>3 DEF TurnUntil, TaskStates
  <2>2. [tasks[k] EXCEPT !.at = "loop", !.saved = duringTick] \in TaskStates
    BY <1>1 DEF TaskStates
  <2>3. tasks' \in [Tasks -> TaskStates]
    <3>1. CASE Settle(k)
      BY <3>1, SettledTasks
    <3>2. CASE tasks' = [tasks EXCEPT ![k].at = "loop", ![k].saved = duringTick]
      BY <1>1, <2>2, <3>2
    <3>3. CASE tasks' = tasks
      BY <1>1, <3>3
    <3> QED
      BY <1>3, <3>1, <3>2, <3>3 DEF TurnUntil
  <2> QED
    BY <1>1, <2>1, <2>3 DEF RunScalars
<1>4. CASE TurnPending(k)
  <2>1. UNCHANGED <<jobs, duringTick>>
    BY <1>4 DEF TurnPending
  <2>2. [tasks[k] EXCEPT !.at = "last"] \in TaskStates
    BY <1>1 DEF TaskStates
  <2>3. \A t \in Last : [tasks[k] EXCEPT !.kind = "until", !.target = due[t]] \in TaskStates
    BY <1>1, <1>2 DEF TaskStates
  <2>4. tasks' \in [Tasks -> TaskStates]
    <3>1. CASE tasks' = [tasks EXCEPT ![k].at = "last"]
      BY <1>1, <2>2, <3>1
    <3>2. ASSUME NEW t \in Last, tasks' = [tasks EXCEPT ![k].kind = "until", ![k].target = due[t]]
          PROVE  tasks' \in [Tasks -> TaskStates]
      BY <1>1, <2>3, <3>2
    <3> QED
      BY <1>4, <3>1, <3>2 DEF TurnPending
  <2> QED
    BY <1>1, <2>1, <2>4 DEF RunScalars
<1>5. CASE TurnAll(k)
  <2>1. UNCHANGED <<jobs, duringTick>>
    BY <1>5 DEF TurnAll
  <2>2. [tasks[k] EXCEPT !.at = "last"] \in TaskStates
    BY <1>1 DEF TaskStates
  <2>3. [tasks[k] EXCEPT !.at = "loop", !.runs = @ + 1] \in TaskStates
    <3>1. tasks[k].runs + 1 \in Nat
      BY <1>1 DEF TaskStates
    <3> QED
      BY <1>1, <3>1 DEF TaskStates
  <2>4. tasks' \in [Tasks -> TaskStates]
    <3>1. CASE tasks' = [tasks EXCEPT ![k].at = "last"]
      BY <1>1, <2>2, <3>1
    <3>2. CASE tasks' = [tasks EXCEPT ![k].at = "loop", ![k].runs = @ + 1]
      BY <1>1, <2>3, <3>2
    <3>3. CASE Settle(k)
      BY <3>3, SettledTasks
    <3> QED
      BY <1>5, <3>1, <3>2, <3>3 DEF TurnAll
  <2> QED
    BY <1>1, <2>1, <2>4 DEF RunScalars
<1> QED
  BY <1>3, <1>4, <1>5 DEF Turn

\* The frame that ends with an exception: no code is above it, so there is one at most.
LEMMA ThrowCases ==
  ASSUME NEW catcher, ThrowTo(catcher)
  PROVE  /\ stack' = SubSeq(stack, 1, catcher) /\ UNCHANGED <<jobs, ops>>
         /\ \/ UNCHANGED <<duringTick, tasks>>
            \/ \E i \in (catcher + 1)..Len(stack) :
                 \/ /\ stack[i].kind = "task"
                    /\ duringTick' = IF tasks[stack[i].n].kind = "until"
                                     THEN tasks[stack[i].n].saved ELSE duringTick
                    /\ Settle(stack[i].n)
                 \/ Advancing(stack[i]) /\ duringTick' = stack[i].saved /\ UNCHANGED tasks
BY DEF ThrowTo, Advancing

LEMMA ThrowKeepsRun ==
  ASSUME RunInv, Throw
  PROVE  RunInv'
<1>1. stack # <<>>
  BY DEF Throw, On
<1>2. stack \in Seq(Frames) /\ Len(stack) \in Nat /\ Len(stack) >= 1
  BY <1>1, TopType, LenProperties DEF RunInv, Sound, Stacks
<1>3. PICK catcher \in 0..(Len(stack) - 1) : ThrowTo(catcher)
  BY DEF Throw
<1>4. catcher \in 0..Len(stack) /\ stack' = SubSeq(stack, 1, catcher) /\ UNCHANGED <<jobs, ops>>
  BY <1>2, <1>3, ThrowCases
<1>5. CASE UNCHANGED <<duringTick, tasks>>
  BY <1>4, <1>5, CutTo DEF RunInv, RunScalars
<1>6. ASSUME NEW i \in (catcher + 1)..Len(stack), stack[i].kind = "task",
             duringTick' = IF tasks[stack[i].n].kind = "until"
                           THEN tasks[stack[i].n].saved ELSE duringTick,
             Settle(stack[i].n)
      PROVE  RunInv'
  <2>1. i \in 1..Len(stack)
    BY <1>2, <1>3
  <2>2. i = 1 /\ stack[i].n \in Tasks
    BY <1>6, <2>1 DEF RunInv, Sound, Stacks
  <2>3. catcher = 0 /\ stack' = <<>>
    BY <1>2, <1>3, <1>4, <2>2, SubSeqEmpty
  <2>4. duringTick' \in BOOLEAN
    BY <1>6, <2>2 DEF RunInv, RunScalars, TaskStates
  <2>5. tasks' \in [Tasks -> TaskStates]
    BY <1>6, SettledTasks
  <2> QED
    BY <1>4, <2>3, <2>4, <2>5, EmptySound DEF RunInv, RunScalars
<1>7. ASSUME NEW i \in (catcher + 1)..Len(stack), Advancing(stack[i]),
             duringTick' = stack[i].saved, UNCHANGED tasks
      PROVE  RunInv'
  <2>1. i \in 1..Len(stack) /\ stack[i] \in Frames
    BY <1>2, <1>3, ElementOfSeq
  <2>2. Sound(SubSeq(stack, 1, catcher), stack[i].saved)
    BY <1>4, <1>7, CutTo DEF RunInv
  <2> QED
    BY <1>4, <1>7, <2>1, <2>2 DEF RunInv, RunScalars, Frames
<1> QED
  BY <1>3, <1>5, <1>6, <1>7, ThrowCases

\* An advance that begins upon what is there.
LEMMA UntilPushed ==
  ASSUME RunInv, NEW target \in Nat,
         stack' = Append(stack, Frame("until", target, duringTick, 0)), duringTick' = TRUE
  PROVE  Sound(stack', duringTick')
<1> DEFINE f == Frame("until", target, duringTick, 0)
<1>1. duringTick \in BOOLEAN
  BY DEF RunInv, RunScalars
<1>2. f \in Frames /\ Advancing(f) /\ f.saved = duringTick
  BY <1>1 DEF Frame, Frames, Advancing
<1> HIDE DEF f
<1>3. Sound(Append(stack, f), TRUE)
  BY <1>1, <1>2, PushAdvance DEF RunInv
<1> QED
  BY <1>3 DEF f

LEMMA TestKeepsStack ==
  ASSUME RunInv, TimerInv, Test
  PROVE  Sound(stack', duringTick')
<1>1. CASE UNCHANGED <<stack, duringTick>>
  BY <1>1 DEF RunInv
<1>2. ASSUME NEW target \in Nat, Until(target)
      PROVE  Sound(stack', duringTick')
  BY <1>2, UntilPushed DEF Until
<1>3. CASE (\E d \in Steps : AdvanceBy(d)) \/ AdvanceToNext \/ RunPending
  <2>1. \A d \in Steps : now + d \in Nat
    BY ClockAssumption DEF TimerInv, TimerTypes
  <2>2. \A t \in pending : due[t] \in Nat
    BY DEF TimerInv, TimerTypes, NothingOverdue
  <2> QED
    BY <1>2, <1>3, <2>1, <2>2 DEF AdvanceBy, AdvanceToNext, RunPending, Last
<1>4. CASE RunTicks
  BY <1>4, PartFrames, PushPlain DEF RunTicks, RunInv
<1>5. CASE RunAll
  <2>1. Frame("all", 0, FALSE, 0) \in Frames /\ Frame("all", 0, FALSE, 0).kind = "all"
    BY DEF Frame, Frames
  <2> QED
    BY <1>5, <2>1, PushPlain DEF RunAll, RunInv
<1> QED
  BY <1>1, <1>3, <1>4, <1>5
  DEF Test, Schedule, Refresh, Clear, ClearAll, QueueTick, SetSystemTime, Install, Restore,
      SetTickMode, StartAsync, Async

LEMMA RunKeepsStack ==
  ASSUME RunInv, Run
  PROVE  Sound(stack', duringTick')
<1>1. CASE UntilFires
  BY <1>1, FiredStack DEF UntilFires, RunInv
<1>2. CASE AllFires
  <2>1. Sound([stack EXCEPT ![Len(stack)].n = @ + 1], duringTick)
    BY <1>2, CountUp DEF AllFires, On, Top, RunInv
  <2> QED
    BY <1>2, <2>1, FiredStack DEF AllFires
<1>3. CASE TickRuns
  <2>1. Sound([stack EXCEPT ![Len(stack)].n = @ + 1], duringTick)
    BY <1>3, CountUp DEF TickRuns, On, Top, RunInv
  <2> QED
    BY <1>3, <2>1, PartFrames, PushPlain DEF TickRuns
<1>4. CASE UntilEnds \/ LoopBack
  BY <1>4, BelowSound DEF UntilEnds, LoopBack, On, Advancing
<1>5. CASE TicksEnd \/ Return \/ TaskBack
  BY <1>5, BelowSound DEF TicksEnd, Return, TaskBack, On
<1>6. CASE AllEnds
  <2>1. Sound(Below, duringTick)
    BY <1>6, BelowSound DEF AllEnds, On
  <2> QED
    BY <1>6, <2>1, PartFrames, PushPlain DEF AllEnds
<1> QED
  BY <1>1, <1>2, <1>3, <1>4, <1>5, <1>6 DEF Run

LEMMA TurnKeepsStack ==
  ASSUME RunInv, NEW k \in Tasks, Turn(k)
  PROVE  Sound(stack', duringTick')
<1>1. stack = <<>>
  BY DEF Turn
<1>2. \A flag : Sound(<<Frame("task", 0, FALSE, k)>>, flag)
  BY TaskBase
<1>3. Sound(stack', duringTick') \/ stack' = <<>> \/ stack' = <<Frame("task", 0, FALSE, k), Ticks>>
  <2>1. ASSUME NEW t, Fire(t, <<Frame("task", 0, FALSE, k)>>)
        PROVE  Sound(stack', duringTick')
    BY <1>2, <2>1, FiredStack
  <2> QED
    BY <1>1, <2>1 DEF Turn, TurnUntil, TurnPending, TurnAll
<1>4. Sound(Append(<<Frame("task", 0, FALSE, k)>>, Ticks), duringTick')
  BY <1>2, PartFrames, PushPlain
<1>5. Append(<<Frame("task", 0, FALSE, k)>>, Ticks) = <<Frame("task", 0, FALSE, k), Ticks>>
  BY PartFrames, PairOfFrames, ClockAssumption DEF Frame, Frames
<1>6. Sound(<<>>, duringTick')
  BY EmptySound
<1> QED
  BY <1>3, <1>4, <1>5, <1>6

LEMMA LoopTurnKeepsRun ==
  ASSUME RunInv, DriverTypes, NEW c \in loops, LoopTurn(c)
  PROVE  RunInv'
<1>1. UNCHANGED <<jobs, ops, tasks>> /\ stack = <<>> /\ duringTick \in BOOLEAN /\ c \in Nat
  BY DEF LoopTurn, RunInv, RunScalars, DriverTypes
<1>2. CASE UNCHANGED <<stack, duringTick>>
  BY <1>1, <1>2 DEF RunInv, RunScalars
<1> DEFINE f == Frame("loop", 0, duringTick, c)
<1>3. f \in Frames /\ Advancing(f) /\ f.saved = duringTick
  BY <1>1 DEF Frame, Frames, Advancing
<1>4. ASSUME NEW t, Fire(t, <<f>>), duringTick' = TRUE
      PROVE  RunInv'
  <2> HIDE DEF f
  <2>1. Append(<<>>, f) = <<f>>
    OBVIOUS
  <2>2. Sound(<<>>, duringTick)
    BY EmptySound
  <2>3. Sound(<<f>>, TRUE)
    BY <1>1, <1>3, <2>1, <2>2, PushAdvance
  <2>4. Sound(stack', TRUE)
    BY <1>4, <2>3, FiredStack
  <2> QED
    BY <1>1, <1>4, <2>4 DEF RunInv, RunScalars
<1> QED
  BY <1>2, <1>4 DEF LoopTurn

LEMMA RunKept ==
  ASSUME RunInv, TimerInv, DriverTypes, [Next]_vars
  PROVE  RunInv'
<1>1. CASE UNCHANGED vars
  BY <1>1 DEF vars, RunInv, RunScalars
<1>2. CASE Test
  BY <1>2, TestKeepsScalars, TestKeepsStack DEF RunInv
<1>3. CASE Run
  BY <1>3, RunKeepsScalars, RunKeepsStack DEF RunInv
<1>4. CASE \E k \in Tasks : Turn(k)
  BY <1>4, TurnKeepsScalars, TurnKeepsStack DEF RunInv
<1>5. CASE AutoTick
  <2>1. now + Delta \in Nat
    BY ClockAssumption DEF TimerInv, TimerTypes
  <2>2. stack' = Append(stack, Frame("until", now + Delta, duringTick, 0))
    BY <1>5 DEF AutoTick
  <2>3. Sound(stack', duringTick')
    BY <1>5, <2>1, <2>2, UntilPushed DEF AutoTick
  <2> QED
    BY <1>5, <2>3 DEF AutoTick, RunInv, RunScalars
<1>6. CASE Throw \/ \E c \in loops : LoopTurn(c)
  BY <1>6, ThrowKeepsRun, LoopTurnKeepsRun
<1> QED
  BY <1>1, <1>2, <1>3, <1>4, <1>5, <1>6 DEF Next, Rest

-----------------------------------------------------------------------------
\* The map holds timers of the present clock: a new clock begins with none.
LEMMA OwnersKept ==
  ASSUME OnlyOwnTimers, TimerInv, RunInv, [Next]_vars
  PROVE  OnlyOwnTimers'
<1>1. CASE pending' \subseteq pending /\ UNCHANGED handleVars
  BY <1>1 DEF OnlyOwnTimers, handleVars
<1>2. ASSUME NEW t \in Timers, NEW d \in Delays, Schedule(t, d)
      PROVE  OnlyOwnTimers'
  <2>1. /\ made' = [made EXCEPT ![t] = generation] /\ pending' = pending \cup {t}
        /\ UNCHANGED generation
    BY <1>2 DEF Schedule
  <2>2. made \in [Timers -> Nat] /\ pending \subseteq Timers
    BY DEF TimerInv, TimerTypes
  <2> QED
    BY <2>1, <2>2 DEF OnlyOwnTimers
<1>3. ASSUME NEW t \in Timers, Refresh(t)
      PROVE  OnlyOwnTimers'
  BY <1>3 DEF Refresh, OnlyOwnTimers, handleVars
<1>4. CASE Restore \/ ClearAll \/ \E n \in Epochs : \E advance \in BOOLEAN : Install(n, advance)
  BY <1>4 DEF Restore, ClearAll, Install, OnlyOwnTimers
<1>5. CASE \/ UNCHANGED <<timerVars, handleVars>>
           \/ \E t \in Timers : Clear(t)
           \/ \E n \in Epochs : SetSystemTime(n)
           \/ \E t \in pending : FireTimer(t) /\ UNCHANGED handleVars
           \/ UNCHANGED <<pending, handleVars>>
  <2>1. pending' \subseteq pending /\ UNCHANGED handleVars
    BY <1>5 DEF Clear, SetSystemTime, FireTimer, timerVars
  <2> QED
    BY <1>1, <2>1
<1> QED
  BY <1>2, <1>3, <1>4, <1>5, TimerSteps

ClockInv == TimerInv /\ RunInv /\ DriverInv /\ OnlyOwnTimers

LEMMA ClockBegins ==
  ASSUME Init
  PROVE  ClockInv
<1>1. generation \in Nat /\ pending = {} /\ TimerTypes
  BY DEF Init, TimerTypes
<1>2. RunScalars
  <2>1. Idle \in TaskStates
    BY DEF Idle, TaskStates
  <2>2. 0 \in 0..MaxOps
    BY ClockAssumption
  <2>3. jobs = 0 /\ duringTick = FALSE /\ ops = 0 /\ tasks = [k \in Tasks |-> Idle]
    BY DEF Init
  <2> QED
    BY <2>1, <2>2, <2>3 DEF RunScalars
<1>3. Sound(stack, duringTick)
  BY EmptySound DEF Init
<1> QED
  BY <1>1, <1>2, <1>3, DriversBegin DEF ClockInv, TimerInv, NothingOverdue, RunInv, OnlyOwnTimers

LEMMA ClockInvariant == Spec => []ClockInv
<1>1. Init => ClockInv
  BY ClockBegins
<1>2. ClockInv /\ [Next]_vars => ClockInv'
  BY TimersKept, RunKept, DriversKept, OwnersKept DEF ClockInv, DriverInv
<1> QED
  BY <1>1, <1>2, PTL DEF Spec

\* Every variable keeps its type; the virtual time is never negative.
THEOREM TypeCorrect == Spec => []TypeOK
<1>1. ASSUME ClockInv
      PROVE  TypeOK
  <2>1. stack \in Stacks
    BY <1>1 DEF ClockInv, RunInv, Sound
  <2>2. stack \in Seq(Frames) /\ DOMAIN stack = 1..Len(stack)
    BY <2>1, LenProperties DEF Stacks
  <2>3. \A i \in DOMAIN stack : stack[i].kind = "task" => stack[i].n \in Tasks
    BY <2>1, <2>2 DEF Stacks
  <2>4. RunTypes
    BY <1>1, <2>2, <2>3 DEF ClockInv, RunInv, RunScalars, RunTypes
  <2> QED
    BY <1>1, <2>4 DEF ClockInv, TimerInv, DriverInv, TypeOK
<1> QED
  BY <1>1, ClockInvariant, PTL

\* No pending timer is ever in the past: an advance puts the clock at its target only
\* when all timers up to there have fired, and a shift of the clock shifts them, too.
THEOREM NeverOverdue == Spec => []NothingOverdue
<1>1. ClockInv => NothingOverdue
  BY DEF ClockInv, TimerInv
<1> QED
  BY <1>1, ClockInvariant, PTL

\* One driver at most, that of the mode: counters only grow, and a loop has the counter
\* of the switch that started it.
THEOREM OneDriverOwnsClock == Spec => []OneDriver
<1>1. ClockInv => OneDriver
  BY DEF ClockInv, DriverInv
<1> QED
  BY <1>1, ClockInvariant, PTL

\* A handle of an earlier clock cannot put its timer into the present one.
THEOREM EarlierClocksAreOver == Spec => []OnlyOwnTimers
<1>1. ClockInv => OnlyOwnTimers
  BY DEF ClockInv
<1> QED
  BY <1>1, ClockInvariant, PTL

\* The flag is up as long as an advance is on the stack: each one upon another has
\* saved TRUE, and the task that puts its flag back is at the bottom.
THEOREM FlagStaysUp == Spec => []FlagWhileAdvancing
<1>1. ASSUME ClockInv
      PROVE  FlagWhileAdvancing
  <2>1. stack \in Stacks /\ Guarded(stack, duringTick)
    BY <1>1 DEF ClockInv, RunInv, Sound
  <2>2. DOMAIN stack = 1..Len(stack)
    BY <2>1, LenProperties DEF Stacks
  <2> QED
    BY <2>1, <2>2 DEF Guarded, Advancing, FlagWhileAdvancing
<1> QED
  BY <1>1, ClockInvariant, PTL
=============================================================================
