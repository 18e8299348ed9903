------------------------------ MODULE FakeClock ------------------------------
(***************************************************************************)
(* The modern fake timers of a worker (worker.mjs): a virtual clock that   *)
(* test code moves, from the outside or from within a callback, and that   *)
(* asynchronous advances and the two automatic drivers move, too.          *)
(*                                                                         *)
(* JavaScript has one stack: stack holds the loops of fakeTimers that are  *)
(* on it, with a "code" frame for each callback.  When it is empty, the    *)
(* event loop chooses who goes on: test code, the next step of an          *)
(* asynchronous advance, or a driver.                                      *)
(*                                                                         *)
(* Order numbers are only compared, so after holds just the comparisons:   *)
(* <<s, t>> when s got its order before t.  A callback does anything that  *)
(* test code can do.  Callbacks of ticks are only counted.                 *)
(***************************************************************************)
EXTENDS Integers, FiniteSets, Sequences

CONSTANTS
  Timers,    \* the timers that the test creates
  Intervals, \* those made by setInterval
  Delays,    \* delays of timers
  Steps,     \* durations of advances
  Epochs,    \* arguments of setSystemTime, and of now in the options
  Delta,     \* step of the interval driver
  MaxRuns,   \* timerLimit
  Tasks,     \* bound: asynchronous advances at a time
  MaxOps,    \* bound: calls that the test makes
  MaxTime    \* bound: the drivers stop here

ASSUME ClockAssumption ==
  /\ IsFiniteSet(Timers) /\ Intervals \subseteq Timers
  /\ Delays \subseteq Nat /\ Steps \subseteq Nat /\ Epochs \subseteq Nat
  /\ Delta \in Nat \ {0} /\ MaxRuns \in Nat \ {0}
  /\ Tasks \subseteq Nat /\ MaxOps \in Nat /\ MaxTime \in Nat

VARIABLES
  active,     \* fakeTimers.active
  generation, \* fakeTimers.generation
  now,        \* the virtual time
  pending,    \* the timers in the map
  due,        \* callAt
  after,      \* the order of the timers
  delay,      \* of a timer when it was scheduled
  made,       \* generation of a timer's handle, 0 if it does not exist yet
  jobs,       \* number of queued ticks
  duringTick, \* fakeTimers.duringTick
  mode,       \* tickMode
  counter,    \* tickModeCounter
  auto,       \* there is an autoAdvanceHandle
  loops,      \* counters of the nextAsync loops that are alive
  loopFailed, \* a loop ended with an error, which is in fileErrors
  tasks,      \* the asynchronous advances
  stack,      \* the synchronous ones and what they call
  ops         \* calls so far: bounds the test

timerVars == <<now, pending, due, after>>
handleVars == <<generation, delay, made>>
driverVars == <<active, mode, counter, auto, loops>>
vars == <<timerVars, handleVars, driverVars, jobs, duringTick, loopFailed, tasks, stack, ops>>

Modes == {"manual", "interval", "nextAsync"}

\* An asynchronous advance: what it does, at which await it is, the end of its
\* advance, the flag to put back, whether it paused nextAsync, timers it has run.
Idle == [kind |-> "none", at |-> "idle", target |-> 0, saved |-> FALSE, resume |-> FALSE, runs |-> 0]

\* n is the index of "jobs", the runs of "all", and the counter of "loop".
Frame(kind, target, saved, n) == [kind |-> kind, target |-> target, saved |-> saved, n |-> n]
Code == Frame("code", 0, FALSE, 0)
Ticks == Frame("jobs", 0, FALSE, 0)

\* With enableGlobally the worker installs a clock before it loads the test file.
Init ==
  /\ active \in BOOLEAN /\ generation = (IF active THEN 1 ELSE 0) /\ now = 0
  /\ pending = {} /\ after = {} /\ jobs = 0
  /\ due = [t \in Timers |-> 0] /\ delay = [t \in Timers |-> 0] /\ made = [t \in Timers |-> 0]
  /\ duringTick = FALSE
  /\ auto \in (IF active THEN BOOLEAN ELSE {FALSE})
  /\ mode = (IF auto THEN "interval" ELSE "manual")
  /\ counter = generation /\ loops = {} /\ loopFailed = FALSE
  /\ tasks = [k \in Tasks |-> Idle]
  /\ stack = <<>> /\ ops = 0

-----------------------------------------------------------------------------
\* The earliest timer, among equals the one with the lowest order.
Precedes(s, t) == due[s] < due[t] \/ (due[s] = due[t] /\ <<s, t>> \in after)

IsNext(t) == t \in pending /\ \A s \in pending \ {t} : Precedes(t, s)

\* nextFakeTimer(target)
IsNextUntil(t, target) == IsNext(t) /\ due[t] <= target

NoneUntil(target) == \A t \in pending : due[t] > target

\* lastFakeTimer
Last == {t \in pending : \A s \in pending : due[s] <= due[t]}

\* The order without t, and with a new order number for t.
Without(t) == {e \in after : t \notin {e[1], e[2]}}

Reordered(t) == Without(t) \cup {<<s, t>> : s \in pending \ {t}}

\* Mutant: an interval without a delay has none.
Period_Zero(t) == delay[t]

Period(t) == IF delay[t] = 0 THEN 1 ELSE delay[t]

Top == stack[Len(stack)]
Below == SubSeq(stack, 1, Len(stack) - 1)
On(kind) == stack # <<>> /\ Top.kind = kind

\* The delete, the clock and the refill of runTimer; its callback and its
\* runAllTicks go on the stack upon base.
Fire(t, base) ==
  /\ now' = due[t]
  /\ IF t \in Intervals
     THEN /\ due' = [due EXCEPT ![t] = due[t] + Period(t)]
          /\ after' = Reordered(t)
          /\ UNCHANGED pending
     ELSE /\ pending' = pending \ {t}
          /\ after' = Without(t)
          /\ UNCHANGED due
  /\ stack' = Append(Append(base, Ticks), Code)

-----------------------------------------------------------------------------
\* Test code calls the API: between two turns of the event loop or in a callback.
Call ==
  /\ stack = <<>> \/ On("code")
  /\ ops < MaxOps
  /\ ops' = ops + 1

\* scheduleFakeTimer
Schedule(t, d) ==
  LET duration == IF d = 0 /\ duringTick THEN 1 ELSE d
  IN /\ Call /\ active /\ made[t] = 0
     /\ made' = [made EXCEPT ![t] = generation]
     /\ delay' = [delay EXCEPT ![t] = duration]
     /\ due' = [due EXCEPT ![t] = now + duration]
     /\ after' = Reordered(t)
     /\ pending' = pending \cup {t}
     /\ UNCHANGED <<generation, now, driverVars, jobs, duringTick, loopFailed, tasks, stack>>

\* refresh of a handle, also of a timer that has fired or was cleared.
Refresh(t) ==
  /\ Call /\ made[t] = generation /\ generation # 0
  /\ due' = [due EXCEPT ![t] = now + (IF delay[t] = 0 /\ duringTick THEN 1 ELSE delay[t])]
  /\ after' = Reordered(t)
  /\ pending' = pending \cup {t}
  /\ UNCHANGED <<handleVars, now, driverVars, jobs, duringTick, loopFailed, tasks, stack>>

\* clearFakeTimer
Clear(t) ==
  /\ Call /\ t \in pending
  /\ pending' = pending \ {t}
  /\ after' = Without(t)
  /\ UNCHANGED <<handleVars, now, due, driverVars, jobs, duringTick, loopFailed, tasks, stack>>

ClearAll ==
  /\ Call /\ active
  /\ pending' = {} /\ after' = {} /\ jobs' = 0
  /\ UNCHANGED <<handleVars, now, due, driverVars, duringTick, loopFailed, tasks, stack>>

\* process.nextTick and queueMicrotask
QueueTick ==
  /\ Call /\ active
  /\ jobs' = jobs + 1
  /\ UNCHANGED <<handleVars, timerVars, driverVars, duringTick, loopFailed, tasks, stack>>

\* Mutant: the clock is set and the timers stay where they are.
SetSystemTime_ClockOnly(n) ==
  /\ Call /\ active
  /\ now' = n
  /\ UNCHANGED <<handleVars, pending, due, after, driverVars, jobs, duringTick, loopFailed,
                 tasks, stack>>

\* setSystemTime
SetSystemTime(n) ==
  /\ Call /\ active
  /\ now' = n
  /\ due' = [t \in Timers |-> IF t \in pending THEN due[t] + (n - now) ELSE due[t]]
  /\ UNCHANGED <<handleVars, pending, after, driverVars, jobs, duringTick, loopFailed,
                 tasks, stack>>

-----------------------------------------------------------------------------
\* A loop of runTimersUntil begins.
Until(target) ==
  /\ Call /\ active
  /\ stack' = Append(stack, Frame("until", target, duringTick, 0))
  /\ duringTick' = TRUE
  /\ UNCHANGED <<handleVars, timerVars, driverVars, jobs, loopFailed, tasks>>

\* Mutant: a negative duration is accepted.
AdvanceBy_Backwards(d) == Until(now - d)

\* advanceTimersByTime; a negative duration is an error
AdvanceBy(d) == Until(now + d)

\* advanceTimersToNextTimer
AdvanceToNext == \E t \in pending : IsNext(t) /\ Until(due[t])

\* runOnlyPendingTimers, with a timer
RunPending == \E t \in Last : Until(due[t])

\* runAllTicks, and runOnlyPendingTimers without a timer
RunTicks ==
  /\ Call /\ active
  /\ stack' = Append(stack, Ticks)
  /\ UNCHANGED <<handleVars, timerVars, driverVars, jobs, duringTick, loopFailed, tasks>>

\* runAllTimers, which does not set duringTick
RunAll ==
  /\ Call /\ active
  /\ stack' = Append(stack, Frame("all", 0, FALSE, 0))
  /\ UNCHANGED <<handleVars, timerVars, driverVars, jobs, duringTick, loopFailed, tasks>>

\* One turn of a loop that is on top of the stack.
UntilFires ==
  /\ On("until")
  /\ \E t \in pending : IsNextUntil(t, Top.target) /\ Fire(t, stack)
  /\ UNCHANGED <<handleVars, driverVars, jobs, duringTick, loopFailed, tasks, ops>>

UntilEnds ==
  /\ On("until") /\ NoneUntil(Top.target)
  /\ now' = Top.target
  /\ duringTick' = Top.saved
  /\ stack' = Below
  /\ UNCHANGED <<handleVars, pending, due, after, driverVars, jobs, loopFailed, tasks, ops>>

AllFires ==
  /\ On("all") /\ Top.n < MaxRuns
  /\ \E t \in pending : IsNext(t) /\ Fire(t, [stack EXCEPT ![Len(stack)].n = @ + 1])
  /\ UNCHANGED <<handleVars, driverVars, jobs, duringTick, loopFailed, tasks, ops>>

\* The last ticks are run, or the limit is an error that the caller gets.
AllEnds ==
  /\ On("all")
  /\ \/ pending = {} /\ stack' = Append(Below, Ticks)
     \/ pending # {} /\ Top.n = MaxRuns /\ stack' = Below
  /\ UNCHANGED <<handleVars, timerVars, driverVars, jobs, duringTick, loopFailed, tasks, ops>>

\* runAllTicks: the queue is emptied after the last callback, not before.
TickRuns ==
  /\ On("jobs") /\ Top.n < jobs
  /\ stack' = Append([stack EXCEPT ![Len(stack)].n = @ + 1], Code)
  /\ UNCHANGED <<handleVars, timerVars, driverVars, jobs, duringTick, loopFailed, tasks, ops>>

TicksEnd ==
  /\ On("jobs") /\ Top.n >= jobs
  /\ jobs' = 0
  /\ stack' = Below
  /\ UNCHANGED <<handleVars, timerVars, driverVars, duringTick, loopFailed, tasks, ops>>

Return ==
  /\ On("code")
  /\ stack' = Below
  /\ UNCHANGED <<handleVars, timerVars, driverVars, jobs, duringTick, loopFailed, tasks, ops>>

-----------------------------------------------------------------------------
\* The controller of the automatic drivers gets a new generation.
SwitchTo(m) ==
  /\ mode' = m
  /\ counter' = counter + 1
  /\ auto' = (m = "interval")
  /\ loops' = IF m = "nextAsync" THEN loops \cup {counter + 1} ELSE loops
  /\ UNCHANGED active

\* Mutant: the native interval goes on under another mode.
SetTickMode_KeepHandle(m) ==
  /\ Call /\ active
  /\ IF mode = m THEN UNCHANGED driverVars
     ELSE /\ mode' = m
          /\ counter' = counter + 1
          /\ auto' = (auto \/ m = "interval")
          /\ loops' = IF m = "nextAsync" THEN loops \cup {counter + 1} ELSE loops
          /\ UNCHANGED active
  /\ UNCHANGED <<handleVars, timerVars, jobs, duringTick, loopFailed, tasks, stack>>

\* setTimerTickMode: nothing happens in the same mode.
SetTickMode(m) ==
  /\ Call /\ active
  /\ IF mode = m THEN UNCHANGED driverVars ELSE SwitchTo(m)
  /\ UNCHANGED <<handleVars, timerVars, jobs, duringTick, loopFailed, tasks, stack>>

\* installFakeTimers, upon restoreRealTimers if a clock is active.  advance is the
\* option advanceTimers.  Neither puts duringTick back.
Install(n, advance) ==
  /\ Call
  /\ active' = TRUE
  /\ generation' = generation + 1
  /\ now' = n /\ pending' = {} /\ after' = {} /\ jobs' = 0
  /\ mode' = IF advance THEN "interval" ELSE "manual"
  /\ auto' = advance
  /\ counter' = counter + (IF active THEN 2 ELSE 1)
  /\ UNCHANGED <<due, delay, made, loops, duringTick, loopFailed, tasks, stack>>

\* restoreRealTimers
Restore ==
  /\ Call
  /\ active' = FALSE
  /\ pending' = {} /\ after' = {} /\ jobs' = 0
  /\ mode' = "manual" /\ auto' = FALSE /\ counter' = counter + 1
  /\ UNCHANGED <<handleVars, now, due, loops, duringTick, loopFailed, tasks, stack>>

-----------------------------------------------------------------------------
\* An asynchronous advance begins: withPausedNextAsyncMode.
Async(k, kind, target) ==
  /\ Call /\ active
  /\ tasks[k] = Idle
  /\ tasks' = [tasks EXCEPT ![k] =
       [Idle EXCEPT !.kind = kind, !.at = "first", !.target = target,
                    !.resume = (mode = "nextAsync")]]
  /\ IF mode = "nextAsync" THEN SwitchTo("manual") ELSE UNCHANGED driverVars
  /\ UNCHANGED <<handleVars, timerVars, jobs, duringTick, loopFailed, stack>>

\* advanceTimersByTimeAsync, advanceTimersToNextTimerAsync with one step and a timer,
\* runOnlyPendingTimersAsync, runAllTimersAsync
StartAsync(k) ==
  \/ \E d \in Steps : Async(k, "until", now + d)
  \/ \E t \in pending : IsNext(t) /\ Async(k, "until", due[t])
  \/ Async(k, "pending", 0)
  \/ Async(k, "all", 0)

\* The promise of an advance settles, and nextAsync goes on if it was paused.
Settle(k) ==
  /\ tasks' = [tasks EXCEPT ![k] = Idle]
  /\ IF tasks[k].resume /\ active /\ mode # "nextAsync"
     THEN SwitchTo("nextAsync") ELSE UNCHANGED driverVars

\* A native timeout brings an advance to its next step.
TurnUntil(k) ==
  LET first == tasks[k].at = "first"
  IN /\ tasks[k].kind = "until"
     /\ IF NoneUntil(tasks[k].target)
        THEN /\ now' = tasks[k].target
             /\ duringTick' = IF first THEN duringTick ELSE tasks[k].saved
             /\ Settle(k)
             /\ UNCHANGED <<pending, due, after, jobs, stack>>
        ELSE /\ \E t \in pending : /\ IsNextUntil(t, tasks[k].target)
                                   /\ Fire(t, <<Frame("task", 0, FALSE, k)>>)
             /\ duringTick' = (first \/ duringTick)
             /\ tasks' = IF first
                         THEN [tasks EXCEPT ![k].at = "loop", ![k].saved = duringTick]
                         ELSE tasks
             /\ UNCHANGED <<driverVars, jobs>>

\* The end of runOnlyPendingTimersAsync is known only now.
TurnPending(k) ==
  /\ tasks[k].kind = "pending"
  /\ IF pending = {}
     THEN /\ stack' = <<Frame("task", 0, FALSE, k), Ticks>>
          /\ tasks' = [tasks EXCEPT ![k].at = "last"]
     ELSE /\ \E t \in Last :
               tasks' = [tasks EXCEPT ![k].kind = "until", ![k].target = due[t]]
          /\ UNCHANGED stack
  /\ UNCHANGED <<timerVars, driverVars, jobs, duringTick>>

TurnAll(k) ==
  /\ tasks[k].kind = "all"
  /\ \/ /\ pending = {}
        /\ stack' = <<Frame("task", 0, FALSE, k), Ticks>>
        /\ tasks' = [tasks EXCEPT ![k].at = "last"]
        /\ UNCHANGED <<timerVars, driverVars>>
     \/ /\ pending # {} /\ tasks[k].runs = MaxRuns
        /\ Settle(k)
        /\ UNCHANGED <<timerVars, stack>>
     \/ /\ tasks[k].runs < MaxRuns
        /\ \E t \in pending : IsNext(t) /\ Fire(t, <<Frame("task", 0, FALSE, k)>>)
        /\ tasks' = [tasks EXCEPT ![k].at = "loop", ![k].runs = @ + 1]
        /\ UNCHANGED driverVars
  /\ UNCHANGED <<jobs, duringTick>>

Turn(k) ==
  /\ stack = <<>>
  /\ TurnUntil(k) \/ TurnPending(k) \/ TurnAll(k)
  /\ UNCHANGED <<handleVars, loopFailed, ops>>

\* The callback of an advance is done: it awaits its next step, or settles.
TaskBack ==
  /\ On("task")
  /\ stack' = Below
  /\ IF tasks[Top.n].at = "last" THEN Settle(Top.n) ELSE UNCHANGED <<tasks, driverVars>>
  /\ UNCHANGED <<handleVars, timerVars, jobs, duringTick, loopFailed, ops>>

\* The native interval: a synchronous advance.
AutoTick ==
  /\ stack = <<>> /\ auto /\ now < MaxTime
  /\ stack' = <<Frame("until", now + Delta, duringTick, 0)>>
  /\ duringTick' = TRUE
  /\ UNCHANGED <<handleVars, timerVars, driverVars, jobs, loopFailed, tasks, ops>>

\* A turn of a nextAsync loop; that of an older generation ends.
LoopTurn(c) ==
  /\ stack = <<>> /\ c \in loops /\ now < MaxTime
  /\ IF active /\ c = counter
     THEN /\ \E t \in pending : IsNext(t) /\ Fire(t, <<Frame("loop", 0, duringTick, c)>>)
          /\ duringTick' = TRUE
          /\ UNCHANGED loops
     ELSE /\ loops' = loops \ {c}
          /\ UNCHANGED <<timerVars, stack, duringTick>>
  /\ UNCHANGED <<handleVars, active, mode, counter, auto, jobs, loopFailed, tasks, ops>>

LoopBack ==
  /\ On("loop")
  /\ duringTick' = Top.saved
  /\ stack' = Below
  /\ UNCHANGED <<handleVars, timerVars, driverVars, jobs, loopFailed, tasks, ops>>

-----------------------------------------------------------------------------
\* The frame of test code that gets the exception of the callback on top, the one that
\* made the latest call, or 0.
IsCatcher(c) ==
  /\ c = 0 \/ stack[c].kind = "code"
  /\ \A i \in (c + 1)..(Len(stack) - 1) : stack[i].kind # "code"

\* A callback throws: the loops above the catcher end, and each puts back the flag
\* that it has saved.  A nextAsync loop is over then.
ThrowTo(catcher) ==
  LET ended(kinds) == {f \in {stack[i] : i \in (catcher + 1)..Len(stack)} : f.kind \in kinds}
  IN /\ stack' = SubSeq(stack, 1, catcher)
     /\ loopFailed' = (loopFailed \/ ended({"loop"}) # {})
     /\ \/ \E f \in ended({"task"}) :
             /\ duringTick' = IF tasks[f.n].kind = "until" THEN tasks[f.n].saved ELSE duringTick
             /\ Settle(f.n)
        \/ \E f \in ended({"until", "loop"}) :
             /\ duringTick' = f.saved
             /\ loops' = loops \ {c \in loops : f.kind = "loop" /\ c = f.n}
             /\ UNCHANGED <<tasks, active, mode, counter, auto>>
        \/ /\ ended({"task", "until", "loop"}) = {}
           /\ UNCHANGED <<duringTick, driverVars, tasks>>
     /\ UNCHANGED <<handleVars, timerVars, jobs, ops>>

Throw ==
  /\ On("code")
  /\ \E catcher \in {c \in 0..(Len(stack) - 1) : IsCatcher(c)} : ThrowTo(catcher)

Test ==
  \/ \E t \in Timers : \/ \E d \in Delays : Schedule(t, d)
                       \/ Refresh(t) \/ Clear(t)
  \/ ClearAll \/ QueueTick
  \/ \E n \in Epochs : SetSystemTime(n) \/ \E advance \in BOOLEAN : Install(n, advance)
  \/ Restore
  \/ \E d \in Steps : AdvanceBy(d)
  \/ AdvanceToNext \/ RunPending \/ RunTicks \/ RunAll
  \/ \E m \in Modes : SetTickMode(m)
  \/ \E k \in Tasks : StartAsync(k)

\* What is on the stack goes on; callbacks return.
Run ==
  \/ UntilFires \/ UntilEnds \/ AllFires \/ AllEnds \/ TickRuns \/ TicksEnd
  \/ Return \/ TaskBack \/ LoopBack

\* Nothing is left to do within the bounds.
Rest == ops = MaxOps /\ stack = <<>> /\ UNCHANGED vars

Next ==
  \/ Test \/ Run \/ Throw
  \/ \E k \in Tasks : Turn(k)
  \/ AutoTick
  \/ \E c \in loops : LoopTurn(c)
  \/ Rest

Spec == Init /\ [][Next]_vars

\* Callbacks return, and the event loop comes to each native timeout: whenever the
\* stack is empty again, later ones do not overtake it for ever.
FairSpec == Spec /\ WF_vars(Run) /\ \A k \in Tasks : SF_vars(Turn(k))

-----------------------------------------------------------------------------
Frames ==
  [kind : {"code", "jobs", "until", "all", "task", "loop"}, target : Nat, saved : BOOLEAN, n : Nat]

TaskStates ==
  [kind : {"none", "until", "pending", "all"}, at : {"idle", "first", "loop", "last"},
   target : Nat, saved : BOOLEAN, resume : BOOLEAN, runs : Nat]

\* The types of the timers, of the drivers and of what runs, for TypeOK.
TimerTypes ==
  /\ now \in Nat /\ pending \subseteq Timers /\ after \subseteq pending \X pending
  /\ due \in [Timers -> Int] /\ delay \in [Timers -> Nat] /\ made \in [Timers -> Nat]
  /\ generation \in Nat

DriverTypes ==
  /\ active \in BOOLEAN /\ mode \in Modes /\ counter \in Nat /\ auto \in BOOLEAN
  /\ loops \subseteq 0..counter /\ loopFailed \in BOOLEAN

RunTypes ==
  /\ jobs \in Nat /\ duringTick \in BOOLEAN /\ ops \in 0..MaxOps
  /\ tasks \in [Tasks -> TaskStates]
  /\ stack \in Seq(Frames) /\ \A i \in DOMAIN stack : stack[i].kind = "task" => stack[i].n \in Tasks

\* The variables have the types of the code: times are never negative, the order is
\* one of pending timers, and no loop has a counter that is still to come.
TypeOK == TimerTypes /\ DriverTypes /\ RunTypes

\* No pending timer is in the past, however advances are nested, overlap and end, and
\* wherever the system time is set (runTimersUntil puts the clock at its own target).
NothingOverdue == \A t \in pending : due[t] >= now

\* At most one automatic driver owns the clock, and it is the one of the mode; an older
\* nextAsync loop is never the current one again (ADR 0051).
OneDriver ==
  /\ auto = (mode = "interval")
  /\ mode # "manual" => active
  /\ counter \in loops => mode = "nextAsync"
  /\ mode = "nextAsync" => counter \in loops \/ loopFailed

\* A timer of an earlier clock is not in the map of the present one (ADR 0059).
OnlyOwnTimers == \A t \in pending : made[t] = generation

\* While a synchronous advance or the nextAsync driver is on the stack, new timers
\* without a delay are put off, whatever ends meanwhile, and however it ends.
FlagWhileAdvancing ==
  (\E i \in DOMAIN stack : stack[i].kind \in {"until", "loop"}) => duringTick

\* The promise of every asynchronous advance settles, although intervals and callbacks
\* add timers while it runs.
AdvancesSettle == \A k \in Tasks : tasks[k].at # "idle" ~> tasks[k].at = "idle"
=============================================================================
