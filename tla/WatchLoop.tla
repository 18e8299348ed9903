------------------------------ MODULE WatchLoop ------------------------------
(***************************************************************************)
(* Watch mode: run_watch_mode of main.rs around the cycles of TestCycle.   *)
(*                                                                         *)
(* The main thread selects, starts the cycle on a thread of its own, and   *)
(* polls the terminal and the file watcher in turn until the cycle is      *)
(* over; then it waits for the next action the same way.  The user, the    *)
(* file system and the watcher's own thread act at any time.               *)
(*                                                                         *)
(* disk counts the relevant changes of the watched files.  An event is a   *)
(* "change" (a path that no filter ignores, or a rescan) or "noise" (an    *)
(* access, or an ignored path).                                            *)
(***************************************************************************)
EXTENDS TestCycle

CONSTANTS
  Presses,    \* the keys that the user may press
  MaxPresses, \* bound: keys pressed
  MaxChanges, \* bound: relevant changes
  MaxEvents   \* bound: events that wait in the channel

WatchActions == {"Quit", "Rerun", "WatchAll", "WatchChanged", "ClearFilters",
                 "ToggleFailures", "UpdateSnapshots", "PathPrompt", "TestNamePrompt"}

\* Keys that watch_action_for_key maps to no action.
Idle == {"Other"}

ASSUME WatchAssumption ==
  /\ Presses \subseteq WatchActions \cup Idle
  /\ MaxPresses \in Nat /\ MaxChanges \in Nat /\ MaxEvents \in Nat \ {0}

VARIABLES
  pc,        \* of the main thread
  action,    \* the pending or the latest action, or "none"
  updateOnce,  \* snapshot_update_once
  keys,      \* the terminal's input
  pressed,   \* keys pressed so far: bounds the user
  disk,      \* relevant changes so far
  unseen,    \* changes that the watcher's thread has not sent yet
  events,    \* the channel of the watcher
  begun      \* disk when the latest cycle made its selection

watchVars == <<pc, action, updateOnce>>
world == <<keys, pressed, disk, unseen, events, begun>>
vars == <<setup, mode, token, cycleVars, watchVars, world>>

Init ==
  /\ CycleInit
  /\ mode = [watch |-> setup.watch, onlyChanged |-> FALSE, onlyFailures |-> FALSE,
              filtered |-> FALSE, update |-> setup.update]
  /\ pc = "select"
  /\ action = "none"
  /\ updateOnce = FALSE
  /\ keys = <<>> /\ pressed = 0
  /\ disk = 0 /\ unseen = 0 /\ events = <<>> /\ begun = 0

\* Where the main thread goes on after a poll: the head of the loop looks at
\* handle.is_finished() first.
Again == IF phase = "over" THEN "join" ELSE "key"

-----------------------------------------------------------------------------
\* The related-test selection, and the start of the cycle's thread.
BeginCycle ==
  /\ pc = "select"
  /\ begun' = disk
  /\ phase' = "discover"
  /\ token' = FALSE
  /\ action' = "none"
  /\ sessions' = NoSessions
  /\ pc' = "key"
  /\ UNCHANGED <<setup, mode, selected, order, next, results, failures, history, outcome,
                 updateOnce, keys, pressed, disk, unseen, events>>

\* git or the dependency graph fails, or there is no repository for --watch.
SelectFails ==
  /\ pc = "select"
  /\ mode.watch
  /\ pc' = "ended"
  /\ UNCHANGED <<setup, mode, token, cycleVars, action, updateOnce, world>>

\* poll_action during a cycle: an actionable key cancels it and is consumed.
\* The cycle may have ended since it was looked at.
PollKeyRunning ==
  /\ pc = "key" /\ phase # "idle"
  /\ IF keys # <<>> /\ Head(keys) \in WatchActions
     THEN /\ token' = TRUE
          /\ action' = "none"
          /\ pc' = "join"
     ELSE /\ pc' = "change"
          /\ UNCHANGED <<token, action>>
  /\ keys' = IF keys = <<>> THEN keys ELSE Tail(keys)
  /\ UNCHANGED <<setup, mode, cycleVars, updateOnce, pressed, disk, unseen, events, begun>>

\* poll_action of wait_for_watch_action.
PollKeyWaiting ==
  /\ pc = "key" /\ phase = "idle"
  /\ IF keys # <<>> /\ Head(keys) \in WatchActions
     THEN /\ action' = Head(keys)
          /\ pc' = "apply"
     ELSE /\ pc' = "change"
          /\ UNCHANGED action
  /\ keys' = IF keys = <<>> THEN keys ELSE Tail(keys)
  /\ UNCHANGED <<setup, mode, token, cycleVars, updateOnce, pressed, disk, unseen, events, begun>>

\* Mutant: only the first event in the channel is looked at.
PollChange_FirstOnly ==
  /\ pc = "change"
  /\ IF events # <<>> /\ Head(events) = "change"
     THEN events' = Tail(events) /\ pc' = "settle"
     ELSE events' = events /\ pc' = Again
  /\ UNCHANGED <<setup, mode, token, cycleVars, action, updateOnce,
                 keys, pressed, disk, unseen, begun>>

\* try_wait_for_change: events are dropped up to the first relevant one, which
\* begins a batch.
PollChange ==
  /\ pc = "change"
  /\ \/ \E first \in DOMAIN events :
          /\ events[first] = "change"
          /\ \A j \in 1..(first - 1) : events[j] = "noise"
          /\ events' = SubSeq(events, first + 1, Len(events))
          /\ pc' = "settle"
     \/ /\ "change" \notin ToSet(events)
        /\ events' = <<>>
        /\ pc' = Again
  /\ UNCHANGED <<setup, mode, token, cycleVars, action, updateOnce,
                 keys, pressed, disk, unseen, begun>>

\* settle_changes: one more event for the batch.
AbsorbEvent ==
  /\ pc = "settle"
  /\ events # <<>>
  /\ events' = Tail(events)
  /\ UNCHANGED <<setup, mode, token, cycleVars, watchVars,
                 keys, pressed, disk, unseen, begun>>

\* Mutant: a change during a cycle is taken for an effect of the cycle.
Settle_Ignoring ==
  /\ pc = "settle"
  /\ action' = IF phase = "idle" THEN "FilesChanged" ELSE action
  /\ pc' = IF phase = "idle" THEN "apply" ELSE Again
  /\ UNCHANGED <<setup, mode, token, cycleVars, updateOnce, world>>

\* The debounce deadline has passed.  Repeated events of one path do not move
\* it, so there may be events in the channel.
Settle ==
  /\ pc = "settle"
  /\ action' = "FilesChanged"
  /\ pc' = IF phase = "idle" THEN "apply" ELSE Again
  /\ UNCHANGED <<setup, mode, token, cycleVars, updateOnce, world>>

\* A poll of the terminal or of the watcher, or a prompt, fails: a running cycle is
\* waited for by the scope, and not cancelled.
PollFails ==
  /\ \/ pc \in {"key", "change", "settle"}
     \/ pc = "apply" /\ action \in {"PathPrompt", "TestNamePrompt"}
  /\ pc' = "failing"
  /\ UNCHANGED <<setup, mode, token, cycleVars, action, updateOnce, world>>

Failed ==
  /\ pc = "failing" /\ phase \in {"idle", "over"}
  /\ pc' = "ended"
  /\ phase' = "idle"
  /\ UNCHANGED <<setup, mode, token, selected, order, next, results, failures, sessions, history,
                 outcome, action, updateOnce, world>>

\* The cycle's thread is joined.  Its error ends watch mode.
Join ==
  /\ pc = "join" /\ phase = "over"
  /\ phase' = "idle"
  /\ IF outcome = "error"
     THEN /\ pc' = "ended"
          /\ UNCHANGED <<mode, updateOnce>>
     ELSE /\ pc' = IF action = "none" THEN "key" ELSE "apply"
          /\ updateOnce' = FALSE
          /\ mode' = IF updateOnce THEN [mode EXCEPT !.update = FALSE] ELSE mode
  /\ UNCHANGED <<setup, token, selected, order, next, results, failures, sessions, history,
                 outcome, action, world>>

\* The related-test mode with or without a filename pattern.
RelatedMode(filtered) ==
  [mode EXCEPT !.watch = TRUE, !.onlyChanged = TRUE, !.filtered = filtered]

\* apply_watch_action
Apply ==
  /\ pc = "apply"
  /\ pc' = IF action = "Quit" THEN "ended" ELSE "select"
  /\ updateOnce' = (updateOnce \/ action = "UpdateSnapshots")
  /\ mode' \in
       CASE action = "WatchAll" ->
              {[mode EXCEPT !.watch = FALSE, !.onlyChanged = FALSE, !.filtered = FALSE]}
         [] action \in {"WatchChanged", "ClearFilters"} -> {RelatedMode(FALSE)}
         [] action = "PathPrompt" -> {RelatedMode(f) : f \in BOOLEAN}
         [] action = "TestNamePrompt" -> {RelatedMode(mode.filtered)}
         [] action = "ToggleFailures" -> {[mode EXCEPT !.onlyFailures = ~mode.onlyFailures]}
         [] action = "UpdateSnapshots" -> {[mode EXCEPT !.update = TRUE]}
         [] OTHER -> {mode}
  /\ UNCHANGED <<setup, token, cycleVars, action, world>>

-----------------------------------------------------------------------------
\* The user, at a terminal.
Press(k) ==
  /\ setup.interactive /\ pc # "ended"
  /\ pressed < MaxPresses
  /\ pressed' = pressed + 1
  /\ keys' = Append(keys, k)
  /\ UNCHANGED <<setup, mode, token, cycleVars, watchVars, disk, unseen, events, begun>>

Change ==
  /\ disk < MaxChanges /\ pc # "ended"
  /\ disk' = disk + 1
  /\ unseen' = unseen + 1
  /\ UNCHANGED <<setup, mode, token, cycleVars, watchVars, keys, pressed, events, begun>>

\* The watcher's thread sends an event, for one or more changes.
Deliver ==
  /\ unseen > 0 /\ Len(events) < MaxEvents
  /\ unseen' \in 0..(unseen - 1)
  /\ events' = Append(events, "change")
  /\ UNCHANGED <<setup, mode, token, cycleVars, watchVars, keys, pressed, disk, begun>>

Noise ==
  /\ events = <<>> /\ pc # "ended"
  /\ events' = <<"noise">>
  /\ UNCHANGED <<setup, mode, token, cycleVars, watchVars, keys, pressed, disk, unseen, begun>>

\* The cycle's thread.
Cycle ==
  /\ CycleStep
  /\ UNCHANGED <<setup, mode, token, watchVars, world>>

CycleFails ==
  /\ Fails
  /\ UNCHANGED <<setup, mode, token, watchVars, world>>

Main ==
  \/ BeginCycle  \/ PollKeyRunning \/ PollKeyWaiting \/ PollChange \/ Settle
  \/ Failed \/ Join \/ Apply

Ended == pc = "ended" /\ UNCHANGED vars

Next ==
  \/ Main \/ AbsorbEvent \/ SelectFails \/ PollFails
  \/ Cycle \/ CycleFails
  \/ \E k \in Presses : Press(k)
  \/ Change \/ Deliver \/ Noise
  \/ Ended

Spec == Init /\ [][Next]_vars

\* Both threads run, and hooks, reporters and the pool answer; the watcher
\* delivers what it has seen.  Nothing is assumed of the user, of changes and of
\* errors.
FairSpec == Spec /\ WF_vars(Main) /\ WF_vars(Cycle) /\ WF_vars(Deliver)

-----------------------------------------------------------------------------
\* The types of the main thread and of what is around it, for TypeOK.
LoopTypes ==
  /\ setup \in Setups /\ mode \in Modes /\ token \in BOOLEAN
  /\ pc \in {"select", "key", "change", "settle", "join", "apply", "failing", "ended"}
  /\ action \in WatchActions \cup {"none", "FilesChanged"}
  /\ updateOnce \in BOOLEAN

WorldTypes ==
  /\ keys \in Seq(Presses) /\ pressed \in 0..MaxPresses
  /\ disk \in 0..MaxChanges /\ unseen \in 0..disk /\ begun \in 0..disk
  /\ events \in Seq({"change", "noise"})

\* The variables of the cycle, of the main thread and of its surroundings have the
\* types of the code.
TypeOK == CycleTypes /\ LoopTypes /\ WorldTypes

\* No project is started once the failed tests of all projects together have reached
\* the threshold, with what is left of it and never with the limit 0, which the runner
\* takes for "no limit"; so the total exceeds the threshold by less than the failed
\* tests of one file (execute_project_runs).
BailAcrossProjects ==
  setup.bail > 0 => /\ failures < setup.bail + MostFailed
                    /\ phase = "pool" => Limit > 0

\* When a cycle returns without an error, also after an interruption, the hook
\* process was told to tear down and the sequencer was closed, not killed
\* (run_test_cycle has three ways out).
SetupIsTornDown ==
  phase = "over" /\ outcome # "error" =>
    /\ sessions.hooks \in {"none", "closed"}
    /\ sessions.sequencer \in {"none", "closed"}

\* Each selected test belongs to exactly one shard, whatever is selected
\* (shard_bounds).
EveryTestInOneShard ==
  LET part(i) == TestsOfShard([index |-> i, count |-> setup.shard.count])
  IN \A u \in selected : \E i \in 1..setup.shard.count :
       /\ u \in part(i)
       /\ \A j \in 1..setup.shard.count \ {i} : u \notin part(j)

\* A cycle runs with --updateSnapshot only if the process was started with it or
\* the key for it was the last action (snapshot_update_once).
UpdateOnlyAsked ==
  pc = "select" /\ mode.update => setup.update \/ action = "UpdateSnapshots"

\* A change that the watcher has sent or has still to send.
Pending == unseen > 0 \/ "change" \in ToSet(events)

\* While the loop waits, the latest cycle has seen every change that is not
\* pending, unless a key interrupted that cycle (run_interruptible_watch_cycle
\* remembers what it took from the channel).
ChangeNotLost ==
  phase = "idle" /\ pc \in {"key", "change"} /\ ~Pending /\ ~token => begun = disk

\* The performance cache is written only by a run that has a result of each of
\* its files: not after a cancellation, wherever it came, nor after a bail, in
\* whichever project (ADR 0038).
HistoryFromCompleteRuns ==
  [][history' # history => \A i \in DOMAIN results : results[i] # "none"]_vars

\* Every change is followed by a cycle that begins after it, unless the loop has
\* ended or a key interrupted the cycle that had taken note of it.
ChangeGetsRun ==
  begun < disk ~> \/ begun = disk \/ pc = "ended" \/ (token /\ ~Pending)

\* The claim of ADR 0049 without the exception: what was noticed during a run is
\* followed by another.
ChangeRemembered ==
  phase = "idle" /\ pc \in {"key", "change"} /\ ~Pending => begun = disk
=============================================================================
