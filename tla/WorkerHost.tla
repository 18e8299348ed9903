------------------------------ MODULE WorkerHost ------------------------------
(***************************************************************************)
(* The Node host shared by the files of one multi-file run: WorkerHost in  *)
(* crates/rjest-runner/src/lib.rs with the threads around it, and          *)
(* runtime/host.mjs at the other end of two pipes.                         *)
(*                                                                         *)
(*   pool thread --requests--> host.mjs --terminate--> isolate of the file *)
(*   pool thread <--inbox-- stdout reader <--frames-- host.mjs <-- isolate *)
(*                                                                         *)
(* A pool thread calls execute(f): it registers a route under the routes   *)
(* lock, sends one request line and then loops in await_worker, where      *)
(* cancellation, an observer error, the deadline, a message or the grace   *)
(* period decides what happens next. The reader thread routes each frame   *)
(* to the file's channel and, when the pipe ends, marks the host dead and  *)
(* tells every registered route, under the same lock.                      *)
(*                                                                         *)
(* Outside the model: the bytes of a frame and its chunking, stderr, and a *)
(* request pipe so full that a write blocks.                               *)
(***************************************************************************)
EXTENDS Integers, FiniteSets, Sequences

CONSTANTS
  Files,     \* test files, each executed once
  Workers,   \* pool threads
  Stuck,     \* files whose isolate cannot be terminated (blocked native code)
  Orphans,   \* files that leave behind a child process holding the host's stdout
  Faults     \* what may go wrong: a subset of FaultKinds

FaultKinds ==
  {"crash",   \* native crash or signal: the host process disappears
   "frame",   \* raw bytes on fd 1 corrupt a frame
   "event",   \* the observer or the decoder rejects a live event
   "spawn"}   \* the Worker constructor throws

ASSUME HostAssumption ==
  /\ IsFiniteSet(Files)
  /\ Workers \in Nat \ {0}
  /\ Stuck \subseteq Files
  /\ Orphans \subseteq Files
  /\ Faults \subseteq FaultKinds

VARIABLES
  stop,         \* cancellation.requested()
  call,         \* execute(f): idle, registered, waiting, returned
  termination,  \* WorkerTermination in await_worker
  eventError,   \* event_error in await_worker
  hasResult,    \* the collected stdout holds a result frame
  outcome,      \* what run_file makes of the return value
  routes,       \* files with a registered channel
  inbox,        \* the channel of each file
  alive,        \* WorkerHost::alive
  reading,      \* the stdout reader thread has not ended
  requests,     \* the host's stdin pipe
  frames,       \* the host's stdout pipe
  hostUp,       \* the host process exists
  held,         \* another process keeps the write end of the stdout pipe open
  workers,      \* the workers map of host.mjs
  terminating,  \* worker.terminate() was called
  isolate,      \* none, started, tested, finished, then exited, stopped or failed
  buffered,     \* worker.stdout: written by the isolate, not yet forwarded
  dropped       \* WorkerHost::drop: no, joining, done

callVars == <<call, termination, eventError, hasResult, outcome>>
rustVars == <<routes, inbox, alive, reading, dropped>>
pipeVars == <<requests, frames, held>>
nodeVars == <<hostUp, workers, terminating, isolate, buffered>>
vars == <<stop, callVars, rustVars, pipeVars, nodeVars>>

-----------------------------------------------------------------------------
Live(f) == isolate[f] \in {"started", "tested", "finished"}

Outstanding == {f \in Files : call[f] \in {"registered", "waiting"}}

Line(f, kind) == [file |-> f, kind |-> kind]

Outcomes == {"result", "missing", "timedOut", "cancelled", "error"}

\* What travels on worker.stdout, on the two pipes and on a file's channel.
StdoutLines == {"event", "result"}
Requests == [file : Files, kind : {"run", "cancel"}]
HostOutputs == [file : Files, kind : StdoutLines \cup {"exit"}]
Messages == StdoutLines \cup {"exit", "dead"}

CallTypes ==
  /\ call \in [Files -> {"idle", "registered", "waiting", "returned"}]
  /\ termination \in [Files -> {"Completed", "TimedOut", "Cancelled"}]
  /\ eventError \in [Files -> BOOLEAN]
  /\ hasResult \in [Files -> BOOLEAN]
  /\ outcome \in [Files -> {"none"} \cup Outcomes]

RustTypes ==
  /\ routes \subseteq Files
  /\ inbox \in [Files -> Seq(Messages)]
  /\ alive \in BOOLEAN
  /\ reading \in BOOLEAN
  /\ dropped \in {"no", "joining", "done"}

PipeTypes ==
  /\ requests \in Seq(Requests)
  /\ frames \in Seq(HostOutputs)
  /\ held \in BOOLEAN

NodeTypes ==
  /\ hostUp \in BOOLEAN
  /\ workers \subseteq Files
  /\ terminating \subseteq workers
  /\ isolate \in [Files -> {"none", "started", "tested", "finished",
                            "exited", "stopped", "failed"}]
  /\ buffered \in [Files -> Seq(StdoutLines)]

TypeOK == stop \in BOOLEAN /\ CallTypes /\ RustTypes /\ PipeTypes /\ NodeTypes

Init ==
  /\ stop = FALSE
  /\ call = [f \in Files |-> "idle"]
  /\ termination = [f \in Files |-> "Completed"]
  /\ eventError = [f \in Files |-> FALSE]
  /\ hasResult = [f \in Files |-> FALSE]
  /\ outcome = [f \in Files |-> "none"]
  /\ routes = {} /\ alive = TRUE /\ reading = TRUE
  /\ inbox = [f \in Files |-> <<>>]
  /\ requests = <<>> /\ frames = <<>>
  /\ hostUp = TRUE /\ held = FALSE
  /\ workers = {} /\ terminating = {}
  /\ isolate = [f \in Files |-> "none"]
  /\ buffered = [f \in Files |-> <<>>]
  /\ dropped = "no"

-----------------------------------------------------------------------------
\* The pool thread.

\* execute returns and its caller, run_file, turns the triple into an outcome;
\* the route, the channel and the locals of await_worker go away with the call.
Return(f, o) ==
  /\ call' = [call EXCEPT ![f] = "returned"]
  /\ termination' = [termination EXCEPT ![f] = "Completed"]
  /\ hasResult' = [hasResult EXCEPT ![f] = FALSE]
  /\ outcome' = [outcome EXCEPT ![f] = o]
  /\ routes' = routes \ {f}
  /\ inbox' = [inbox EXCEPT ![f] = <<>>]

\* Mutant: alive is not looked at again under the routes lock.
Register_StaleAlive(f) ==
  /\ call[f] = "idle"
  /\ dropped = "no"
  /\ Cardinality(Outstanding) < Workers
  /\ routes' = routes \cup {f}
  /\ call' = [call EXCEPT ![f] = "registered"]
  /\ UNCHANGED <<stop, termination, eventError, hasResult, outcome, inbox, alive,
                 reading, dropped, pipeVars, nodeVars>>

\* The routes lock at the beginning of execute: a dead host refuses the call,
\* a live one gets a route before the request is sent.
Register(f) ==
  /\ call[f] = "idle"
  /\ dropped = "no"
  /\ Cardinality(Outstanding) < Workers
  /\ \/ /\ ~alive
        /\ Return(f, "error")
     \/ /\ alive
        /\ routes' = routes \cup {f}
        /\ call' = [call EXCEPT ![f] = "registered"]
        /\ UNCHANGED <<termination, hasResult, outcome, inbox>>
  /\ UNCHANGED <<stop, eventError, alive, reading, dropped, pipeVars, nodeVars>>

\* WorkerHost::send of the request; a write to a host that is gone fails.
Send(f) ==
  /\ call[f] = "registered"
  /\ \/ /\ hostUp
        /\ requests' = Append(requests, Line(f, "run"))
        /\ call' = [call EXCEPT ![f] = "waiting"]
        /\ UNCHANGED <<termination, hasResult, outcome, routes, inbox>>
     \/ /\ ~hostUp
        /\ Return(f, "error")
        /\ UNCHANGED requests
  /\ UNCHANGED <<stop, eventError, alive, reading, dropped, frames, held, nodeVars>>

\* Mutant: an interrupted call does not wait for the exit of its isolate.
Interrupt_Abandoning(f) ==
  /\ call[f] = "waiting"
  /\ Return(f, IF stop THEN "cancelled" ELSE "timedOut")
  /\ requests' = IF hostUp THEN Append(requests, Line(f, "cancel")) ELSE requests
  /\ UNCHANGED <<stop, eventError, alive, reading, dropped, frames, held, nodeVars>>

\* The head of the await_worker loop: a flag or an observer error cancels, else
\* the deadline may have passed. The cancel line can fail like any write.
Interrupt(f) ==
  /\ call[f] = "waiting"
  /\ termination[f] = "Completed"
  /\ \/ /\ hostUp
        /\ requests' = Append(requests, Line(f, "cancel"))
        /\ termination' = [termination EXCEPT ![f] =
             IF stop \/ eventError[f] THEN "Cancelled" ELSE "TimedOut"]
        /\ UNCHANGED <<call, hasResult, outcome, routes, inbox>>
     \/ /\ ~hostUp
        /\ Return(f, "error")
        /\ UNCHANGED requests
  /\ UNCHANGED <<stop, eventError, alive, reading, dropped, frames, held,
                 nodeVars>>

\* Mutant: the termination is looked at before the observer's error.
Verdict_TerminationFirst(f) ==
  CASE termination[f] = "Cancelled" -> "cancelled"
    [] termination[f] = "TimedOut" -> "timedOut"
    [] OTHER -> IF hasResult[f] THEN "result" ELSE "missing"

\* What run_file makes of a call that await_worker ended by a message.
Verdict(f) ==
  IF eventError[f] THEN "error"
  ELSE CASE termination[f] = "Cancelled" -> "cancelled"
         [] termination[f] = "TimedOut" -> "timedOut"
         [] OTHER -> IF hasResult[f] THEN "result" ELSE "missing"

\* recv_timeout delivers one message. Live events reach the observer until the
\* call is interrupted; an exit, or the reader's word that the host is dead,
\* ends the call. An observer error is looked at before the next message.
Receive(f) ==
  /\ call[f] = "waiting"
  /\ inbox[f] # <<>>
  /\ ~(termination[f] = "Completed" /\ eventError[f])
  /\ LET message == Head(inbox[f]) IN
     \/ /\ message \in {"exit", "dead"}
        /\ Return(f, Verdict(f))
        /\ UNCHANGED eventError
     \/ /\ message \in {"event", "result"}
        /\ inbox' = [inbox EXCEPT ![f] = Tail(@)]
        /\ hasResult' = [hasResult EXCEPT ![f] = @ \/ message = "result"]
        /\ \E rejected \in BOOLEAN :
             /\ rejected => /\ message = "event" /\ "event" \in Faults
                            /\ termination[f] = "Completed"
             /\ eventError' = [eventError EXCEPT ![f] = @ \/ rejected]
        /\ UNCHANGED <<call, termination, outcome, routes>>
  /\ UNCHANGED <<stop, alive, reading, dropped, pipeVars, nodeVars>>

\* CancellationToken::cancel, or the bail flag.
Stop ==
  /\ ~stop
  /\ stop' = TRUE
  /\ UNCHANGED <<callVars, rustVars, pipeVars, nodeVars>>

\* The host process is gone and takes its isolates with it; what it has written
\* to its stdout stays in the pipe.
HostGone ==
  /\ hostUp' = FALSE
  /\ isolate' = [f \in Files |-> IF Live(f) THEN "stopped" ELSE isolate[f]]
  /\ buffered' = [f \in Files |-> <<>>]
  /\ workers' = {}
  /\ terminating' = {}
  /\ requests' = <<>>

\* The grace period after an interrupt is over and the call still waits: the
\* pool thread kills the process of every isolate.
KillHost(f) ==
  /\ call[f] = "waiting"
  /\ termination[f] # "Completed"
  /\ hostUp
  /\ HostGone
  /\ UNCHANGED <<stop, callVars, rustVars, frames, held>>

-----------------------------------------------------------------------------
\* host.mjs and the isolates.

\* Mutant: workers.get(path) is not checked before terminate.
HostRead_NoLookup ==
  /\ hostUp
  /\ requests # <<>>
  /\ requests' = Tail(requests)
  /\ LET f == Head(requests).file IN
     \/ /\ Head(requests).kind = "run"
        /\ isolate' = [isolate EXCEPT ![f] = "started"]
        /\ workers' = workers \cup {f}
        /\ UNCHANGED terminating
     \/ /\ Head(requests).kind = "cancel"
        /\ terminating' = terminating \cup {f}
        /\ UNCHANGED <<isolate, workers>>
  /\ UNCHANGED <<stop, callVars, rustVars, frames, hostUp, held, buffered>>

\* Mutant: the newest line is handled first.
HostRead_LastFirst ==
  /\ hostUp
  /\ requests # <<>>
  /\ requests' = SubSeq(requests, 1, Len(requests) - 1)
  /\ LET line == requests[Len(requests)] IN
     \/ /\ line.kind = "run"
        /\ isolate' = [isolate EXCEPT ![line.file] = "started"]
        /\ workers' = workers \cup {line.file}
        /\ UNCHANGED terminating
     \/ /\ line.kind = "cancel"
        /\ terminating' = terminating \cup ({line.file} \cap workers)
        /\ UNCHANGED <<isolate, workers>>
  /\ UNCHANGED <<stop, callVars, rustVars, frames, hostUp, held, buffered>>

\* The line handler of host.mjs: start a worker, or terminate the one that runs.
HostRead ==
  /\ hostUp
  /\ requests # <<>>
  /\ requests' = Tail(requests)
  /\ LET f == Head(requests).file IN
     \/ /\ Head(requests).kind = "run"
        /\ \/ /\ isolate' = [isolate EXCEPT ![f] = "started"]
              /\ workers' = workers \cup {f}
              /\ UNCHANGED frames
           \/ /\ "spawn" \in Faults /\ reading
              /\ isolate' = [isolate EXCEPT ![f] = "failed"]
              /\ frames' = Append(frames, Line(f, "exit"))
              /\ UNCHANGED workers
        /\ UNCHANGED terminating
     \/ /\ Head(requests).kind = "cancel"
        /\ terminating' = terminating \cup ({f} \cap workers)
        /\ UNCHANGED <<isolate, workers, frames>>
  /\ UNCHANGED <<stop, callVars, rustVars, hostUp, held, buffered>>

\* A test reports a live event; a file may leave a child process behind that
\* inherited the host's stdout.
IsolateEvent(f) ==
  /\ isolate[f] = "started"
  /\ isolate' = [isolate EXCEPT ![f] = "tested"]
  /\ buffered' = [buffered EXCEPT ![f] = Append(@, "event")]
  /\ held' \in {held, held \/ f \in Orphans}
  /\ UNCHANGED <<stop, callVars, rustVars, requests, frames, hostUp, workers,
                 terminating>>

\* The isolate writes the result of the file.
IsolateResult(f) ==
  /\ isolate[f] = "tested"
  /\ isolate' = [isolate EXCEPT ![f] = "finished"]
  /\ buffered' = [buffered EXCEPT ![f] = Append(@, "result")]
  /\ UNCHANGED <<stop, callVars, rustVars, pipeVars, hostUp, workers, terminating>>

\* The isolate exits, after its result or because a test exits the process.
IsolateExit(f) ==
  /\ Live(f)
  /\ isolate' = [isolate EXCEPT ![f] = IF @ = "finished" THEN "exited" ELSE "stopped"]
  /\ UNCHANGED <<stop, callVars, rustVars, pipeVars, hostUp, workers, terminating,
                 buffered>>

\* worker.terminate() succeeds, unless native code blocks the isolate's thread.
IsolateTerminated(f) ==
  /\ Live(f)
  /\ f \in terminating \ Stuck
  /\ isolate' = [isolate EXCEPT ![f] = "stopped"]
  /\ UNCHANGED <<stop, callVars, rustVars, pipeVars, hostUp, workers, terminating,
                 buffered>>

\* The data handler of worker.stdout.
Forward(f) ==
  /\ hostUp /\ reading
  /\ buffered[f] # <<>>
  /\ frames' = Append(frames, Line(f, Head(buffered[f])))
  /\ buffered' = [buffered EXCEPT ![f] = Tail(@)]
  /\ UNCHANGED <<stop, callVars, rustVars, requests, held, hostUp, workers,
                 terminating, isolate>>

\* Mutant: start() does not await the end of the streams.
HostExit_BeforeDrain(f) ==
  /\ hostUp /\ reading
  /\ f \in workers
  /\ isolate[f] \in {"exited", "stopped"}
  /\ workers' = workers \ {f}
  /\ terminating' = terminating \ {f}
  /\ frames' = Append(frames, Line(f, "exit"))
  /\ UNCHANGED <<stop, callVars, rustVars, requests, held, hostUp, isolate, buffered>>

\* start() resumes when the isolate has exited and both its streams are drained.
HostExit(f) ==
  /\ hostUp /\ reading
  /\ f \in workers
  /\ isolate[f] \in {"exited", "stopped"}
  /\ buffered[f] = <<>>
  /\ workers' = workers \ {f}
  /\ terminating' = terminating \ {f}
  /\ frames' = Append(frames, Line(f, "exit"))
  /\ UNCHANGED <<stop, callVars, rustVars, requests, held, hostUp, isolate, buffered>>

\* The process crashes, or writes to a pipe nobody reads any more.
Crash ==
  /\ hostUp
  /\ "crash" \in Faults \/ ~reading
  /\ HostGone
  /\ UNCHANGED <<stop, callVars, rustVars, frames, held>>

\* The child process that held the host's stdout exits: it need not.
OrphanExits ==
  /\ held
  /\ held' = FALSE
  /\ UNCHANGED <<stop, callVars, rustVars, requests, frames, nodeVars>>

-----------------------------------------------------------------------------
\* The stdout reader thread and the end of the run.

\* read_host_stdout hands one frame to the channel of its file.
ReadFrame ==
  /\ reading
  /\ frames # <<>>
  /\ frames' = Tail(frames)
  /\ LET frame == Head(frames) IN
     inbox' = IF frame.file \in routes
              THEN [inbox EXCEPT ![frame.file] = Append(@, frame.kind)]
              ELSE inbox
  /\ UNCHANGED <<stop, callVars, routes, alive, reading, dropped, requests, held,
                 nodeVars>>

\* Mutant: the reader thread ends without a word to the registered calls.
ReaderEnds_Silent ==
  /\ reading' = FALSE
  /\ alive' = FALSE
  /\ frames' = <<>>
  /\ UNCHANGED <<stop, callVars, routes, inbox, dropped, requests, held, nodeVars>>

\* Under the routes lock the reader thread marks the host dead and tells every
\* registered call; what is left in the pipe is lost.
ReaderEnds ==
  /\ reading' = FALSE
  /\ alive' = FALSE
  /\ inbox' = [f \in Files |-> IF f \in routes THEN Append(inbox[f], "dead")
                               ELSE inbox[f]]
  /\ frames' = <<>>
  /\ UNCHANGED <<stop, callVars, routes, dropped, requests, held, nodeVars>>

\* The end of the pipe: every process that could write to it is gone.
ReadEof ==
  /\ reading
  /\ frames = <<>> /\ ~hostUp /\ ~held
  /\ ReaderEnds

\* A frame does not parse, and the host may well be alive.
ReadCorrupt ==
  /\ reading
  /\ "frame" \in Faults
  /\ \E f \in Files : isolate[f] # "none"
  /\ ReaderEnds

\* Mutant: the readers are joined without killing the process.
DropHost_WithoutKill ==
  /\ dropped = "no"
  /\ Outstanding = {}
  /\ stop \/ \A f \in Files : call[f] = "returned"
  /\ dropped' = "joining"
  /\ UNCHANGED <<stop, callVars, routes, inbox, alive, reading, pipeVars, nodeVars>>

\* Drop for WorkerHost, when no call is left: kill the process, then join the
\* readers. A stopped or failed run drops the host with files not taken.
DropHost ==
  /\ dropped = "no"
  /\ Outstanding = {}
  /\ \/ stop
     \/ \E f \in Files : outcome[f] \in {"error", "missing"}
     \/ \A f \in Files : call[f] = "returned"
  /\ dropped' = "joining"
  /\ HostGone
  /\ UNCHANGED <<stop, callVars, routes, inbox, alive, reading, frames, held>>

Joined ==
  /\ dropped = "joining"
  /\ ~reading
  /\ dropped' = "done"
  /\ UNCHANGED <<stop, callVars, routes, inbox, alive, reading, pipeVars, nodeVars>>

\* The run is over.
Over ==
  /\ dropped = "done"
  /\ UNCHANGED vars

Thread(f) == Register(f) \/ Send(f) \/ Interrupt(f) \/ Receive(f) \/ KillHost(f)

EventLoop == HostRead \/ \E f \in Files : Forward(f) \/ HostExit(f)

Isolate(f) ==
  IsolateEvent(f) \/ IsolateResult(f) \/ IsolateExit(f) \/ IsolateTerminated(f)

Reader == ReadFrame \/ ReadEof \/ ReadCorrupt

Next ==
  \/ \E f \in Files : Thread(f) \/ Isolate(f)
  \/ EventLoop \/ Crash \/ OrphanExits
  \/ Reader
  \/ Stop \/ DropHost \/ Joined \/ Over

\* The program's threads, the event loop of the host and the termination of an
\* isolate make progress. Tests need not end, and nobody has to stop or crash.
Fairness ==
  /\ \A f \in Files : WF_vars(Thread(f)) /\ WF_vars(IsolateTerminated(f))
  /\ WF_vars(EventLoop)
  /\ WF_vars(ReadFrame \/ ReadEof)
  /\ WF_vars(DropHost \/ Joined)

Spec == Init /\ [][Next]_vars /\ Fairness

-----------------------------------------------------------------------------
\* Once the reader has marked the host dead, every call that still has a route
\* has been told so: a call either finds alive false under the routes lock or
\* is in the map when the reader tells everyone (execute, the reader thread).
DeathReachesEveryCall ==
  ~alive => \A f \in routes : inbox[f] # <<>> /\ inbox[f][Len(inbox[f])] = "dead"

\* As long as frames are read, an isolate that runs has a pool thread waiting
\* for it: a cancelled or late file keeps its scheduler slot until its isolate
\* is gone, so no more isolates run than there are pool threads.
SlotHeldWhileRunning ==
  alive =>
    /\ \A f \in Files : Live(f) => call[f] = "waiting"
    /\ Cardinality({f \in Files : Live(f)}) <= Workers

\* A result the isolate wrote before it exited is not taken for missing: exit
\* may precede the last delivery of the stream, and the exit frame must not.
ResultNotLost ==
  alive /\ hostUp =>
    \A f \in Files : isolate[f] = "exited" => outcome[f] # "missing"

\* An interrupted file that has an isolate, or will get one, is on its way to
\* be terminated: the cancel line is not overtaken by the start of the isolate.
CancelReachesIsolate ==
  hostUp =>
    \A f \in Files :
      call[f] = "waiting" /\ termination[f] # "Completed" =>
        \/ f \in terminating
        \/ isolate[f] \in {"exited", "stopped", "failed"}
        \/ \E i \in DOMAIN requests : requests[i] = Line(f, "cancel")

\* What a call returns has its cause: only a stop makes a file cancelled, an
\* observer error makes every call that saw it fail, whatever else ends it, and
\* without one or the loss of the host no call ends in an error.
OutcomeHasCause ==
  \A f \in Files :
    /\ outcome[f] = "cancelled" => stop
    /\ eventError[f] => outcome[f] \in {"none", "error"}
    /\ outcome[f] = "error" => eventError[f] \/ ~hostUp \/ ~alive
    /\ outcome[f] = "missing" => isolate[f] \in {"stopped", "failed"} \/ ~hostUp \/ ~alive

\* No call waits for ever, whatever the tests do: the deadline of a file is
\* enforceable at the process boundary (await_worker).
DeadlineEnforced ==
  \A f \in Files : call[f] = "registered" ~> call[f] = "returned"

\* The run ends: after the last call the host is killed and its readers joined.
DropCompletes == <>[](dropped = "done")
=============================================================================
