--------------------------- MODULE WorkerHostProofs ---------------------------
(***************************************************************************)
(* Proofs about WorkerHost for every set of files, every number of threads *)
(* and every choice of stuck files, orphans and faults.                    *)
(***************************************************************************)
EXTENDS WorkerHost, FiniteSetTheorems, SequenceTheorems, TLAPS

\* A call that returns leaves well-typed locals, routes and channels.
LEMMA ReturnTypes ==
  ASSUME NEW f \in Files, NEW o \in Outcomes, CallTypes, RustTypes,
         Return(f, o), UNCHANGED <<eventError, alive, reading, dropped>>
  PROVE  CallTypes' /\ RustTypes'
<1> USE DEF CallTypes, RustTypes, Return
<1>1. call' \in [Files -> {"idle", "registered", "waiting", "returned"}]
  OBVIOUS
<1>2. termination' \in [Files -> {"Completed", "TimedOut", "Cancelled"}]
  OBVIOUS
<1>3. hasResult' \in [Files -> BOOLEAN] /\ eventError' \in [Files -> BOOLEAN]
  BY Zenon
<1>4. outcome' \in [Files -> {"none"} \cup Outcomes]
  BY Zenon
<1>5. routes' \subseteq Files
  OBVIOUS
<1>6. inbox' \in [Files -> Seq(Messages)]
  OBVIOUS
<1> QED
  BY <1>1, <1>2, <1>3, <1>4, <1>5, <1>6

\* The host's end empties its side of the pipes.
LEMMA HostGoneTypes ==
  ASSUME NodeTypes, PipeTypes, HostGone, UNCHANGED <<frames, held>>
  PROVE  NodeTypes' /\ PipeTypes'
<1> USE DEF NodeTypes, PipeTypes, HostGone
<1>1. isolate' \in [Files -> {"none", "started", "tested", "finished",
                             "exited", "stopped", "failed"}]
  OBVIOUS
<1>2. buffered' \in [Files -> Seq(StdoutLines)]
  OBVIOUS
<1>3. requests' \in Seq(Requests) /\ frames' \in Seq(HostOutputs)
  OBVIOUS
<1>4. held' \in BOOLEAN /\ hostUp' \in BOOLEAN
  BY Zenon
<1>5. workers' \subseteq Files /\ terminating' \subseteq workers'
  OBVIOUS
<1> QED
  BY <1>1, <1>2, <1>3, <1>4, <1>5, Zenon

\* A group of variables that does not change keeps its types.
LEMMA CallTypesStay == CallTypes /\ UNCHANGED callVars => CallTypes'
BY DEF CallTypes, callVars

LEMMA RustTypesStay == RustTypes /\ UNCHANGED rustVars => RustTypes'
BY DEF RustTypes, rustVars

LEMMA PipeTypesStay == PipeTypes /\ UNCHANGED pipeVars => PipeTypes'
BY DEF PipeTypes, pipeVars

LEMMA NodeTypesStay == NodeTypes /\ UNCHANGED nodeVars => NodeTypes'
BY DEF NodeTypes, nodeVars

\* A line that is appended to a pipe, or the rest of a pipe, is well typed.
LEMMA LineTypes ==
  ASSUME NEW f \in Files
  PROVE  /\ Line(f, "run") \in Requests /\ Line(f, "cancel") \in Requests
         /\ Line(f, "exit") \in HostOutputs
         /\ \A k \in StdoutLines : Line(f, k) \in HostOutputs
BY DEF Line, Requests, HostOutputs, StdoutLines

\* Steps of the pool threads keep the types.
LEMMA RegisterTypes ==
  ASSUME TypeOK, NEW f \in Files, Register(f)
  PROVE  TypeOK'
<1>1. stop' \in BOOLEAN
  BY DEF TypeOK, Register
<1>2. PipeTypes' /\ NodeTypes'
  BY PipeTypesStay, NodeTypesStay DEF TypeOK, Register
<1>3. CallTypes' /\ RustTypes'
  <2>1. CASE Return(f, "error")
    <3>1. "error" \in Outcomes
      BY DEF Outcomes
    <3> QED
      BY <2>1, <3>1, ReturnTypes DEF TypeOK, Register
  <2>2. CASE ~Return(f, "error")
    <3>1. call' \in [Files -> {"idle", "registered", "waiting", "returned"}]
      BY <2>2 DEF Register, TypeOK, CallTypes
    <3>2. CallTypes'
      BY <2>2, <3>1, Zenon DEF Register, TypeOK, CallTypes
    <3>3. RustTypes'
      BY <2>2 DEF Register, TypeOK, RustTypes
    <3> QED
      BY <3>2, <3>3
  <2> QED
    BY <2>1, <2>2
<1> QED
  BY <1>1, <1>2, <1>3 DEF TypeOK

LEMMA SendTypes ==
  ASSUME TypeOK, NEW f \in Files, Send(f)
  PROVE  TypeOK'
<1>1. stop' \in BOOLEAN
  BY DEF TypeOK, Send
<1>2. NodeTypes'
  BY NodeTypesStay DEF TypeOK, Send
<1>3. PipeTypes'
  BY LineTypes DEF TypeOK, Send, PipeTypes
<1>4. CallTypes' /\ RustTypes'
  <2>1. CASE hostUp
    <3>1. call' \in [Files -> {"idle", "registered", "waiting", "returned"}]
      BY <2>1 DEF Send, TypeOK, CallTypes
    <3>2. CallTypes'
      BY <2>1, <3>1, Zenon DEF Send, TypeOK, CallTypes
    <3>3. RustTypes'
      BY <2>1 DEF Send, TypeOK, RustTypes
    <3> QED
      BY <3>2, <3>3
  <2>2. CASE ~hostUp
    <3>1. "error" \in Outcomes
      BY DEF Outcomes
    <3> QED
      BY <2>2, <3>1, ReturnTypes DEF TypeOK, Send
  <2> QED
    BY <2>1, <2>2
<1> QED
  BY <1>1, <1>2, <1>3, <1>4 DEF TypeOK

LEMMA InterruptTypes ==
  ASSUME TypeOK, NEW f \in Files, Interrupt(f)
  PROVE  TypeOK'
<1>1. stop' \in BOOLEAN
  BY DEF TypeOK, Interrupt
<1>2. NodeTypes'
  BY NodeTypesStay DEF TypeOK, Interrupt
<1>3. PipeTypes'
  BY LineTypes DEF TypeOK, Interrupt, PipeTypes
<1>4. CallTypes' /\ RustTypes'
  <2>1. CASE hostUp
    <3>1. termination' \in [Files -> {"Completed", "TimedOut", "Cancelled"}]
      BY <2>1 DEF Interrupt, TypeOK, CallTypes
    <3>2. CallTypes'
      BY <2>1, <3>1, Zenon DEF Interrupt, TypeOK, CallTypes
    <3>3. RustTypes'
      BY <2>1 DEF Interrupt, TypeOK, RustTypes
    <3> QED
      BY <3>2, <3>3
  <2>2. CASE ~hostUp
    <3>1. "error" \in Outcomes
      BY DEF Outcomes
    <3> QED
      BY <2>2, <3>1, ReturnTypes DEF TypeOK, Interrupt
  <2> QED
    BY <2>1, <2>2
<1> QED
  BY <1>1, <1>2, <1>3, <1>4 DEF TypeOK

LEMMA ReceiveTypes ==
  ASSUME TypeOK, NEW f \in Files, Receive(f)
  PROVE  TypeOK'
<1>1. stop' \in BOOLEAN
  BY DEF TypeOK, Receive
<1>2. PipeTypes' /\ NodeTypes'
  BY PipeTypesStay, NodeTypesStay DEF TypeOK, Receive
<1>3. CallTypes' /\ RustTypes'
  <2>1. CASE Return(f, Verdict(f)) /\ UNCHANGED eventError
    <3>1. Verdict(f) \in Outcomes
      BY DEF TypeOK, CallTypes, Verdict, Outcomes
    <3> QED
      BY <2>1, <3>1, ReturnTypes DEF TypeOK, Receive
  <2>2. CASE ~(Return(f, Verdict(f)) /\ UNCHANGED eventError)
    <3>1. PICK rejected \in BOOLEAN :
            /\ hasResult' = [hasResult EXCEPT ![f] = @ \/ Head(inbox[f]) = "result"]
            /\ eventError' = [eventError EXCEPT ![f] = @ \/ rejected]
            /\ UNCHANGED <<call, termination, outcome, routes>>
      BY <2>2, Zenon DEF Receive
    <3>2. inbox' = [inbox EXCEPT ![f] = Tail(@)] /\ inbox[f] # <<>>
      BY <2>2, Zenon DEF Receive
    <3>3. CallTypes'
      BY <3>1, Zenon DEF TypeOK, CallTypes
    <3>4. inbox' \in [Files -> Seq(Messages)]
      BY <3>2 DEF TypeOK, RustTypes
    <3>5. RustTypes'
      BY <3>1, <3>4 DEF Receive, TypeOK, RustTypes
    <3> QED
      BY <3>3, <3>5
  <2> QED
    BY <2>1, <2>2
<1> QED
  BY <1>1, <1>2, <1>3 DEF TypeOK

LEMMA KillHostTypes ==
  ASSUME TypeOK, NEW f \in Files, KillHost(f)
  PROVE  TypeOK'
<1>1. NodeTypes' /\ PipeTypes'
  BY HostGoneTypes DEF TypeOK, KillHost
<1>2. CallTypes' /\ RustTypes'
  BY CallTypesStay, RustTypesStay DEF TypeOK, KillHost
<1>3. stop' \in BOOLEAN
  BY DEF TypeOK, KillHost
<1> QED
  BY <1>1, <1>2, <1>3 DEF TypeOK

\* Steps of the isolates, of host.mjs and of the reader thread keep the types.
LEMMA IsolateTypes ==
  ASSUME TypeOK, NEW f \in Files, Isolate(f)
  PROVE  TypeOK'
<1>1. stop' \in BOOLEAN
  BY DEF TypeOK, Isolate, IsolateEvent, IsolateResult, IsolateExit, IsolateTerminated
<1>2. CallTypes' /\ RustTypes'
  BY CallTypesStay, RustTypesStay
  DEF TypeOK, Isolate, IsolateEvent, IsolateResult, IsolateExit, IsolateTerminated
<1>3. PipeTypes'
  <2>1. CASE IsolateEvent(f)
    <3>1. held' \in BOOLEAN
      BY <2>1, Zenon DEF IsolateEvent, TypeOK, PipeTypes
    <3> QED
      BY <2>1, <3>1 DEF IsolateEvent, TypeOK, PipeTypes
  <2>2. CASE ~IsolateEvent(f)
    BY <2>2, PipeTypesStay
    DEF TypeOK, Isolate, IsolateResult, IsolateExit, IsolateTerminated
  <2> QED
    BY <2>1, <2>2
<1>4. NodeTypes'
  <2>1. CASE IsolateEvent(f)
    BY <2>1 DEF IsolateEvent, TypeOK, NodeTypes, StdoutLines
  <2>2. CASE IsolateResult(f)
    BY <2>2 DEF IsolateResult, TypeOK, NodeTypes, StdoutLines
  <2>3. CASE IsolateExit(f)
    BY <2>3 DEF IsolateExit, TypeOK, NodeTypes
  <2>4. CASE IsolateTerminated(f)
    BY <2>4 DEF IsolateTerminated, TypeOK, NodeTypes
  <2> QED
    BY <2>1, <2>2, <2>3, <2>4 DEF Isolate
<1> QED
  BY <1>1, <1>2, <1>3, <1>4 DEF TypeOK

LEMMA EventLoopTypes ==
  ASSUME TypeOK, EventLoop
  PROVE  TypeOK'
<1>1. stop' \in BOOLEAN
  BY DEF TypeOK, EventLoop, HostRead, Forward, HostExit
<1>2. CallTypes' /\ RustTypes'
  BY CallTypesStay, RustTypesStay DEF TypeOK, EventLoop, HostRead, Forward, HostExit
<1>3. CASE HostRead
  <2> DEFINE f == Head(requests).file
  <2>0. Head(requests) \in Requests /\ requests' \in Seq(Requests)
    BY <1>3 DEF HostRead, TypeOK, PipeTypes
  <2>1. f \in Files
    BY <2>0 DEF Requests
  <2>2. frames' \in Seq(HostOutputs)
    <3>1. Line(f, "exit") \in HostOutputs
      BY <2>1, LineTypes
    <3>2. frames' = frames \/ frames' = Append(frames, Line(f, "exit"))
      BY <1>3, Zenon DEF HostRead
    <3>3. frames \in Seq(HostOutputs)
      BY DEF TypeOK, PipeTypes
    <3> HIDE DEF f
    <3> QED
      BY <3>1, <3>2, <3>3
  <2>3. PipeTypes'
    BY <1>3, <2>0, <2>2 DEF HostRead, TypeOK, PipeTypes
  <2>4. isolate' \in [Files -> {"none", "started", "tested", "finished",
                                "exited", "stopped", "failed"}]
    BY <1>3, <2>1 DEF HostRead, TypeOK, NodeTypes
  <2>5. workers' \subseteq Files /\ terminating' \subseteq workers'
    BY <1>3, <2>1 DEF HostRead, TypeOK, NodeTypes
  <2>6. NodeTypes'
    BY <1>3, <2>4, <2>5 DEF HostRead, TypeOK, NodeTypes
  <2> QED
    BY <1>1, <1>2, <2>3, <2>6 DEF TypeOK
<1>4. ASSUME NEW f \in Files, Forward(f) PROVE TypeOK'
  <2>1. Head(buffered[f]) \in StdoutLines /\ Tail(buffered[f]) \in Seq(StdoutLines)
    BY <1>4 DEF Forward, TypeOK, NodeTypes
  <2>2. PipeTypes'
    BY <1>4, <2>1, LineTypes DEF Forward, TypeOK, PipeTypes
  <2>3. NodeTypes'
    BY <1>4, <2>1 DEF Forward, TypeOK, NodeTypes
  <2> QED
    BY <1>1, <1>2, <2>2, <2>3 DEF TypeOK
<1>5. ASSUME NEW f \in Files, HostExit(f) PROVE TypeOK'
  <2>1. PipeTypes'
    BY <1>5, LineTypes DEF HostExit, TypeOK, PipeTypes
  <2>2. NodeTypes'
    BY <1>5 DEF HostExit, TypeOK, NodeTypes
  <2> QED
    BY <1>1, <1>2, <2>1, <2>2 DEF TypeOK
<1> QED
  BY <1>3, <1>4, <1>5 DEF EventLoop

LEMMA ReaderTypes ==
  ASSUME TypeOK, Reader
  PROVE  TypeOK'
<1>1. stop' \in BOOLEAN /\ CallTypes' /\ NodeTypes'
  BY CallTypesStay, NodeTypesStay
  DEF TypeOK, Reader, ReadFrame, ReadEof, ReadCorrupt, ReaderEnds
<1>2. CASE ReadFrame
  <2>1. /\ Head(frames) \in HostOutputs
        /\ frames' \in Seq(HostOutputs)
    BY <1>2 DEF ReadFrame, TypeOK, PipeTypes
  <2>2. Head(frames).file \in Files /\ Head(frames).kind \in Messages
    BY <2>1 DEF HostOutputs, Messages
  <2>3. inbox' \in [Files -> Seq(Messages)]
    BY <1>2, <2>2 DEF ReadFrame, TypeOK, RustTypes
  <2>4. PipeTypes'
    BY <1>2, <2>1 DEF ReadFrame, TypeOK, PipeTypes
  <2>5. RustTypes'
    BY <1>2, <2>3 DEF ReadFrame, TypeOK, RustTypes
  <2> QED
    BY <1>1, <2>4, <2>5 DEF TypeOK
<1>3. CASE ReaderEnds
  <2>1. inbox' \in [Files -> Seq(Messages)]
    BY <1>3 DEF ReaderEnds, TypeOK, RustTypes, Messages
  <2>2. RustTypes'
    BY <1>3, <2>1 DEF ReaderEnds, TypeOK, RustTypes
  <2>3. PipeTypes'
    BY <1>3 DEF ReaderEnds, TypeOK, PipeTypes
  <2> QED
    BY <1>1, <2>2, <2>3 DEF TypeOK
<1> QED
  BY <1>2, <1>3 DEF Reader, ReadEof, ReadCorrupt

LEMMA MainTypes ==
  ASSUME TypeOK, Crash \/ OrphanExits \/ Stop \/ DropHost \/ Joined
  PROVE  TypeOK'
<1>1. CallTypes'
  BY CallTypesStay DEF TypeOK, Crash, OrphanExits, Stop, DropHost, Joined
<1>2. CASE Crash
  BY <1>1, <1>2, HostGoneTypes, RustTypesStay DEF TypeOK, Crash
<1>3. CASE OrphanExits
  <2>1. RustTypes' /\ NodeTypes'
    BY <1>3, RustTypesStay, NodeTypesStay DEF TypeOK, OrphanExits
  <2>2. PipeTypes'
    BY <1>3 DEF TypeOK, PipeTypes, OrphanExits
  <2> QED
    BY <1>1, <1>3, <2>1, <2>2 DEF TypeOK, OrphanExits
<1>4. CASE Stop
  BY <1>1, <1>4, RustTypesStay, PipeTypesStay, NodeTypesStay DEF TypeOK, Stop
<1>5. CASE DropHost
  <2>1. RustTypes'
    BY <1>5 DEF TypeOK, RustTypes, DropHost
  <2> QED
    BY <1>1, <1>5, <2>1, HostGoneTypes DEF TypeOK, DropHost
<1>6. CASE Joined
  <2>1. RustTypes'
    BY <1>6 DEF TypeOK, RustTypes, Joined
  <2> QED
    BY <1>1, <1>6, <2>1, PipeTypesStay, NodeTypesStay DEF TypeOK, Joined
<1> QED
  BY <1>2, <1>3, <1>4, <1>5, <1>6

\* Every variable keeps its type; in particular only isolates of the workers
\* map are ever terminated.
THEOREM TypeCorrect == Spec => []TypeOK
<1>1. Init => TypeOK
  <2> SUFFICES ASSUME Init PROVE TypeOK
    OBVIOUS
  <2>1. CallTypes
    BY DEF Init, CallTypes
  <2>2. RustTypes
    BY DEF Init, RustTypes
  <2>3. PipeTypes
    <3>1. <<>> \in Seq(Requests) /\ <<>> \in Seq(HostOutputs)
      OBVIOUS
    <3> QED
      BY <3>1, Zenon DEF Init, PipeTypes
  <2>4. buffered \in [Files -> Seq(StdoutLines)]
    BY DEF Init
  <2>5. NodeTypes
    BY <2>4 DEF Init, NodeTypes
  <2> QED
    BY <2>1, <2>2, <2>3, <2>5 DEF Init, TypeOK
<1>2. TypeOK /\ [Next]_vars => TypeOK'
  <2> SUFFICES ASSUME TypeOK, [Next]_vars PROVE TypeOK'
    OBVIOUS
  <2>1. ASSUME NEW f \in Files, Thread(f) PROVE TypeOK'
    BY <2>1, RegisterTypes, SendTypes, InterruptTypes, ReceiveTypes, KillHostTypes
    DEF Thread
  <2>2. CASE UNCHANGED vars
    BY <2>2, CallTypesStay, RustTypesStay, PipeTypesStay, NodeTypesStay
    DEF vars, TypeOK
  <2> QED
    BY <2>1, <2>2, IsolateTypes, EventLoopTypes, ReaderTypes, MainTypes
    DEF Next, Over
<1> QED
  BY <1>1, <1>2, PTL DEF Spec

-----------------------------------------------------------------------------
\* The channel of a call whose host has died ends with the reader's word.
Told(f) == inbox[f] # <<>> /\ inbox[f][Len(inbox[f])] = "dead"

\* The reader thread and the flag it writes end together.
DeathInv ==
  /\ alive = reading
  /\ ~alive => \A f \in routes : Told(f)

\* No step of a pool thread loses the word: a route is added only to a live
\* host, and a call that reads the word gives up its route.
LEMMA ThreadKeepsTold ==
  ASSUME TypeOK, DeathInv, NEW f \in Files, Thread(f)
  PROVE  DeathInv'
<1>1. alive' = reading' /\ alive' = alive
  BY DEF DeathInv, Thread, Register, Send, Interrupt, Receive, KillHost, rustVars
<1>2. SUFFICES ASSUME ~alive, NEW g \in routes' PROVE Told(g)'
  BY <1>1 DEF DeathInv
<1>3. CASE \E o \in Outcomes : Return(f, o)
  <2>1. g \in routes /\ g # f
    BY <1>2, <1>3 DEF Return
  <2>2. inbox'[g] = inbox[g]
    BY <1>3, <2>1 DEF Return, TypeOK, RustTypes
  <2> QED
    BY <1>2, <2>1, <2>2 DEF DeathInv, Told
<1>4. CASE UNCHANGED <<routes, inbox>>
  BY <1>2, <1>4 DEF DeathInv, Told
<1>5. CASE /\ Receive(f)
           /\ inbox[f] # <<>>
           /\ Head(inbox[f]) \in StdoutLines
           /\ inbox' = [inbox EXCEPT ![f] = Tail(@)]
           /\ UNCHANGED routes
  <2>1. CASE g # f
    BY <1>2, <1>5, <2>1 DEF DeathInv, Told, TypeOK, RustTypes
  <2>2. CASE g = f
    <3>1. Told(f)
      BY <1>2, <1>5, <2>2 DEF DeathInv
    <3>2. inbox[f] \in Seq(Messages) /\ inbox'[f] = Tail(inbox[f])
      BY <1>5 DEF TypeOK, RustTypes
    <3>3. Head(inbox[f]) = inbox[f][1] /\ Head(inbox[f]) # "dead"
      BY <1>5, <3>2 DEF StdoutLines
    <3>4. Len(inbox[f]) > 1
      BY <3>1, <3>2, <3>3 DEF Told
    <3>5. /\ Len(Tail(inbox[f])) = Len(inbox[f]) - 1
          /\ Tail(inbox[f])[Len(inbox[f]) - 1] = inbox[f][Len(inbox[f])]
      BY <3>2, <3>4, HeadTailProperties
    <3>6. Tail(inbox[f]) # <<>>
      <4>1. Len(Tail(inbox[f])) # 0
        BY <3>2, <3>4, <3>5
      <4>2. \A s \in Seq(Messages) : Len(s) # 0 => s # <<>>
        OBVIOUS
      <4>3. Tail(inbox[f]) \in Seq(Messages)
        BY <3>1, <3>2, HeadTailProperties DEF Told
      <4> QED
        BY <4>1, <4>2, <4>3, Zenon
    <3>7. inbox[f][Len(inbox[f])] = "dead"
      BY <3>1 DEF Told
    <3>8. Tail(inbox[f])[Len(Tail(inbox[f]))] = "dead"
      BY <3>5, <3>7
    <3> QED
      BY <2>2, <3>2, <3>6, <3>8, Zenon DEF Told
  <2> QED
    BY <2>1, <2>2
<1>6. ASSUME Register(f)
      PROVE (\E o \in Outcomes : Return(f, o)) \/ UNCHANGED <<routes, inbox>>
  BY <1>2, <1>6 DEF Register, Outcomes
<1>7. ASSUME Send(f)
      PROVE (\E o \in Outcomes : Return(f, o)) \/ UNCHANGED <<routes, inbox>>
  BY <1>7 DEF Send, Outcomes
<1>8. ASSUME Interrupt(f)
      PROVE (\E o \in Outcomes : Return(f, o)) \/ UNCHANGED <<routes, inbox>>
  BY <1>8 DEF Interrupt, Outcomes
<1>9. CASE Receive(f)
  <2>1. Verdict(f) \in Outcomes
    BY DEF TypeOK, CallTypes, Verdict, Outcomes
  <2>2. CASE Return(f, Verdict(f))
    BY <1>3, <2>1, <2>2
  <2>3. CASE ~Return(f, Verdict(f))
    <3>1. /\ inbox[f] # <<>>
          /\ Head(inbox[f]) \in StdoutLines
          /\ inbox' = [inbox EXCEPT ![f] = Tail(@)]
          /\ UNCHANGED routes
      BY <1>9, <2>3 DEF Receive, StdoutLines
    <3> QED
      BY <1>5, <1>9, <3>1
  <2> QED
    BY <2>2, <2>3
<1>10. ASSUME KillHost(f) PROVE UNCHANGED <<routes, inbox>>
  BY <1>10 DEF KillHost, rustVars
<1> QED
  BY <1>3, <1>4, <1>6, <1>7, <1>8, <1>9, <1>10 DEF Thread

\* Whatever the interleaving, no call is left waiting on a host whose reader
\* has ended without having been told.
THEOREM DeathIsAnnounced == Spec => []DeathReachesEveryCall
<1>1. Init => DeathInv
  BY DEF Init, DeathInv
<1>2. TypeOK /\ DeathInv /\ [Next]_vars => DeathInv'
  <2> SUFFICES ASSUME TypeOK, DeathInv, [Next]_vars PROVE DeathInv'
    OBVIOUS
  <2>1. ASSUME UNCHANGED <<routes, inbox, alive, reading>> PROVE DeathInv'
    BY <2>1 DEF DeathInv, Told
  <2>2. ASSUME NEW f \in Files, Isolate(f)
        PROVE UNCHANGED <<routes, inbox, alive, reading>>
    BY <2>2 DEF Isolate, IsolateEvent, IsolateResult, IsolateExit,
                IsolateTerminated, rustVars
  <2>3. CASE EventLoop
    BY <2>1, <2>3 DEF EventLoop, HostRead, Forward, HostExit, rustVars
  <2>4. CASE ReadFrame
    BY <2>4 DEF ReadFrame, DeathInv
  <2>5. CASE ReaderEnds
    <3>1. ASSUME NEW f \in routes' PROVE Told(f)'
      <4>1. inbox[f] \in Seq(Messages) /\ inbox'[f] = Append(inbox[f], "dead")
        BY <2>5, <3>1 DEF ReaderEnds, TypeOK, RustTypes
      <4> QED
        BY <4>1 DEF Told
    <3> QED
      BY <2>5, <3>1 DEF ReaderEnds, DeathInv
  <2>6. CASE Crash \/ OrphanExits \/ Stop \/ DropHost \/ Joined \/ Over \/ UNCHANGED vars
    BY <2>1, <2>6 DEF Crash, OrphanExits, Stop, DropHost, Joined, Over, vars, rustVars
  <2> QED
    BY <2>1, <2>2, <2>3, <2>4, <2>5, <2>6, ThreadKeepsTold
    DEF Next, Reader, ReadEof, ReadCorrupt
<1>3. DeathInv => DeathReachesEveryCall
  BY DEF DeathInv, DeathReachesEveryCall, Told
<1> QED
  BY <1>1, <1>2, <1>3, TypeCorrect, PTL DEF Spec

-----------------------------------------------------------------------------
\* e is in s; an e of s has no d before it; e is in s at most once.
Has(s, e) == \E i \in 1 .. Len(s) : s[i] = e
Before(s, e, d) ==
  \E i \in 1 .. Len(s) : s[i] = e /\ \A j \in 1 .. i - 1 : s[j] # d
Once(s, e) == \A i, j \in 1 .. Len(s) : s[i] = e /\ s[j] = e => i = j

\* The three over a sequence that grows at its end.
LEMMA AfterAppend ==
  ASSUME NEW S, NEW s \in Seq(S), NEW e \in S, NEW a, NEW b
  PROVE  /\ Has(Append(s, e), a) <=> Has(s, a) \/ e = a
         /\ Before(Append(s, e), a, b) <=> Before(s, a, b) \/ (e = a /\ ~Has(s, b))
         /\ Once(Append(s, e), a) <=> Once(s, a) /\ ~(e = a /\ Has(s, a))
<1> DEFINE t == Append(s, e)
<1>1. /\ Len(s) \in Nat /\ Len(t) = Len(s) + 1 /\ t[Len(s) + 1] = e
      /\ \A i \in 1 .. Len(s) : t[i] = s[i]
  OBVIOUS
<1> HIDE DEF t
<1>2. Has(t, a) <=> Has(s, a) \/ e = a
  BY <1>1 DEF Has
<1>3. Before(t, a, b) <=> Before(s, a, b) \/ (e = a /\ ~Has(s, b))
  BY <1>1 DEF Has, Before
<1>4. Once(t, a) <=> Once(s, a) /\ ~(e = a /\ Has(s, a))
  BY <1>1 DEF Has, Once
<1> QED
  BY <1>2, <1>3, <1>4 DEF t

\* The three over a sequence that loses its head.
LEMMA AfterTail ==
  ASSUME NEW S, NEW s \in Seq(S), s # <<>>, NEW a, NEW b
  PROVE  /\ Has(s, a) <=> Head(s) = a \/ Has(Tail(s), a)
         /\ Before(s, a, b) <=> Head(s) = a \/ (Head(s) # b /\ Before(Tail(s), a, b))
         /\ Once(s, a) => Once(Tail(s), a) /\ ~(Head(s) = a /\ Has(Tail(s), a))
<1> DEFINE t == Tail(s)
           h == Head(s)
<1>1. /\ Len(s) \in Nat \ {0} /\ Len(t) = Len(s) - 1 /\ h = s[1]
      /\ \A i \in 1 .. Len(t) : t[i] = s[i + 1]
  BY HeadTailProperties
<1>a. \A i \in 2 .. Len(s) : t[i - 1] = s[i]
  BY <1>1
<1> HIDE DEF t, h
<1>2. Has(s, a) <=> h = a \/ Has(t, a)
  <2>1. Has(s, a) => h = a \/ Has(t, a)
    BY <1>1, <1>a DEF Has
  <2>2. h = a \/ Has(t, a) => Has(s, a)
    BY <1>1, <1>a DEF Has
  <2> QED BY <2>1, <2>2
<1>3. Before(s, a, b) <=> h = a \/ (h # b /\ Before(t, a, b))
  <2>1. ASSUME Before(s, a, b), h # a PROVE h # b /\ Before(t, a, b)
    <3>1. PICK i \in 1 .. Len(s) : s[i] = a /\ \A j \in 1 .. i - 1 : s[j] # b
      BY <2>1 DEF Before
    <3>2. i - 1 \in 1 .. Len(t) /\ t[i - 1] = a
      BY <1>1, <1>a, <2>1, <3>1
    <3>3. \A j \in 1 .. (i - 1) - 1 : t[j] # b
      BY <1>1, <3>1
    <3>4. h # b
      BY <1>1, <3>1, <3>2
    <3> QED BY <3>2, <3>3, <3>4 DEF Before
  <2>2. ASSUME h = a PROVE Before(s, a, b)
    <3>1. 1 \in 1 .. Len(s) /\ s[1] = a /\ \A j \in 1 .. 1 - 1 : s[j] # b
      BY <1>1, <2>2
    <3> QED BY <3>1, Zenon DEF Before
  <2>3. ASSUME h # b, Before(t, a, b) PROVE Before(s, a, b)
    <3>1. PICK i \in 1 .. Len(t) : t[i] = a /\ \A j \in 1 .. i - 1 : t[j] # b
      BY <2>3 DEF Before
    <3>2. i + 1 \in 1 .. Len(s) /\ s[i + 1] = a
      BY <1>1, <3>1
    <3>3. \A j \in 1 .. (i + 1) - 1 : s[j] # b
      BY <1>1, <1>a, <2>3, <3>1
    <3> QED BY <3>2, <3>3 DEF Before
  <2> QED BY <2>1, <2>2, <2>3
<1>4. Once(s, a) => Once(t, a) /\ ~(h = a /\ Has(t, a))
  <2>1. ASSUME Once(s, a) PROVE Once(t, a)
    BY <1>1, <2>1 DEF Once
  <2>2. ASSUME Once(s, a), h = a PROVE ~Has(t, a)
    <3>1. SUFFICES ASSUME NEW i \in 1 .. Len(t), t[i] = a PROVE FALSE
      BY DEF Has
    <3>2. 1 \in 1 .. Len(s) /\ i + 1 \in 1 .. Len(s) /\ i + 1 # 1
      BY <1>1
    <3>3. s[1] = a /\ s[i + 1] = a
      BY <1>1, <2>2, <3>1
    <3> QED BY <2>2, <3>2, <3>3 DEF Once
  <2> QED BY <2>1, <2>2
<1> QED
  BY <1>2, <1>3, <1>4 DEF t, h

\* Lines of two files, or of two kinds, differ.
LEMMA LineEq ==
  \A f, g, k, l : Line(f, k) = Line(g, l) <=> f = g /\ k = l
BY DEF Line

\* The two lines of a file on the host's stdin.
Runs(f) == Line(f, "run")
Cancels(f) == Line(f, "cancel")

\* A host that is gone reads nothing and runs nothing.
GoneOK(f) == ~hostUp => requests = <<>> /\ ~Live(f)

\* Before its request is sent, nothing of f is with the host.
UnsentOK(f) ==
  call[f] \in {"idle", "registered"} =>
    /\ isolate[f] = "none"
    /\ termination[f] = "Completed"
    /\ ~Has(requests, Runs(f))
    /\ ~Has(requests, Cancels(f))

\* One run line starts one isolate, and none has been started before.
RunOK(f) == Has(requests, Runs(f)) => isolate[f] = "none" /\ Once(requests, Runs(f))

\* The run line of a call that waits for its isolate precedes its cancel line.
FirstOK(f) ==
  hostUp /\ call[f] = "waiting" /\ isolate[f] = "none" =>
    Before(requests, Runs(f), Cancels(f))

\* What lives is in the workers map, where a cancel line finds it.
LiveOK(f) == hostUp /\ Live(f) => f \in workers

\* CancelReachesIsolate for f.
CancelOK(f) ==
  hostUp /\ call[f] = "waiting" /\ termination[f] # "Completed" =>
     \/ f \in terminating
     \/ isolate[f] \in {"exited", "stopped", "failed"}
     \/ Has(requests, Cancels(f))

RequestOK(f) ==
  GoneOK(f) /\ UnsentOK(f) /\ RunOK(f) /\ FirstOK(f) /\ LiveOK(f) /\ CancelOK(f)

\* What a line written to the host's stdin adds to what is on the way.
LEMMA SentLine ==
  ASSUME TypeOK, NEW g \in Files, NEW k \in {"run", "cancel"},
         requests' = Append(requests, Line(g, k)), NEW f \in Files
  PROVE  /\ Has(requests', Runs(f)) <=> Has(requests, Runs(f)) \/ (f = g /\ k = "run")
         /\ Has(requests', Cancels(f)) <=>
              Has(requests, Cancels(f)) \/ (f = g /\ k = "cancel")
         /\ Before(requests', Runs(f), Cancels(f)) <=>
              \/ Before(requests, Runs(f), Cancels(f))
              \/ f = g /\ k = "run" /\ ~Has(requests, Cancels(f))
         /\ Once(requests', Runs(f)) <=>
              Once(requests, Runs(f)) /\ ~(f = g /\ k = "run" /\ Has(requests, Runs(f)))
<1>1. Line(g, k) \in Requests /\ requests \in Seq(Requests)
  BY LineTypes DEF TypeOK, PipeTypes
<1>2. /\ Line(g, k) = Runs(f) <=> f = g /\ k = "run"
      /\ Line(g, k) = Cancels(f) <=> f = g /\ k = "cancel"
  BY LineEq DEF Runs, Cancels
<1>3. /\ Has(requests', Runs(f)) <=> Has(requests, Runs(f)) \/ Line(g, k) = Runs(f)
      /\ Before(requests', Runs(f), Cancels(f)) <=>
           \/ Before(requests, Runs(f), Cancels(f))
           \/ Line(g, k) = Runs(f) /\ ~Has(requests, Cancels(f))
      /\ Once(requests', Runs(f)) <=>
           Once(requests, Runs(f)) /\ ~(Line(g, k) = Runs(f) /\ Has(requests, Runs(f)))
  BY <1>1, AfterAppend
<1>4. Has(requests', Cancels(f)) <=> Has(requests, Cancels(f)) \/ Line(g, k) = Cancels(f)
  BY <1>1, AfterAppend
<1> QED
  BY <1>2, <1>3, <1>4

\* What the line handler takes from the host's stdin.
LEMMA ReadLine ==
  ASSUME TypeOK, requests # <<>>, requests' = Tail(requests), NEW f \in Files
  PROVE  /\ Head(requests).file \in Files
         /\ Head(requests).kind \in {"run", "cancel"}
         /\ Has(requests, Runs(f)) <=> 
              \/ Head(requests).file = f /\ Head(requests).kind = "run"
              \/ Has(requests', Runs(f))
         /\ Has(requests, Cancels(f)) <=> 
              \/ Head(requests).file = f /\ Head(requests).kind = "cancel"
              \/ Has(requests', Cancels(f))
         /\ Before(requests, Runs(f), Cancels(f)) =>
              \/ Head(requests).file = f /\ Head(requests).kind = "run"
              \/ /\ ~(Head(requests).file = f /\ Head(requests).kind = "cancel")
                 /\ Before(requests', Runs(f), Cancels(f))
         /\ Once(requests, Runs(f)) =>
              /\ Once(requests', Runs(f))
              /\ ~(/\ Head(requests).file = f /\ Head(requests).kind = "run"
                   /\ Has(requests', Runs(f)))
<1>1. requests \in Seq(Requests)
  BY DEF TypeOK, PipeTypes
<1>2. Head(requests) \in Requests
  BY <1>1
<1>3. PICK g \in Files, k \in {"run", "cancel"} : Head(requests) = Line(g, k)
  BY <1>2 DEF Requests, Line
<1>4. Head(requests).file = g /\ Head(requests).kind = k
  BY <1>3 DEF Line
<1> DEFINE h == Head(requests)
<1>5. /\ h = Runs(f) <=> f = g /\ k = "run"
      /\ h = Cancels(f) <=> f = g /\ k = "cancel"
  BY <1>3, LineEq DEF Runs, Cancels
<1>6. /\ Has(requests, Runs(f)) <=> h = Runs(f) \/ Has(requests', Runs(f))
      /\ Before(requests, Runs(f), Cancels(f)) <=>
           h = Runs(f) \/ (h # Cancels(f) /\ Before(requests', Runs(f), Cancels(f)))
      /\ Once(requests, Runs(f)) =>
           Once(requests', Runs(f)) /\ ~(h = Runs(f) /\ Has(requests', Runs(f)))
  BY <1>1, AfterTail
<1>7. Has(requests, Cancels(f)) <=> h = Cancels(f) \/ Has(requests', Cancels(f))
  BY <1>1, AfterTail
<1> HIDE DEF h
<1> QED
  BY <1>4, <1>5, <1>6, <1>7

\* A step that touches none of these variables keeps the part of f.
LEMMA RequestStays ==
  ASSUME NEW f \in Files, RequestOK(f), 
         UNCHANGED <<hostUp, requests, isolate, call, termination, workers, terminating>>
  PROVE RequestOK(f)'
BY DEF RequestOK, GoneOK, UnsentOK, RunOK, FirstOK, LiveOK, CancelOK, Live, Runs, Cancels

\* Steps of the pool threads keep the order of the request lines.
LEMMA RegisterKeepsRequests ==
  ASSUME TypeOK, NEW g \in Files, Register(g), NEW f \in Files, RequestOK(f)
  PROVE  RequestOK(f)'
<1> USE DEF RequestOK, GoneOK, UnsentOK, RunOK, FirstOK, LiveOK, CancelOK, Live,
            Runs, Cancels
<1>1. UNCHANGED <<hostUp, requests, isolate, workers, terminating>>
  BY DEF Register, pipeVars, nodeVars
<1>2. call'[f] = call[f] \/ (call[f] = "idle" /\ call'[f] \in {"registered", "returned"})
  BY DEF Register, Return, TypeOK, CallTypes
<1>3. termination'[f] \in {termination[f], "Completed"}
  BY DEF Register, Return, TypeOK, CallTypes
<1> QED
  BY <1>1, <1>2, <1>3

\* The request: the first line of its file.
LEMMA SendKeepsRequests ==
  ASSUME TypeOK, NEW g \in Files, Send(g), NEW f \in Files, RequestOK(f)
  PROVE  RequestOK(f)'
<1> USE DEF RequestOK, GoneOK, UnsentOK, RunOK, FirstOK, LiveOK, CancelOK, Live
<1>1. UNCHANGED <<hostUp, isolate, workers, terminating>>
  BY DEF Send, nodeVars
<1>2. CASE hostUp
  <2>1. requests' = Append(requests, Line(g, "run"))
        /\ call' = [call EXCEPT ![g] = "waiting"] /\ termination' = termination
    BY <1>2 DEF Send
  <2>2. call'[f] = IF f = g THEN "waiting" ELSE call[f]
    BY <2>1 DEF TypeOK, CallTypes
  <2>3. f = g => call[f] = "registered"
    BY DEF Send
  <2>4. /\ Has(requests', Runs(f)) <=> Has(requests, Runs(f)) \/ f = g
        /\ Has(requests', Cancels(f)) <=> Has(requests, Cancels(f))
        /\ Before(requests', Runs(f), Cancels(f)) <=>
             \/ Before(requests, Runs(f), Cancels(f))
             \/ f = g /\ ~Has(requests, Cancels(f))
        /\ Once(requests', Runs(f)) <=>
             Once(requests, Runs(f)) /\ ~(f = g /\ Has(requests, Runs(f)))
    BY <2>1, SentLine
  <2>5. CASE f = g
    <3>1. ~Has(requests, Runs(f)) => Once(requests, Runs(f))
      BY DEF Has, Once
    <3> QED
      BY <1>1, <1>2, <2>1, <2>2, <2>3, <2>4, <2>5, <3>1 DEF Runs, Cancels
  <2>6. CASE f # g
    BY <1>1, <1>2, <2>1, <2>2, <2>4, <2>6 DEF Runs, Cancels
  <2> QED
    BY <2>5, <2>6
<1>3. CASE ~hostUp
  <2>1. /\ requests' = requests
        /\ call'[f] = IF f = g THEN "returned" ELSE call[f]
        /\ termination'[f] \in {termination[f], "Completed"}
    BY <1>3 DEF Send, Return, TypeOK, CallTypes
  <2> QED
    BY <1>1, <1>3, <2>1 DEF Runs, Cancels
<1> QED
  BY <1>2, <1>3

\* The cancel line goes behind the run line of a call that waits.
LEMMA InterruptKeepsRequests ==
  ASSUME TypeOK, NEW g \in Files, Interrupt(g), NEW f \in Files, RequestOK(f)
  PROVE  RequestOK(f)'
<1> USE DEF RequestOK, GoneOK, UnsentOK, RunOK, FirstOK, LiveOK, CancelOK, Live
<1>1. UNCHANGED <<hostUp, isolate, workers, terminating>>
  BY DEF Interrupt, nodeVars
<1>2. CASE hostUp
  <2>1. requests' = Append(requests, Line(g, "cancel")) /\ call' = call
    BY <1>2 DEF Interrupt
  <2>2. f # g => termination'[f] = termination[f]
    BY <1>2 DEF Interrupt, TypeOK, CallTypes
  <2>3. call[g] = "waiting"
    BY DEF Interrupt
  <2> QED
    BY <1>1, <1>2, <2>1, <2>2, <2>3, SentLine
<1>3. CASE ~hostUp
  <2>1. /\ requests' = requests
        /\ call'[f] = IF f = g THEN "returned" ELSE call[f]
        /\ termination'[f] \in {termination[f], "Completed"}
    BY <1>3 DEF Interrupt, Return, TypeOK, CallTypes
  <2> QED
    BY <1>1, <1>3, <2>1 DEF Runs, Cancels
<1> QED
  BY <1>2, <1>3

\* A message taken from the channel writes no line.
LEMMA ReceiveKeepsRequests ==
  ASSUME TypeOK, NEW g \in Files, Receive(g), NEW f \in Files, RequestOK(f)
  PROVE  RequestOK(f)'
<1> USE DEF RequestOK, GoneOK, UnsentOK, RunOK, FirstOK, LiveOK, CancelOK, Live,
            Runs, Cancels
<1>1. UNCHANGED <<hostUp, requests, isolate, workers, terminating>>
  BY DEF Receive, pipeVars, nodeVars
<1>2. /\ call'[f] = call[f] \/ (call[f] = "waiting" /\ call'[f] = "returned")
      /\ termination'[f] \in {termination[f], "Completed"}
  BY DEF Receive, Return, TypeOK, CallTypes
<1> QED
  BY <1>1, <1>2

\* A host that is gone leaves no line and no live isolate.
LEMMA HostGoneKeepsRequests ==
  ASSUME TypeOK, HostGone, UNCHANGED <<call, termination>>,
         NEW f \in Files, RequestOK(f)
  PROVE  RequestOK(f)'
<1>1. ~hostUp' /\ requests' = <<>>
  BY DEF HostGone
<1>2. isolate'[f] = IF Live(f) THEN "stopped" ELSE isolate[f]
  BY DEF HostGone
<1>3. ~Live(f)'
  BY <1>2 DEF Live
<1>4. ~Has(requests', Runs(f)') /\ ~Has(requests', Cancels(f)')
  BY <1>1 DEF Has
<1> QED
  BY <1>1, <1>2, <1>3, <1>4
  DEF RequestOK, GoneOK, UnsentOK, RunOK, FirstOK, LiveOK, CancelOK, Live

\* The line handler: a run line is the first of its file, so the cancel line that
\* follows finds the isolate started, ended or failed.
LEMMA HostReadKeepsRequests ==
  ASSUME TypeOK, HostRead, NEW f \in Files, RequestOK(f)
  PROVE  RequestOK(f)'
<1> DEFINE g == Head(requests).file
           k == Head(requests).kind
<1> USE DEF RequestOK, GoneOK, UnsentOK, RunOK, FirstOK, LiveOK, CancelOK, Live
<1>1. UNCHANGED <<call, termination, hostUp>> /\ hostUp
  BY DEF HostRead, callVars
<1>2. /\ g \in Files /\ k \in {"run", "cancel"}
      /\ Has(requests, Runs(f)) <=> (g = f /\ k = "run") \/ Has(requests', Runs(f))
      /\ Has(requests, Cancels(f)) <=> (g = f /\ k = "cancel") \/ Has(requests', Cancels(f))
      /\ Before(requests, Runs(f), Cancels(f)) =>
           \/ g = f /\ k = "run"
           \/ ~(g = f /\ k = "cancel") /\ Before(requests', Runs(f), Cancels(f))
      /\ Once(requests, Runs(f)) =>
           Once(requests', Runs(f)) /\ ~(g = f /\ k = "run" /\ Has(requests', Runs(f)))
  BY ReadLine DEF HostRead
<1>3. CASE k = "run"
  <2>1. terminating' = terminating
    BY <1>3 DEF HostRead
  <2>2. f # g => isolate'[f] = isolate[f] /\ (f \in workers => f \in workers')
    BY <1>3 DEF HostRead, TypeOK, NodeTypes
  <2>3. (isolate'[g] = "started" /\ g \in workers') \/ isolate'[g] = "failed"
    BY <1>2, <1>3 DEF HostRead, TypeOK, NodeTypes
  <2> HIDE DEF g, k
  <2> QED
    BY <1>1, <1>2, <1>3, <2>1, <2>2, <2>3 DEF Runs, Cancels
<1>4. CASE k = "cancel"
  <2>1. UNCHANGED <<isolate, workers>> /\ terminating' = terminating \cup ({g} \cap workers)
    BY <1>4 DEF HostRead
  <2>2. isolate[f] \in {"none", "started", "tested", "finished",
                         "exited", "stopped", "failed"}
    BY DEF TypeOK, NodeTypes
  <2> HIDE DEF g, k
  <2> QED
    BY <1>1, <1>2, <1>4, <2>1, <2>2
<1> QED
  BY <1>2, <1>3, <1>4

\* An isolate that has ended stays ended.
LEMMA IsolateKeepsRequests ==
  ASSUME TypeOK, NEW g \in Files, Isolate(g), NEW f \in Files, RequestOK(f)
  PROVE  RequestOK(f)'
<1>1. UNCHANGED <<call, termination, requests, hostUp, workers, terminating>>
  BY DEF Isolate, IsolateEvent, IsolateResult, IsolateExit, IsolateTerminated,
     callVars, pipeVars
<1>2. \/ isolate'[f] = isolate[f] 
      \/ Live(f) /\ isolate'[f] \in {"tested", "finished", "exited", "stopped"}
  BY DEF Isolate, IsolateEvent, IsolateResult, IsolateExit, IsolateTerminated, Live,
     TypeOK, NodeTypes
<1> QED
  BY <1>1, <1>2
  DEF RequestOK, GoneOK, UnsentOK, RunOK, FirstOK, LiveOK, CancelOK, Live, Runs, Cancels

\* The worker taken out of the map has ended.
LEMMA HostExitKeepsRequests ==
  ASSUME TypeOK, NEW g \in Files, HostExit(g), NEW f \in Files, RequestOK(f)
  PROVE  RequestOK(f)'
<1>1. UNCHANGED <<call, termination, requests, hostUp, isolate>>
  BY DEF HostExit, callVars
<1>2. /\ isolate[g] \in {"exited", "stopped"}
      /\ workers' = workers \ {g} /\ terminating' = terminating \ {g}
  BY DEF HostExit
<1> QED
  BY <1>1, <1>2
  DEF RequestOK, GoneOK, UnsentOK, RunOK, FirstOK, LiveOK, CancelOK, Live, Runs, Cancels

\* The order of the request lines: what makes CancelReachesIsolate inductive.
RequestInv == \A f \in Files : RequestOK(f)

\* Every step keeps the order of the request lines.
LEMMA RequestInvStep == TypeOK /\ RequestInv /\ [Next]_vars => RequestInv'
<1> SUFFICES ASSUME TypeOK, [Next]_vars, NEW f \in Files, RequestOK(f)
             PROVE  RequestOK(f)'
  BY DEF RequestInv
<1>1. ASSUME UNCHANGED <<hostUp, requests, isolate, call, termination, workers,
                         terminating>>
      PROVE  RequestOK(f)'
  BY <1>1, RequestStays
<1>2. ASSUME NEW g \in Files, Thread(g) PROVE RequestOK(f)'
  <2>1. KillHost(g) => HostGone /\ UNCHANGED <<call, termination>>
    BY DEF KillHost, callVars
  <2> QED
    BY <1>2, <2>1, RegisterKeepsRequests, SendKeepsRequests, InterruptKeepsRequests,
       ReceiveKeepsRequests,
       HostGoneKeepsRequests DEF Thread
<1>3. ASSUME NEW g \in Files, Isolate(g) PROVE RequestOK(f)'
  BY <1>3, IsolateKeepsRequests
<1>4. CASE EventLoop
  <2>1. ASSUME NEW g \in Files, Forward(g) PROVE RequestOK(f)'
    BY <1>1, <2>1 DEF Forward, callVars
  <2> QED
    BY <1>4, <2>1, HostReadKeepsRequests, HostExitKeepsRequests DEF EventLoop
<1>5. CASE Crash \/ DropHost
  BY <1>5, HostGoneKeepsRequests DEF Crash, DropHost, callVars
<1>6. CASE OrphanExits \/ Stop \/ Joined \/ Over \/ UNCHANGED vars
  BY <1>1, <1>6 DEF OrphanExits, Stop, Joined, Over, vars, callVars, pipeVars, nodeVars
<1>7. CASE Reader
  BY <1>1, <1>7 DEF Reader, ReadFrame, ReadEof, ReadCorrupt, ReaderEnds, callVars, nodeVars
<1> QED
  BY <1>2, <1>3, <1>4, <1>5, <1>6, <1>7 DEF Next

\* No line is written before the first call.
LEMMA RequestInvInit == Init => RequestInv
<1> SUFFICES ASSUME Init, NEW f \in Files PROVE RequestOK(f)
  BY DEF RequestInv
<1>1. ~Has(requests, Runs(f)) /\ ~Has(requests, Cancels(f))
  BY DEF Init, Has
<1> QED
  BY <1>1 DEF Init, RequestOK, GoneOK, UnsentOK, RunOK, FirstOK, LiveOK, CancelOK, Live

\* The request lines are in order in every reachable state.
LEMMA RequestsInOrder == Spec => []RequestInv
BY RequestInvInit, RequestInvStep, TypeCorrect, PTL DEF Spec

\* Whatever the interleaving of pool threads and host, an interrupted file whose
\* isolate exists or will exist is being terminated, has ended, or has its cancel
\* line on the way (await_worker, the line handler of host.mjs).
THEOREM CancelArrives == Spec => []CancelReachesIsolate
<1>1. TypeOK /\ RequestInv => CancelReachesIsolate
  <2> SUFFICES ASSUME TypeOK, RequestInv, hostUp, NEW f \in Files,
                      call[f] = "waiting", termination[f] # "Completed"
               PROVE  \/ f \in terminating
                      \/ isolate[f] \in {"exited", "stopped", "failed"}
                      \/ \E i \in DOMAIN requests : requests[i] = Line(f, "cancel")
    BY DEF CancelReachesIsolate
  <2>1. DOMAIN requests = 1 .. Len(requests)
    BY DEF TypeOK, PipeTypes
  <2> QED
    BY <2>1 DEF RequestInv, RequestOK, CancelOK, Has, Cancels
<1> QED
  BY <1>1, TypeCorrect, RequestsInOrder, PTL

-----------------------------------------------------------------------------
\* The frames of a file that matter here, and an isolate that is no more.
Exits(f) == Line(f, "exit")
Results(f) == Line(f, "result")
Ended(f) == isolate[f] \in {"exited", "stopped", "failed"}

\* What a frame written by the host adds to what is on the way.
LEMMA SentFrame ==
  ASSUME TypeOK, NEW g \in Files, NEW k \in StdoutLines \cup {"exit"},
         frames' = Append(frames, Line(g, k)), NEW f \in Files
  PROVE  /\ Has(frames', Exits(f)) <=> Has(frames, Exits(f)) \/ (f = g /\ k = "exit")
         /\ Before(frames', Results(f), Exits(f)) <=>
              \/ Before(frames, Results(f), Exits(f))
              \/ f = g /\ k = "result" /\ ~Has(frames, Exits(f))
<1>1. Line(g, k) \in HostOutputs /\ frames \in Seq(HostOutputs)
  BY LineTypes DEF TypeOK, PipeTypes
<1>2. /\ Line(g, k) = Exits(f) <=> f = g /\ k = "exit"
      /\ Line(g, k) = Results(f) <=> f = g /\ k = "result"
  BY LineEq DEF Exits, Results
<1>3. Before(frames', Results(f), Exits(f)) <=>
           \/ Before(frames, Results(f), Exits(f))
           \/ Line(g, k) = Results(f) /\ ~Has(frames, Exits(f))
  BY <1>1, AfterAppend
<1>4. Has(frames', Exits(f)) <=> Has(frames, Exits(f)) \/ Line(g, k) = Exits(f)
  BY <1>1, AfterAppend
<1> QED
  BY <1>2, <1>3, <1>4

\* What the reader thread takes from the host's stdout.
LEMMA TakenFrame ==
  ASSUME TypeOK, frames # <<>>, frames' = Tail(frames), NEW f \in Files
  PROVE  /\ Head(frames).file \in Files
         /\ Head(frames).kind \in StdoutLines \cup {"exit"}
         /\ Has(frames, Exits(f)) <=>
              \/ Head(frames).file = f /\ Head(frames).kind = "exit"
              \/ Has(frames', Exits(f))
         /\ Before(frames, Results(f), Exits(f)) <=>
              \/ Head(frames).file = f /\ Head(frames).kind = "result"
              \/ /\ ~(Head(frames).file = f /\ Head(frames).kind = "exit")
                 /\ Before(frames', Results(f), Exits(f))
<1>1. frames \in Seq(HostOutputs)
  BY DEF TypeOK, PipeTypes
<1>2. Head(frames) \in HostOutputs
  BY <1>1
<1>3. PICK g \in Files, k \in StdoutLines \cup {"exit"} : Head(frames) = Line(g, k)
  BY <1>2 DEF HostOutputs, Line
<1>4. Head(frames).file = g /\ Head(frames).kind = k
  BY <1>3 DEF Line
<1> DEFINE h == Head(frames)
<1>5. /\ h = Exits(f) <=> f = g /\ k = "exit"
      /\ h = Results(f) <=> f = g /\ k = "result"
  BY <1>3, LineEq DEF Exits, Results
<1>6. Before(frames, Results(f), Exits(f)) <=>
           h = Results(f) \/ (h # Exits(f) /\ Before(frames', Results(f), Exits(f)))
  BY <1>1, AfterTail
<1>7. Has(frames, Exits(f)) <=> h = Exits(f) \/ Has(frames', Exits(f))
  BY <1>1, AfterTail
<1> HIDE DEF h
<1> QED
  BY <1>4, <1>5, <1>6, <1>7

\* A call that returns changes its own locals, route and channel only.
LEMMA ReturnEffect ==
  ASSUME TypeOK, NEW g \in Files, NEW o, Return(g, o), NEW f \in Files
  PROVE  /\ call'[f] = IF f = g THEN "returned" ELSE call[f]
         /\ inbox'[f] = IF f = g THEN <<>> ELSE inbox[f]
         /\ outcome'[f] = IF f = g THEN o ELSE outcome[f]
         /\ termination'[f] = IF f = g THEN "Completed" ELSE termination[f]
         /\ routes' = routes \ {g}
BY DEF Return, TypeOK, CallTypes, RustTypes

\* An exit frame is written for an isolate that has ended.
ExitOK(f) == Has(inbox[f], "exit") \/ Has(frames, Exits(f)) => Ended(f)

\* The reader thread's word is its last one.
QuietOK(f) == alive => ~Has(inbox[f], "dead")

\* A call under way has a route, and no other has one.
RouteOK(f) == f \in routes <=> call[f] \in {"registered", "waiting"}

\* An isolate that lives, or whose run line is on the way, has a waiting call.
PlaceOK(f) == alive /\ (Live(f) \/ Has(requests, Runs(f))) => call[f] = "waiting"

SlotOK(f) == ExitOK(f) /\ QuietOK(f) /\ RouteOK(f) /\ PlaceOK(f)

\* An empty pipe or channel holds nothing.
LEMMA HasNothing == \A x : ~Has(<<>>, x)
BY DEF Has

\* A step that touches none of these variables keeps the part of f.
LEMMA SlotStays ==
  ASSUME NEW f \in Files, SlotOK(f),
         UNCHANGED <<alive, inbox, frames, isolate, routes, call, requests>>
  PROVE  SlotOK(f)'
BY DEF SlotOK, ExitOK, QuietOK, RouteOK, PlaceOK, Live, Ended, Runs, Exits

\* A call may return while frames are read only when its isolate is gone and its
\* run line has been taken.
LEMMA ReturnKeepsSlots ==
  ASSUME TypeOK, NEW g \in Files, NEW o, Return(g, o), 
         alive => ~Live(g) /\ ~Has(requests, Runs(g)),
         UNCHANGED <<alive, frames, isolate, requests>>,
         NEW f \in Files, SlotOK(f)
  PROVE  SlotOK(f)'
<1> USE DEF SlotOK, ExitOK, QuietOK, RouteOK, PlaceOK, Live, Ended, Runs, Exits
<1>1. /\ call'[f] = IF f = g THEN "returned" ELSE call[f]
      /\ inbox'[f] = IF f = g THEN <<>> ELSE inbox[f]
      /\ routes' = routes \ {g}
  BY ReturnEffect
<1>2. CASE f = g
  <2>1. ~Has(inbox'[f], "exit") /\ ~Has(inbox'[f], "dead")
    BY <1>1, <1>2, HasNothing
  <2> QED
    BY <1>1, <1>2, <2>1
<1>3. CASE f # g
  BY <1>1, <1>3
<1> QED
  BY <1>2, <1>3

\* Steps of the pool threads keep the slots: a call returns because the host is
\* gone, or because of an exit, which only an ended isolate causes.
LEMMA RegisterKeepsSlots ==
  ASSUME TypeOK, NEW g \in Files, Register(g), NEW f \in Files, SlotOK(f), RequestInv
  PROVE  SlotOK(f)'
<1>1. UNCHANGED <<alive, frames, isolate, requests>>
  BY DEF Register, pipeVars, nodeVars
<1>2. CASE ~alive
  BY <1>1, <1>2, ReturnKeepsSlots DEF Register
<1>3. CASE alive
  <2>1. /\ call' = [call EXCEPT ![g] = "registered"] /\ inbox' = inbox
        /\ routes' = routes \cup {g} /\ call[g] = "idle"
    BY <1>3 DEF Register
  <2>2. call'[f] = IF f = g THEN "registered" ELSE call[f]
    BY <2>1 DEF TypeOK, CallTypes
  <2> QED
    BY <1>1, <1>3, <2>1, <2>2
    DEF SlotOK, ExitOK, QuietOK, RouteOK, PlaceOK, Live, Ended, Runs, Exits
<1> QED
  BY <1>2, <1>3

\* The request is written when the call begins to wait.
LEMMA SendKeepsSlots ==
  ASSUME TypeOK, NEW g \in Files, Send(g), NEW f \in Files, SlotOK(f), RequestInv
  PROVE  SlotOK(f)'
<1>1. UNCHANGED <<alive, frames, isolate>>
  BY DEF Send, nodeVars
<1>2. CASE ~hostUp
  <2>1. RequestOK(g)
    BY DEF RequestInv
  <2>2. ~Live(g) /\ ~Has(requests, Runs(g))
    BY <1>2, <2>1, HasNothing DEF RequestOK, GoneOK
  <2> QED
    BY <1>1, <1>2, <2>2, ReturnKeepsSlots DEF Send
<1>3. CASE hostUp
  <2>1. /\ call' = [call EXCEPT ![g] = "waiting"] /\ UNCHANGED <<inbox, routes>>
        /\ call[g] = "registered" /\ requests' = Append(requests, Line(g, "run"))
    BY <1>3 DEF Send
  <2>2. call'[f] = IF f = g THEN "waiting" ELSE call[f]
    BY <2>1 DEF TypeOK, CallTypes
  <2>3. Has(requests', Runs(f)) <=> Has(requests, Runs(f)) \/ f = g
    BY <2>1, SentLine
  <2> QED
    BY <1>1, <1>3, <2>1, <2>2, <2>3
    DEF SlotOK, ExitOK, QuietOK, RouteOK, PlaceOK, Live, Ended, Runs, Exits
<1> QED
  BY <1>2, <1>3

\* An interrupted call keeps waiting, unless the host is gone.
LEMMA InterruptKeepsSlots ==
  ASSUME TypeOK, NEW g \in Files, Interrupt(g), NEW f \in Files, SlotOK(f), RequestInv
  PROVE  SlotOK(f)'
<1>1. UNCHANGED <<alive, frames, isolate>>
  BY DEF Interrupt, nodeVars
<1>2. CASE ~hostUp
  <2>1. RequestOK(g)
    BY DEF RequestInv
  <2>2. ~Live(g) /\ ~Has(requests, Runs(g))
    BY <1>2, <2>1, HasNothing DEF RequestOK, GoneOK
  <2> QED
    BY <1>1, <1>2, <2>2, ReturnKeepsSlots DEF Interrupt
<1>3. CASE hostUp
  <2>1. UNCHANGED <<call, inbox, routes>> /\ requests' = Append(requests, Line(g, "cancel"))
    BY <1>3 DEF Interrupt
  <2>2. Has(requests', Runs(f)) <=> Has(requests, Runs(f))
    BY <2>1, SentLine
  <2> QED
    BY <1>1, <1>3, <2>1, <2>2
    DEF SlotOK, ExitOK, QuietOK, RouteOK, PlaceOK, Live, Ended, Runs, Exits
<1> QED
  BY <1>2, <1>3

\* What a pool thread takes from the channel of its call.
LEMMA TakenMessage ==
  ASSUME TypeOK, NEW g \in Files, inbox[g] # <<>>, inbox' = [inbox EXCEPT ![g] = Tail(@)]
  PROVE  /\ \A m : Has(inbox[g], m) <=> Head(inbox[g]) = m \/ Has(inbox'[g], m)
         /\ Before(inbox[g], "result", "exit") <=>
              \/ Head(inbox[g]) = "result" 
              \/ Head(inbox[g]) # "exit" /\ Before(inbox'[g], "result", "exit")
         /\ \A f \in Files \ {g} : inbox'[f] = inbox[f]
<1>1. inbox[g] \in Seq(Messages) /\ inbox'[g] = Tail(inbox[g])
  BY DEF TypeOK, RustTypes
<1>2. ASSUME NEW m PROVE Has(inbox[g], m) <=> Head(inbox[g]) = m \/ Has(inbox'[g], m)
  BY <1>1, AfterTail
<1>3. Before(inbox[g], "result", "exit") <=>
              \/ Head(inbox[g]) = "result" 
              \/ Head(inbox[g]) # "exit" /\ Before(inbox'[g], "result", "exit")
  BY <1>1, AfterTail
<1>4. \A f \in Files \ {g} : inbox'[f] = inbox[f]
  BY DEF TypeOK, RustTypes
<1> QED
  BY <1>2, <1>3, <1>4

\* A call is ended by the exit frame of an isolate that is gone.
LEMMA ReceiveKeepsSlots ==
  ASSUME TypeOK, NEW g \in Files, Receive(g), NEW f \in Files, SlotOK(f), SlotOK(g),
         RequestInv
  PROVE  SlotOK(f)'
<1>1. UNCHANGED <<alive, frames, isolate, requests>>
  BY DEF Receive, pipeVars, nodeVars
<1>2. inbox[g] \in Seq(Messages) /\ inbox[g] # <<>>
  BY DEF Receive, TypeOK, RustTypes
<1>3. Has(inbox[g], Head(inbox[g]))
  BY <1>2, AfterTail
<1>4. CASE Return(g, Verdict(g))
  <2>1. CASE alive
    <3>1. \/ Head(inbox[g]) \in {"exit", "dead"}
          \/ /\ Head(inbox[g]) \in {"event", "result"}
             /\ call' = call
      BY DEF Receive
    <3>2. call[g] = "waiting" /\ call'[g] = "returned"
      BY <1>4, ReturnEffect DEF Receive
    <3>3. Ended(g)
      BY <1>3, <2>1, <3>1, <3>2 DEF SlotOK, QuietOK, ExitOK
    <3>4. RequestOK(g)
      BY DEF RequestInv
    <3>5. ~Live(g) /\ ~Has(requests, Runs(g))
      BY <3>3, <3>4 DEF Ended, Live, RequestOK, RunOK
    <3> QED
      BY <1>1, <1>4, <3>5, ReturnKeepsSlots
  <2> QED
    BY <1>1, <1>4, <2>1, ReturnKeepsSlots
<1>5. CASE ~Return(g, Verdict(g))
  <2>1. inbox' = [inbox EXCEPT ![g] = Tail(@)] /\ UNCHANGED <<call, routes>>
    BY <1>5 DEF Receive
  <2>2. \A m : Has(inbox'[f], m) => Has(inbox[f], m)
    BY <1>2, <2>1, TakenMessage
  <2> QED
    BY <1>1, <2>1, <2>2
    DEF SlotOK, ExitOK, QuietOK, RouteOK, PlaceOK, Live, Ended, Runs, Exits
<1> QED
  BY <1>4, <1>5

\* Steps of the host, its isolates and the reader thread keep the slots.
LEMMA HostGoneKeepsSlots ==
  ASSUME TypeOK, HostGone, UNCHANGED <<alive, inbox, frames, routes, call>>,
         NEW f \in Files, SlotOK(f)
  PROVE  SlotOK(f)'
<1>1. isolate'[f] = IF Live(f) THEN "stopped" ELSE isolate[f]
  BY DEF HostGone
<1>2. ~Has(requests', Runs(f))
  BY HasNothing DEF HostGone
<1> QED
  BY <1>1, <1>2
  DEF SlotOK, ExitOK, QuietOK, RouteOK, PlaceOK, Live, Ended, Runs, Exits

\* The line handler starts the isolate of a call that waits.
LEMMA HostReadKeepsSlots ==
  ASSUME TypeOK, HostRead, NEW f \in Files, SlotOK(f), RequestInv
  PROVE  SlotOK(f)'
<1> DEFINE g == Head(requests).file
           k == Head(requests).kind
<1>1. UNCHANGED <<alive, inbox, routes, call>>
  BY DEF HostRead, callVars, rustVars
<1>2. /\ g \in Files /\ k \in {"run", "cancel"}
      /\ Has(requests, Runs(f)) <=> (g = f /\ k = "run") \/ Has(requests', Runs(f))
  BY ReadLine DEF HostRead
<1>3. CASE k = "run"
  <2>1. f # g => isolate'[f] = isolate[f]
    BY <1>3 DEF HostRead, TypeOK, NodeTypes
  <2>2. \/ isolate'[g] = "started" /\ frames' = frames
        \/ isolate'[g] = "failed" /\ frames' = Append(frames, Line(g, "exit"))
    BY <1>2, <1>3 DEF HostRead, TypeOK, NodeTypes
  <2>3. \/ frames' = frames
        \/ /\ isolate'[g] = "failed"
           /\ Has(frames', Exits(f)) <=> Has(frames, Exits(f)) \/ f = g
    <3> HIDE DEF g, k
    <3> QED
      BY <1>2, <2>2, SentFrame
  <2>4. f = g => isolate[f] = "none"
    BY <1>2, <1>3 DEF RequestInv, RequestOK, RunOK
  <2> HIDE DEF g, k
  <2> QED
    BY <1>1, <1>2, <1>3, <2>1, <2>2, <2>3, <2>4
    DEF SlotOK, ExitOK, QuietOK, RouteOK, PlaceOK, Live, Ended, Runs, Exits
<1>4. CASE k = "cancel"
  <2>1. UNCHANGED <<isolate, frames>>
    BY <1>4 DEF HostRead
  <2> HIDE DEF g, k
  <2> QED
    BY <1>1, <1>2, <1>4, <2>1
    DEF SlotOK, ExitOK, QuietOK, RouteOK, PlaceOK, Live, Ended, Runs, Exits
<1> QED
  BY <1>2, <1>3, <1>4

\* No step of an isolate brings it to life.
LEMMA IsolateKeepsSlots ==
  ASSUME TypeOK, NEW g \in Files, Isolate(g), NEW f \in Files, SlotOK(f)
  PROVE  SlotOK(f)'
<1>1. UNCHANGED <<alive, inbox, frames, routes, call, requests>>
  BY DEF Isolate, IsolateEvent, IsolateResult, IsolateExit, IsolateTerminated,
         callVars, rustVars, pipeVars
<1>2. \/ isolate'[f] = isolate[f]
      \/ Live(f) /\ isolate'[f] \in {"tested", "finished", "exited", "stopped"}
  BY DEF Isolate, IsolateEvent, IsolateResult, IsolateExit, IsolateTerminated, Live,
         TypeOK, NodeTypes
<1> QED
  BY <1>1, <1>2
  DEF SlotOK, ExitOK, QuietOK, RouteOK, PlaceOK, Live, Ended, Runs, Exits

\* host.mjs writes an exit frame when the isolate has ended.
LEMMA HostWritesKeepSlots ==
  ASSUME TypeOK, NEW g \in Files, Forward(g) \/ HostExit(g), NEW f \in Files, SlotOK(f)
  PROVE  SlotOK(f)'
<1>1. UNCHANGED <<alive, inbox, isolate, routes, call, requests>>
  BY DEF Forward, HostExit, callVars, rustVars
<1>2. Has(frames', Exits(f)) => Has(frames, Exits(f)) \/ Ended(f)
  <2>1. CASE Forward(g)
    <3>1. Head(buffered[g]) \in StdoutLines
      BY <2>1 DEF Forward, TypeOK, NodeTypes
    <3>2. frames' = Append(frames, Line(g, Head(buffered[g])))
      BY <2>1 DEF Forward
    <3> QED
      BY <3>1, <3>2, SentFrame DEF StdoutLines
  <2>2. CASE HostExit(g)
    <3>1. frames' = Append(frames, Line(g, "exit")) /\ Ended(g)
      BY <2>2 DEF HostExit, Ended
    <3> QED
      BY <3>1, SentFrame
  <2> QED
    BY <2>1, <2>2
<1> QED
  BY <1>1, <1>2
  DEF SlotOK, ExitOK, QuietOK, RouteOK, PlaceOK, Live, Ended, Runs, Exits

\* What the reader thread adds to the channel of a call.
LEMMA GivenMessage ==
  ASSUME TypeOK, NEW g \in Files, NEW k \in Messages,
         inbox' = [inbox EXCEPT ![g] = Append(@, k)]
  PROVE  /\ \A m : Has(inbox'[g], m) <=> Has(inbox[g], m) \/ k = m
         /\ Before(inbox'[g], "result", "exit") <=>
              \/ Before(inbox[g], "result", "exit")
              \/ k = "result" /\ ~Has(inbox[g], "exit")
         /\ \A f \in Files \ {g} : inbox'[f] = inbox[f]
<1>1. inbox[g] \in Seq(Messages) /\ inbox'[g] = Append(inbox[g], k)
  BY DEF TypeOK, RustTypes
<1>2. ASSUME NEW m PROVE Has(inbox'[g], m) <=> Has(inbox[g], m) \/ k = m
  BY <1>1, AfterAppend
<1>3. Before(inbox'[g], "result", "exit") <=>
              \/ Before(inbox[g], "result", "exit")
              \/ k = "result" /\ ~Has(inbox[g], "exit")
  BY <1>1, AfterAppend
<1>4. \A f \in Files \ {g} : inbox'[f] = inbox[f]
  BY DEF TypeOK, RustTypes
<1> QED
  BY <1>2, <1>3, <1>4

\* A frame moves from the pipe to the channel of its file.
LEMMA ReadFrameKeepsSlots ==
  ASSUME TypeOK, ReadFrame, NEW f \in Files, SlotOK(f)
  PROVE  SlotOK(f)'
<1> DEFINE g == Head(frames).file
           k == Head(frames).kind
<1>1. UNCHANGED <<alive, isolate, routes, call, requests>>
  BY DEF ReadFrame, callVars, nodeVars
<1>2. /\ g \in Files /\ k \in StdoutLines \cup {"exit"}
      /\ Has(frames, Exits(f)) <=> (g = f /\ k = "exit") \/ Has(frames', Exits(f))
  BY TakenFrame DEF ReadFrame
<1>3. k \in Messages /\ k # "dead"
  BY <1>2 DEF Messages, StdoutLines
<1>4. inbox' = inbox \/ inbox' = [inbox EXCEPT ![g] = Append(@, k)]
  BY DEF ReadFrame
<1> HIDE DEF g, k
<1>5. \A m : Has(inbox'[f], m) => Has(inbox[f], m) \/ (f = g /\ k = m)
  BY <1>2, <1>3, <1>4, GivenMessage
<1> QED
  BY <1>1, <1>2, <1>3, <1>5
  DEF SlotOK, ExitOK, QuietOK, RouteOK, PlaceOK, Live, Ended, Runs, Exits

\* The end of the reader thread.
LEMMA ReaderEndsKeepsSlots ==
  ASSUME TypeOK, ReaderEnds, NEW f \in Files, SlotOK(f)
  PROVE  SlotOK(f)'
<1>1. UNCHANGED <<isolate, routes, call, requests>> /\ ~alive' /\ frames' = <<>>
  BY DEF ReaderEnds, callVars, nodeVars
<1>2. ~Has(frames', Exits(f))
  BY <1>1, HasNothing
<1>3. Has(inbox'[f], "exit") => Has(inbox[f], "exit")
  <2>1. inbox[f] \in Seq(Messages) /\ "dead" \in Messages
    BY DEF TypeOK, RustTypes, Messages
  <2>2. inbox'[f] = inbox[f] \/ inbox'[f] = Append(inbox[f], "dead")
    BY DEF ReaderEnds
  <2>3. Has(Append(inbox[f], "dead"), "exit") <=> Has(inbox[f], "exit") \/ "dead" = "exit"
    BY <2>1, AfterAppend
  <2> QED
    BY <2>2, <2>3
<1> QED
  BY <1>1, <1>2, <1>3
  DEF SlotOK, ExitOK, QuietOK, RouteOK, PlaceOK, Live, Ended, Runs, Exits

\* What makes SlotHeldWhileRunning inductive, for one file.
SlotInv == \A f \in Files : SlotOK(f)

\* Every step keeps the slots.
LEMMA SlotInvStep == TypeOK /\ RequestInv /\ SlotInv /\ [Next]_vars => SlotInv'
<1> SUFFICES ASSUME TypeOK, RequestInv, SlotInv, [Next]_vars, NEW f \in Files
             PROVE  SlotOK(f)'
  BY DEF SlotInv
<1>0. SlotOK(f)
  BY DEF SlotInv
<1>1. ASSUME UNCHANGED <<alive, inbox, frames, isolate, routes, call, requests>>
      PROVE  SlotOK(f)'
  BY <1>0, <1>1, SlotStays
<1>2. ASSUME NEW g \in Files, Thread(g) PROVE SlotOK(f)'
  <2>1. SlotOK(g)
    BY DEF SlotInv
  <2>2. KillHost(g) => HostGone /\ UNCHANGED <<alive, inbox, frames, routes, call>>
    BY DEF KillHost, callVars, rustVars
  <2> QED
    BY <1>0, <1>2, <2>1, <2>2, RegisterKeepsSlots, SendKeepsSlots, InterruptKeepsSlots,
       ReceiveKeepsSlots, HostGoneKeepsSlots DEF Thread
<1>3. ASSUME NEW g \in Files, Isolate(g) PROVE SlotOK(f)'
  BY <1>0, <1>3, IsolateKeepsSlots
<1>4. CASE EventLoop
  BY <1>0, <1>4, HostReadKeepsSlots, HostWritesKeepSlots DEF EventLoop
<1>5. CASE Crash \/ DropHost
  BY <1>0, <1>5, HostGoneKeepsSlots DEF Crash, DropHost, callVars, rustVars
<1>6. CASE OrphanExits \/ Stop \/ Joined \/ Over \/ UNCHANGED vars
  BY <1>1, <1>6
  DEF OrphanExits, Stop, Joined, Over, vars, callVars, rustVars, pipeVars, nodeVars
<1>7. CASE Reader
  BY <1>0, <1>7, ReadFrameKeepsSlots, ReaderEndsKeepsSlots DEF Reader, ReadEof, ReadCorrupt
<1> QED
  BY <1>2, <1>3, <1>4, <1>5, <1>6, <1>7 DEF Next

\* No call is under way at the beginning.
LEMMA SlotInvInit == Init => SlotInv
<1> SUFFICES ASSUME Init, NEW f \in Files PROVE SlotOK(f)
  BY DEF SlotInv
<1>1. inbox[f] = <<>> /\ frames = <<>> /\ requests = <<>>
  BY DEF Init
<1> QED
  BY <1>1, HasNothing DEF Init, SlotOK, ExitOK, QuietOK, RouteOK, PlaceOK, Live

\* No more calls are under way than there are pool threads.
CountInv == Cardinality(Outstanding) <= Workers

\* The calls under way are counted.
LEMMA OutstandingFinite == IsFiniteSet(Outstanding) /\ Cardinality(Outstanding) \in Nat
<1>1. Outstanding \subseteq Files
  BY DEF Outstanding
<1>2. IsFiniteSet(Outstanding)
  BY <1>1, HostAssumption, FS_Subset DEF HostAssumption
<1> QED
  BY <1>2, FS_CardinalityType

\* No call is under way at the beginning.
LEMMA CountInvInit == Init => CountInv
<1> SUFFICES ASSUME Init PROVE CountInv
  OBVIOUS
<1>1. Outstanding = {}
  BY DEF Init, Outstanding
<1>2. Cardinality(Outstanding) = 0
  BY <1>1, FS_EmptySet
<1> QED
  BY <1>2, HostAssumption DEF CountInv, HostAssumption

\* A step that adds no call keeps the count.
LEMMA FewerOutstanding ==
  ASSUME CountInv, Outstanding' \subseteq Outstanding
  PROVE  CountInv'
<1>1. /\ Cardinality(Outstanding') <= Cardinality(Outstanding)
      /\ Cardinality(Outstanding') \in Nat
  BY OutstandingFinite, FS_Subset, FS_CardinalityType
<1> QED
  BY <1>1, OutstandingFinite, HostAssumption DEF CountInv, HostAssumption

\* Only register adds a call, and it looks at the count.
LEMMA CountInvStep == TypeOK /\ CountInv /\ [Next]_vars => CountInv'
<1> SUFFICES ASSUME TypeOK, CountInv, [Next]_vars PROVE CountInv'
  OBVIOUS
<1>1. ASSUME UNCHANGED call PROVE CountInv'
  BY <1>1, FewerOutstanding DEF Outstanding
<1>2. ASSUME NEW g \in Files, Register(g) PROVE CountInv'
  <2>1. Outstanding' \subseteq Outstanding \cup {g}
    BY <1>2 DEF Register, Return, Outstanding, TypeOK, CallTypes
  <2>2. Cardinality(Outstanding \cup {g}) <= Cardinality(Outstanding) + 1
        /\ IsFiniteSet(Outstanding \cup {g}) /\ Cardinality(Outstanding \cup {g}) \in Nat
    <3>1. /\ IsFiniteSet(Outstanding \cup {g})
          /\ Cardinality(Outstanding \cup {g}) =
               IF g \in Outstanding THEN Cardinality(Outstanding)
                                    ELSE Cardinality(Outstanding) + 1
      BY OutstandingFinite, FS_AddElement
    <3>2. Cardinality(Outstanding \cup {g}) \in Nat
      BY <3>1, FS_CardinalityType
    <3> QED
      BY <3>1, <3>2, OutstandingFinite
  <2>3. Cardinality(Outstanding') <= Cardinality(Outstanding \cup {g})
        /\ Cardinality(Outstanding') \in Nat
    BY <2>1, <2>2, FS_Subset, FS_CardinalityType
  <2>4. Cardinality(Outstanding) < Workers
    BY <1>2 DEF Register
  <2> QED
    BY <2>2, <2>3, <2>4, OutstandingFinite, HostAssumption DEF CountInv, HostAssumption
<1>3. ASSUME NEW g \in Files, Send(g) \/ Interrupt(g) \/ Receive(g) \/ KillHost(g)
      PROVE CountInv'
  <2>1. Outstanding' \subseteq Outstanding
    BY <1>3
    DEF Send, Interrupt, Receive, KillHost, callVars, Return, Outstanding, TypeOK, CallTypes
  <2> QED
    BY <2>1, FewerOutstanding
<1>4. ASSUME NEW g \in Files, Isolate(g) PROVE UNCHANGED call
  BY <1>4 DEF Isolate, IsolateEvent, IsolateResult, IsolateExit, IsolateTerminated, callVars
<1>5. CASE EventLoop
  BY <1>1, <1>5 DEF EventLoop, HostRead, Forward, HostExit, callVars
<1>6. CASE Crash \/ DropHost \/ OrphanExits \/ Stop \/ Joined \/ Over \/ UNCHANGED vars
  BY <1>1, <1>6 DEF Crash, DropHost, OrphanExits, Stop, Joined, Over, vars, callVars
<1>7. CASE Reader
  BY <1>1, <1>7 DEF Reader, ReadFrame, ReadEof, ReadCorrupt, ReaderEnds, callVars
<1> QED
  BY <1>1, <1>2, <1>3, <1>4, <1>5, <1>6, <1>7 DEF Next, Thread

\* The slots are held in every reachable state.
LEMMA SlotsInPlace == Spec => []SlotInv
BY SlotInvInit, SlotInvStep, TypeCorrect, RequestsInOrder, PTL DEF Spec

\* As long as frames are read, every live isolate has a waiting pool thread, and
\* no more isolates live than there are pool threads (execute, await_worker).
THEOREM SlotIsHeld == Spec => []SlotHeldWhileRunning
<1>1. SlotInv /\ CountInv => SlotHeldWhileRunning
  <2> SUFFICES ASSUME SlotInv, CountInv, alive
               PROVE  /\ \A f \in Files : Live(f) => call[f] = "waiting"
                      /\ Cardinality({f \in Files : Live(f)}) <= Workers
    BY DEF SlotHeldWhileRunning
  <2>1. \A f \in Files : Live(f) => call[f] = "waiting"
    BY DEF SlotInv, SlotOK, PlaceOK
  <2>2. {f \in Files : Live(f)} \subseteq Outstanding
    BY <2>1 DEF Outstanding
  <2>3. /\ Cardinality({f \in Files : Live(f)}) <= Cardinality(Outstanding)
        /\ Cardinality({f \in Files : Live(f)}) \in Nat
    BY <2>2, OutstandingFinite, FS_Subset, FS_CardinalityType
  <2>4. Cardinality({f \in Files : Live(f)}) <= Workers
    BY <2>3, OutstandingFinite, HostAssumption DEF CountInv, HostAssumption
  <2> QED
    BY <2>1, <2>4
<1> QED
  BY <1>1, CountInvInit, CountInvStep, SlotsInPlace, TypeCorrect, PTL DEF Spec

-----------------------------------------------------------------------------
\* The result of f is collected, or is on its way with no exit frame ahead of it:
\* in the channel, in the pipe, or still in worker.stdout.
ResultComes(f) ==
  \/ hasResult[f]
  \/ Before(inbox[f], "result", "exit")
  \/ /\ ~Has(inbox[f], "exit")
     /\ Before(frames, Results(f), Exits(f))
  \/ /\ ~Has(inbox[f], "exit")
     /\ ~Has(frames, Exits(f))
     /\ Has(buffered[f], "result")

\* The result of an isolate that wrote one reaches the call that waits for it.
ArriveOK(f) ==
  alive /\ hostUp /\ call[f] = "waiting" /\ isolate[f] \in {"finished", "exited"} =>
    ResultComes(f)

\* A file is reported as missing only when its isolate ended without a result.
MissingOK(f) ==
  /\ outcome[f] # "none" => call[f] = "returned"
  /\ outcome[f] = "missing" => ~hostUp \/ ~alive \/ isolate[f] \in {"stopped", "failed"}

\* Cancellations and errors have their cause, in the locals of await_worker and
\* in what the call returns.
CauseOK(f) ==
  /\ termination[f] = "Cancelled" => stop \/ eventError[f]
  /\ outcome[f] = "cancelled" => stop
  /\ outcome[f] = "error" => eventError[f] \/ ~hostUp \/ ~alive
  /\ eventError[f] => outcome[f] \in {"none", "error"}

EndOK(f) == ArriveOK(f) /\ MissingOK(f) /\ CauseOK(f)

\* A step that touches nothing of f, and takes no frame of f, keeps the part of f.
LEMMA EndStays ==
  ASSUME NEW f \in Files, EndOK(f), 
         alive' => alive, hostUp' => hostUp, stop => stop',
         call'[f] = call[f], isolate'[f] = isolate[f], inbox'[f] = inbox[f],
         buffered'[f] = buffered[f], hasResult'[f] <=> hasResult[f],
         eventError[f] => eventError'[f], outcome'[f] = outcome[f],
         outcome[f] # "none" => (eventError[f] <=> eventError'[f]),
         \/ termination'[f] = termination[f]
         \/ termination'[f] = "Cancelled" => stop \/ eventError[f],
         Before(frames, Results(f), Exits(f)) => Before(frames', Results(f), Exits(f)),
         Has(frames', Exits(f)) => Has(frames, Exits(f))
  PROVE EndOK(f)'
BY DEF EndOK, ArriveOK, MissingOK, CauseOK, ResultComes, Results, Exits

\* A call that returns with an outcome that has its cause.
LEMMA ReturnKeepsEnds ==
  ASSUME TypeOK, NEW g \in Files, NEW o, Return(g, o), NEW f \in Files, EndOK(f),
         UNCHANGED <<alive, hostUp, stop, frames, isolate, buffered, eventError>>,
         eventError[g] => o = "error",
         o = "missing" => ~hostUp \/ ~alive \/ isolate[g] \in {"stopped", "failed"},
         o = "cancelled" => stop,
         o = "error" => eventError[g] \/ ~hostUp \/ ~alive
  PROVE  EndOK(f)'
<1>1. CASE f = g
  <2>1. call'[f] = "returned" /\ outcome'[f] = o /\ termination'[f] = "Completed"
    BY <1>1, ReturnEffect
  <2> QED
    BY <1>1, <2>1 DEF EndOK, ArriveOK, MissingOK, CauseOK
<1>2. CASE f # g
  <2>1. /\ call'[f] = call[f] /\ inbox'[f] = inbox[f] /\ outcome'[f] = outcome[f]
        /\ termination'[f] = termination[f]
    BY <1>2, ReturnEffect
  <2>2. hasResult'[f] <=> hasResult[f]
    BY <1>2, Zenon DEF Return, TypeOK, CallTypes
  <2> QED
    BY <2>1, <2>2, EndStays
<1> QED
  BY <1>1, <1>2

\* Steps of the pool threads.
LEMMA RegisterKeepsEnds ==
  ASSUME TypeOK, NEW g \in Files, Register(g), NEW f \in Files, EndOK(f)
  PROVE  EndOK(f)'
<1>1. UNCHANGED <<stop, alive, hostUp, frames, isolate, buffered, eventError>>
  BY DEF Register, pipeVars, nodeVars
<1>2. CASE ~alive
  BY <1>1, <1>2, ReturnKeepsEnds DEF Register
<1>3. CASE alive
  <2>1. UNCHANGED <<termination, hasResult, outcome, inbox>> /\ call[g] = "idle"
    BY <1>3 DEF Register
  <2>2. call'[f] = IF f = g THEN "registered" ELSE call[f]
    BY <1>3 DEF Register, TypeOK, CallTypes
  <2> QED
    BY <1>1, <2>1, <2>2
    DEF EndOK, ArriveOK, MissingOK, CauseOK, ResultComes, Results, Exits
<1> QED
  BY <1>2, <1>3

\* The call begins to wait before it has an isolate.
LEMMA SendKeepsEnds ==
  ASSUME TypeOK, NEW g \in Files, Send(g), NEW f \in Files, EndOK(f), RequestInv
  PROVE  EndOK(f)'
<1>1. UNCHANGED <<stop, alive, hostUp, frames, isolate, buffered, eventError>>
  BY DEF Send, nodeVars
<1>2. CASE ~hostUp
  BY <1>1, <1>2, ReturnKeepsEnds DEF Send
<1>3. CASE hostUp
  <2>1. UNCHANGED <<termination, hasResult, outcome, inbox>> /\ call[g] = "registered"
    BY <1>3 DEF Send
  <2>2. call'[f] = IF f = g THEN "waiting" ELSE call[f]
    BY <1>3 DEF Send, TypeOK, CallTypes
  <2>3. isolate[g] = "none"
    BY <2>1 DEF RequestInv, RequestOK, UnsentOK
  <2> QED
    BY <1>1, <2>1, <2>2, <2>3
    DEF EndOK, ArriveOK, MissingOK, CauseOK, ResultComes, Results, Exits
<1> QED
  BY <1>2, <1>3

\* An interrupted call remembers why; a failed write ends it with an error.
LEMMA InterruptKeepsEnds ==
  ASSUME TypeOK, NEW g \in Files, Interrupt(g), NEW f \in Files, EndOK(f)
  PROVE  EndOK(f)'
<1>1. UNCHANGED <<stop, alive, hostUp, frames, isolate, buffered, eventError>>
  BY DEF Interrupt, nodeVars
<1>2. CASE ~hostUp
  BY <1>1, <1>2, ReturnKeepsEnds DEF Interrupt
<1>3. CASE hostUp
  <2>1. UNCHANGED <<call, hasResult, outcome, inbox>>
    BY <1>3 DEF Interrupt
  <2>2. termination' = [termination EXCEPT ![g] =
             IF stop \/ eventError[g] THEN "Cancelled" ELSE "TimedOut"]
    BY <1>3 DEF Interrupt
  <2>3. \/ termination'[f] = termination[f] 
        \/ termination'[f] = "Cancelled" => stop \/ eventError[f]
    BY <2>2 DEF TypeOK, CallTypes
  <2> QED
    BY <1>1, <2>1, <2>3, EndStays
<1> QED
  BY <1>2, <1>3

\* The verdict of a call that an exit ends: with its exit frame first in line and
\* no result collected, the isolate did not exit after a result.
LEMMA VerdictHasCause ==
  ASSUME TypeOK, RequestInv, SlotInv, NEW g \in Files, EndOK(g), call[g] = "waiting",
         Has(inbox[g], "exit") \/ ~alive,
         ~Before(inbox[g], "result", "exit") \/ ~alive
  PROVE  /\ Verdict(g) = "missing" =>
              ~hostUp \/ ~alive \/ isolate[g] \in {"stopped", "failed"}
         /\ Verdict(g) = "cancelled" => stop
         /\ Verdict(g) = "error" <=> eventError[g]
<1>1. Verdict(g) = "cancelled" => stop
  BY DEF Verdict, EndOK, CauseOK, TypeOK, CallTypes
<1>2. Verdict(g) = "error" <=> eventError[g]
  BY DEF Verdict
<1>3. ASSUME Verdict(g) = "missing", hostUp, alive
      PROVE  isolate[g] \in {"stopped", "failed"}
  <2>1. ~hasResult[g]
    BY <1>3 DEF Verdict
  <2>2. isolate[g] \in {"exited", "stopped", "failed"}
    BY <1>3 DEF SlotInv, SlotOK, ExitOK, Ended
  <2>3. ~ResultComes(g)
    BY <1>3, <2>1 DEF ResultComes
  <2> QED
    BY <1>3, <2>2, <2>3 DEF EndOK, ArriveOK
<1> QED
  BY <1>1, <1>2, <1>3

\* One message of the channel: a result is collected, an exit ends the call.
LEMMA ReceiveKeepsEnds ==
  ASSUME TypeOK, NEW g \in Files, Receive(g), NEW f \in Files, EndOK(f), EndOK(g),
         RequestInv, SlotInv
  PROVE  EndOK(f)'
<1>1. UNCHANGED <<stop, alive, hostUp, frames, isolate, buffered>>
  BY DEF Receive, pipeVars, nodeVars
<1>2. inbox[g] \in Seq(Messages) /\ inbox[g] # <<>> /\ call[g] = "waiting"
  BY DEF Receive, TypeOK, RustTypes
<1>3. CASE /\ Head(inbox[g]) \in {"exit", "dead"}
           /\ Return(g, Verdict(g))
           /\ eventError' = eventError
  <2>1. Has(inbox[g], Head(inbox[g]))
    BY <1>2, AfterTail
  <2>2. Has(inbox[g], "exit") \/ ~alive
    BY <1>3, <2>1 DEF SlotInv, SlotOK, QuietOK
  <2>3. ~Before(inbox[g], "result", "exit") \/ ~alive
    <3>1. ASSUME alive PROVE Head(inbox[g]) = "exit"
      BY <1>3, <2>1, <3>1 DEF SlotInv, SlotOK, QuietOK
    <3>2. Before(inbox[g], "result", "exit") <=>
            \/ Head(inbox[g]) = "result"
            \/ Head(inbox[g]) # "exit" /\ Before(Tail(inbox[g]), "result", "exit")
      BY <1>2, AfterTail
    <3> QED
      BY <3>1, <3>2
  <2>4. /\ Verdict(g) = "missing" =>
             ~hostUp \/ ~alive \/ isolate[g] \in {"stopped", "failed"}
        /\ Verdict(g) = "cancelled" => stop
        /\ Verdict(g) = "error" <=> eventError[g]
    BY <1>2, <2>2, <2>3, VerdictHasCause
  <2> HIDE DEF Verdict
  <2> QED
    BY <1>1, <1>3, <2>4, ReturnKeepsEnds
<1>4. CASE ~(/\ Head(inbox[g]) \in {"exit", "dead"}
             /\ Return(g, Verdict(g))
             /\ eventError' = eventError)
  <2>1. PICK rejected \in BOOLEAN :
          /\ inbox' = [inbox EXCEPT ![g] = Tail(@)]
          /\ Head(inbox[g]) \in {"event", "result"}
          /\ hasResult' = [hasResult EXCEPT ![g] = @ \/ Head(inbox[g]) = "result"]
          /\ eventError' = [eventError EXCEPT ![g] = @ \/ rejected]
          /\ UNCHANGED <<call, termination, outcome>>
    BY <1>4, Zenon DEF Receive
  <2>2. eventError[f] => eventError'[f]
    BY <2>1, Zenon DEF TypeOK, CallTypes
  <2>5. outcome[f] # "none" => (eventError[f] <=> eventError'[f])
    <3>1. outcome[f] # "none" => f # g
      BY <1>2 DEF EndOK, MissingOK
    <3> QED
      BY <2>1, <3>1, Zenon DEF TypeOK, CallTypes
  <2>3. CASE f # g
    <3>1. hasResult'[f] <=> hasResult[f]
      BY <2>1, <2>3, Zenon DEF TypeOK, CallTypes
    <3>2. inbox'[f] = inbox[f]
      BY <2>1, <2>3 DEF TypeOK, RustTypes
    <3> QED
      BY <1>1, <2>1, <2>2, <2>5, <3>1, <3>2, EndStays
  <2>4. CASE f = g
    <3>1. hasResult'[f] <=> hasResult[f] \/ Head(inbox[f]) = "result"
      BY <2>1, <2>4, Zenon DEF TypeOK, CallTypes
    <3>2. /\ Has(inbox[f], "exit") <=> Has(inbox'[f], "exit")
          /\ Before(inbox[f], "result", "exit") <=>
               Head(inbox[f]) = "result" \/ Before(inbox'[f], "result", "exit")
      BY <1>2, <2>1, <2>4, TakenMessage
    <3>3. ResultComes(f) => ResultComes(f)'
      BY <1>1, <3>1, <3>2 DEF ResultComes, Results, Exits
    <3> QED
      BY <1>1, <1>2, <2>1, <2>2, <2>5, <3>3 DEF EndOK, ArriveOK, MissingOK, CauseOK
  <2> QED
    BY <2>3, <2>4
<1> QED
  BY <1>3, <1>4

\* With the host gone nothing is claimed of the results it had.
LEMMA HostGoneKeepsEnds ==
  ASSUME TypeOK, HostGone, UNCHANGED <<stop, callVars>>, NEW f \in Files, EndOK(f)
  PROVE  EndOK(f)'
BY DEF HostGone, callVars, EndOK, ArriveOK, MissingOK, CauseOK

\* Steps of the isolates, of host.mjs and of the reader thread: a result moves on,
\* and its exit frame is written behind it.
LEMMA IsolateKeepsEnds ==
  ASSUME TypeOK, NEW g \in Files, Isolate(g), NEW f \in Files, EndOK(f), RequestInv, SlotInv
  PROVE  EndOK(f)'
<1>1. UNCHANGED <<stop, callVars, rustVars, frames, hostUp>>
  BY DEF Isolate, IsolateEvent, IsolateResult, IsolateExit, IsolateTerminated, pipeVars
<1>2. CASE f # g
  <2>1. isolate'[f] = isolate[f] /\ buffered'[f] = buffered[f]
    BY <1>2 DEF Isolate, IsolateEvent, IsolateResult, IsolateExit, IsolateTerminated,
                TypeOK, NodeTypes
  <2> QED
    BY <1>1, <2>1, EndStays DEF callVars, rustVars
<1>3. CASE f = g
  <2>1. Live(g) /\ isolate[g] \notin {"stopped", "failed"}
    BY DEF Isolate, IsolateEvent, IsolateResult, IsolateExit, IsolateTerminated, Live
  <2>2. alive => call[g] = "waiting" /\ ~Has(inbox[g], "exit") /\ ~Has(frames, Exits(g))
    BY <2>1 DEF SlotInv, SlotOK, PlaceOK, ExitOK, Ended, Live
  <2>3. MissingOK(f)'
    BY <1>1, <1>3, <2>1, <2>2 DEF EndOK, MissingOK, callVars, rustVars
  <2>4. CauseOK(f)'
    BY <1>1 DEF EndOK, CauseOK, callVars, rustVars
  <2>5. ArriveOK(f)'
    <3>1. CASE IsolateResult(g)
      <4>1. buffered[g] \in Seq(StdoutLines) /\ buffered'[g] = Append(buffered[g], "result")
            /\ "result" \in StdoutLines
        BY <3>1 DEF IsolateResult, TypeOK, NodeTypes, StdoutLines
      <4>2. Has(Append(buffered[g], "result"), "result")
        BY <4>1, AfterAppend
      <4> QED
        BY <1>1, <1>3, <2>2, <4>1, <4>2
        DEF ArriveOK, ResultComes, callVars, rustVars, Exits, Results
    <3>2. CASE ~IsolateResult(g)
      <4>1. \/ isolate'[g] \in {"tested", "stopped"}
            \/ isolate[g] = "finished" /\ isolate'[g] = "exited" /\ buffered' = buffered
        BY <3>2 DEF Isolate, IsolateEvent, IsolateExit, IsolateTerminated, TypeOK, NodeTypes
      <4> QED
        BY <1>1, <1>3, <4>1
        DEF EndOK, ArriveOK, ResultComes, callVars, rustVars, Exits, Results
    <3> QED
      BY <3>1, <3>2
  <2> QED
    BY <2>3, <2>4, <2>5 DEF EndOK
<1> QED
  BY <1>2, <1>3

\* The line handler starts an isolate that has no result yet, or reports its failure.
LEMMA HostReadKeepsEnds ==
  ASSUME TypeOK, HostRead, NEW f \in Files, EndOK(f), RequestInv
  PROVE  EndOK(f)'
<1> DEFINE g == Head(requests).file
           k == Head(requests).kind
<1>1. UNCHANGED <<stop, callVars, rustVars, hostUp, buffered>>
  BY DEF HostRead
<1>2. /\ g \in Files /\ k \in {"run", "cancel"}
      /\ Has(requests, Runs(g)) <=> k = "run" \/ Has(requests', Runs(g))
  BY ReadLine DEF HostRead
<1>3. CASE k = "run"
  <2>1. f # g => isolate'[f] = isolate[f]
    BY <1>3 DEF HostRead, TypeOK, NodeTypes
  <2>2. /\ isolate'[g] \in {"started", "failed"}
        /\ frames' = frames \/ frames' = Append(frames, Line(g, "exit"))
    BY <1>2, <1>3 DEF HostRead, TypeOK, NodeTypes
  <2>3. isolate[g] = "none"
    BY <1>2, <1>3 DEF RequestInv, RequestOK, RunOK
  <2> HIDE DEF g, k
  <2>4. /\ f # g => (Has(frames', Exits(f)) => Has(frames, Exits(f)))
        /\ Before(frames, Results(f), Exits(f)) => Before(frames', Results(f), Exits(f))
    BY <1>2, <2>2, SentFrame
  <2>5. CASE f = g
    BY <1>1, <2>2, <2>3, <2>5 DEF EndOK, ArriveOK, MissingOK, CauseOK, callVars, rustVars
  <2>6. CASE f # g
    BY <1>1, <2>1, <2>4, <2>6, EndStays DEF callVars, rustVars
  <2> QED
    BY <2>5, <2>6
<1>4. CASE k = "cancel"
  <2>1. UNCHANGED <<isolate, frames>>
    BY <1>4 DEF HostRead
  <2> HIDE DEF g, k
  <2> QED
    BY <1>1, <2>1, EndStays DEF callVars, rustVars
<1> QED
  BY <1>2, <1>3, <1>4

\* The data handler moves a line from worker.stdout to the pipe.
LEMMA ForwardKeepsEnds ==
  ASSUME TypeOK, NEW g \in Files, Forward(g), NEW f \in Files, EndOK(f)
  PROVE  EndOK(f)'
<1> DEFINE k == Head(buffered[g])
<1>1. UNCHANGED <<stop, callVars, rustVars, hostUp, isolate>>
  BY DEF Forward
<1>2. /\ buffered[g] \in Seq(StdoutLines) /\ buffered[g] # <<>>
      /\ buffered' = [buffered EXCEPT ![g] = Tail(@)]
  BY DEF Forward, TypeOK, NodeTypes
<1>3. k \in {"event", "result"}
  BY <1>2 DEF StdoutLines
<1>4. frames' = Append(frames, Line(g, k))
  BY DEF Forward
<1>5. Has(buffered[g], "result") <=> k = "result" \/ Has(Tail(buffered[g]), "result")
  BY <1>2, AfterTail
<1> HIDE DEF k
<1>6. /\ Has(frames', Exits(f)) <=> Has(frames, Exits(f))
      /\ Before(frames', Results(f), Exits(f)) <=>
           \/ Before(frames, Results(f), Exits(f))
           \/ f = g /\ k = "result" /\ ~Has(frames, Exits(f))
  BY <1>3, <1>4, SentFrame DEF StdoutLines
<1>7. CASE f = g
  <2>1. buffered'[f] = Tail(buffered[g])
    BY <1>2, <1>7 DEF TypeOK, NodeTypes
  <2>2. ResultComes(f) => ResultComes(f)'
    BY <1>1, <1>5, <1>6, <1>7, <2>1 DEF ResultComes, Exits, Results, callVars, rustVars
  <2> QED
    BY <1>1, <2>2 DEF EndOK, ArriveOK, MissingOK, CauseOK, callVars, rustVars
<1>8. CASE f # g
  <2>1. buffered'[f] = buffered[f]
    BY <1>2, <1>8 DEF TypeOK, NodeTypes
  <2> QED
    BY <1>1, <1>6, <2>1, EndStays DEF callVars, rustVars
<1> QED
  BY <1>7, <1>8

\* The exit frame is written when worker.stdout is empty: behind the result.
LEMMA HostExitKeepsEnds ==
  ASSUME TypeOK, NEW g \in Files, HostExit(g), NEW f \in Files, EndOK(f)
  PROVE  EndOK(f)'
<1>1. UNCHANGED <<stop, callVars, rustVars, hostUp, isolate, buffered>>
  BY DEF HostExit
<1>2. frames' = Append(frames, Line(g, "exit")) /\ buffered[g] = <<>>
  BY DEF HostExit
<1>3. /\ Has(frames', Exits(f)) <=> Has(frames, Exits(f)) \/ f = g
      /\ Before(frames', Results(f), Exits(f)) <=> Before(frames, Results(f), Exits(f))
  BY <1>2, SentFrame
<1>4. CASE f = g
  <2>1. ~Has(buffered[f], "result")
    BY <1>2, <1>4, HasNothing
  <2>2. ResultComes(f) => ResultComes(f)'
    BY <1>1, <1>3, <2>1 DEF ResultComes, Exits, Results, callVars, rustVars
  <2> QED
    BY <1>1, <2>2 DEF EndOK, ArriveOK, MissingOK, CauseOK, callVars, rustVars
<1>5. CASE f # g
  BY <1>1, <1>3, <1>5, EndStays DEF callVars, rustVars
<1> QED
  BY <1>4, <1>5

\* The reader thread moves a frame to the channel of its call.
LEMMA ReadFrameKeepsEnds ==
  ASSUME TypeOK, ReadFrame, NEW f \in Files, EndOK(f), SlotInv
  PROVE  EndOK(f)'
<1> DEFINE g == Head(frames).file
           k == Head(frames).kind
<1>1. UNCHANGED <<stop, callVars, alive, hostUp, isolate, buffered>>
  BY DEF ReadFrame, nodeVars
<1>2. /\ g \in Files /\ k \in StdoutLines \cup {"exit"}
      /\ Has(frames, Exits(f)) <=> (g = f /\ k = "exit") \/ Has(frames', Exits(f))
      /\ Before(frames, Results(f), Exits(f)) <=>
           \/ g = f /\ k = "result"
           \/ ~(g = f /\ k = "exit") /\ Before(frames', Results(f), Exits(f))
  BY TakenFrame DEF ReadFrame
<1>3. k \in Messages
  BY <1>2 DEF Messages
<1>4. inbox' = IF g \in routes THEN [inbox EXCEPT ![g] = Append(@, k)] ELSE inbox
  BY DEF ReadFrame
<1> HIDE DEF g, k
<1>5. CASE f # g
  <2>1. inbox'[f] = inbox[f]
    BY <1>2, <1>4, <1>5 DEF TypeOK, RustTypes
  <2> QED
    BY <1>1, <1>2, <1>5, <2>1, EndStays DEF callVars
<1>6. CASE f = g /\ g \in routes
  <2>1. /\ Has(inbox'[f], "exit") <=> Has(inbox[f], "exit") \/ k = "exit"
        /\ Before(inbox'[f], "result", "exit") <=>
             \/ Before(inbox[f], "result", "exit")
             \/ k = "result" /\ ~Has(inbox[f], "exit")
    BY <1>2, <1>3, <1>4, <1>6, GivenMessage
  <2>2. ResultComes(f) => ResultComes(f)'
    BY <1>1, <1>2, <1>6, <2>1 DEF ResultComes, Exits, Results, callVars
  <2> QED
    BY <1>1, <2>2 DEF EndOK, ArriveOK, MissingOK, CauseOK, callVars
<1>7. CASE f \notin routes
  <2>1. call[f] # "waiting"
    BY <1>7 DEF SlotInv, SlotOK, RouteOK
  <2> QED
    BY <1>1, <2>1 DEF EndOK, ArriveOK, MissingOK, CauseOK, callVars
<1> QED
  BY <1>5, <1>6, <1>7

\* The end of the reader thread: alive is over.
LEMMA ReaderEndsKeepsEnds ==
  ASSUME TypeOK, ReaderEnds, NEW f \in Files, EndOK(f)
  PROVE  EndOK(f)'
<1>1. UNCHANGED <<stop, callVars, nodeVars>> /\ ~alive'
  BY DEF ReaderEnds
<1> QED
  BY <1>1 DEF EndOK, ArriveOK, MissingOK, CauseOK, callVars, nodeVars

\* What makes ResultNotLost and OutcomeHasCause inductive.
EndInv == \A f \in Files : EndOK(f)

\* No call has returned at the beginning.
LEMMA EndInvInit == Init => EndInv
BY DEF Init, EndInv, EndOK, ArriveOK, MissingOK, CauseOK

\* Every step keeps the results on their way.
LEMMA EndInvStep ==
  TypeOK /\ RequestInv /\ SlotInv /\ EndInv /\ [Next]_vars => EndInv'
<1> SUFFICES ASSUME TypeOK, RequestInv, SlotInv, EndInv, [Next]_vars, NEW f \in Files
             PROVE  EndOK(f)'
  BY DEF EndInv
<1>0. EndOK(f)
  BY DEF EndInv
<1>1. ASSUME UNCHANGED <<callVars, alive, inbox, frames, hostUp, isolate, buffered>>,
             stop => stop'
      PROVE  EndOK(f)'
  BY <1>0, <1>1, EndStays DEF callVars
<1>2. ASSUME NEW g \in Files, Thread(g) PROVE EndOK(f)'
  <2>1. EndOK(g)
    BY DEF EndInv
  <2>2. KillHost(g) => HostGone /\ UNCHANGED <<stop, callVars>>
    BY DEF KillHost
  <2> QED
    BY <1>0, <1>2, <2>1, <2>2, RegisterKeepsEnds, SendKeepsEnds, InterruptKeepsEnds,
       ReceiveKeepsEnds, HostGoneKeepsEnds DEF Thread
<1>3. ASSUME NEW g \in Files, Isolate(g) PROVE EndOK(f)'
  BY <1>0, <1>3, IsolateKeepsEnds
<1>4. CASE EventLoop
  BY <1>0, <1>4, HostReadKeepsEnds, ForwardKeepsEnds, HostExitKeepsEnds DEF EventLoop
<1>5. CASE Crash \/ DropHost
  BY <1>0, <1>5, HostGoneKeepsEnds DEF Crash, DropHost
<1>6. CASE OrphanExits \/ Stop \/ Joined \/ Over \/ UNCHANGED vars
  BY <1>1, <1>6 DEF OrphanExits, Stop, Joined, Over, vars, rustVars, pipeVars, nodeVars
<1>7. CASE Reader
  BY <1>0, <1>7, ReadFrameKeepsEnds, ReaderEndsKeepsEnds DEF Reader, ReadEof, ReadCorrupt
<1> QED
  BY <1>2, <1>3, <1>4, <1>5, <1>6, <1>7 DEF Next

\* Results are on their way in every reachable state.
LEMMA EndsInOrder == Spec => []EndInv
BY EndInvInit, EndInvStep, TypeCorrect, RequestsInOrder, SlotsInPlace, PTL DEF Spec

\* While the host lives and its frames are read, a file whose isolate wrote its
\* result and exited is never reported as missing (start of host.mjs, await_worker).
THEOREM ResultIsDelivered == Spec => []ResultNotLost
<1>1. EndInv => ResultNotLost
  BY DEF EndInv, EndOK, MissingOK, ResultNotLost
<1> QED
  BY <1>1, EndsInOrder, PTL

\* Every outcome of a call has its cause: a stop, an observer error, the loss of
\* the host, or an isolate that ended without a result (run_file, await_worker).
THEOREM OutcomesHaveCauses == Spec => []OutcomeHasCause
<1>1. EndInv => OutcomeHasCause
  BY DEF EndInv, EndOK, MissingOK, CauseOK, OutcomeHasCause
<1> QED
  BY <1>1, EndsInOrder, PTL
=============================================================================
