------------------------- MODULE HttpServer_proofs -------------------------
(***************************************************************************)
(* Proofs about HttpServer, for any finite set of requests and any timers: *)
(* requestWg is exact, and what was counted before it was waited for is    *)
(* answered before the event loop is told to stop.  The inductive          *)
(* invariant ties what net/http knows of a request to its task in the      *)
(* event loop, and each wait of StartHTTPServer to what is over by then.   *)
(***************************************************************************)
EXTENDS HttpServer, FiniteSetTheorems, TLAPS

Handling == {r \in Requests : http[r] = "handling"}

\* TypeOK but for the counter, which is a matter of its own.
Typed ==
  /\ phase \in [Tasks -> Loop!Phases]
  /\ answered \subseteq Requests
  /\ looping \in BOOLEAN
  /\ http \in [Requests -> {"none", "reading", "handling", "finished"}]
  /\ shutdown \in {"no", "begun", "running", "ok", "timeout"}
  /\ main \in {"serving", "shutting", "counting", "draining", "stopping", "over", "crashed"}
  /\ woken \in BOOLEAN
  /\ late \subseteq Requests

Counts == requestWg = Cardinality(Handling)

\* Only the handler of a request has a task in the event loop, and it does not
\* return before the task is over.
Served ==
  \A r \in Requests :
    /\ http[r] \in {"none", "reading"} => phase[r] = "idle"
    /\ http[r] = "finished" => phase[r] \in {"idle", "finished"}
    /\ r \in answered => phase[r] = "finished"

\* How far StartHTTPServer is says how Shutdown has ended, and when.
Ordered ==
  /\ main = "shutting" => shutdown \in {"running", "ok", "timeout"}
  /\ main \notin {"serving", "shutting"} => shutdown \in {"ok", "timeout"}
  /\ shutdown = "ok" => Quiet
  /\ main = "crashed" => shutdown = "timeout"

\* Timers are dropped at the very end.
Lasting ==
  /\ looping => \A t \in Tasks : phase[t] # "dropped"
  /\ ~looping => main \in {"stopping", "over"}

\* Who is counted after the wait is late, which takes a timeout.
Lates ==
  /\ late # {} => main \notin {"serving", "shutting", "counting"} /\ shutdown = "timeout"
  /\ main \in {"draining", "stopping", "over"} => Handling \subseteq late

\* Work that is over stays so, unless someone is late.
Over ==
  /\ main \in {"stopping", "over"} /\ late = {} =>
       \A t \in Tasks : phase[t] \in {"idle", "finished"}
  /\ main = "draining" /\ woken /\ shutdown = "ok" => Work = {}

IInv == Typed /\ Counts /\ Served /\ Ordered /\ Lasting /\ Lates /\ Over

LEMMA HandlingFinite == IsFiniteSet(Handling) /\ Cardinality(Handling) \in Nat
BY TasksAssumption, FS_Subset, FS_CardinalityType DEF Handling

-----------------------------------------------------------------------------
(* net/http and the handlers.                                              *)

\* A connection is accepted.
LEMMA ConnectKeeps ==
  ASSUME NEW r \in Requests, IInv, Connect(r)
  PROVE  IInv'
<1> USE DEF IInv, Connect, tasks, waiting, Tasks, Alive
<1>1. Typed'
  BY DEF Typed
<1>2. Counts'
  BY DEF Counts, Handling
<1>3. Served'
  BY DEF Served, Typed
<1>4. Ordered'
  BY DEF Ordered, Quiet, Typed
<1>5. Lasting'
  BY DEF Lasting, Ordered, Typed
<1>6. Lates'
  BY DEF Lates, Ordered, Handling, Quiet, Typed
<1>7. Over'
  BY DEF Over, Lates, Served, Ordered, Quiet, Handling, Work, Typed
<1> QED BY <1>1, <1>2, <1>3, <1>4, <1>5, <1>6, <1>7

\* A connection ends before its request was read.
LEMMA HangUpKeeps ==
  ASSUME NEW r \in Requests, IInv, HangUp(r)
  PROVE  IInv'
<1> USE DEF IInv, HangUp, tasks, waiting, Tasks, Alive
<1>1. Typed'
  BY DEF Typed
<1>2. Counts'
  BY DEF Counts, Handling
<1>3. Served'
  BY DEF Served, Typed
<1>4. Ordered'
  BY DEF Ordered, Quiet, Typed
<1>5. Lasting'
  BY DEF Lasting, Ordered, Typed
<1>6. Lates'
  BY DEF Lates, Ordered, Handling, Quiet, Typed
<1>7. Over'
  BY DEF Over, Lates, Served, Ordered, Quiet, Handling, Work, Typed
<1> QED BY <1>1, <1>2, <1>3, <1>4, <1>5, <1>6, <1>7

\* A handler begins, and is counted.
LEMMA HandleKeeps ==
  ASSUME NEW r \in Requests, IInv, Handle(r)
  PROVE  IInv'
<1> USE DEF IInv, Handle, tasks, waiting, Tasks, Alive
<1>1. Typed'
  BY DEF Typed
<1>2. Counts'
  <2>1. Handling' = Handling \cup {r} /\ r \notin Handling
    BY DEF Handling, Typed
  <2> QED BY <2>1, HandlingFinite, FS_AddElement DEF Counts, Count
<1>3. Served'
  BY DEF Served, Typed
<1>4. Ordered'
  BY DEF Ordered, Quiet, Typed
<1>5. Lasting'
  BY DEF Lasting, Ordered, Typed
<1>6. Lates'
  BY DEF Lates, Ordered, Handling, Quiet, Typed
<1>7. Over'
  BY DEF Over, Lates, Served, Ordered, Quiet, Handling, Work, Typed
<1> QED BY <1>1, <1>2, <1>3, <1>4, <1>5, <1>6, <1>7

\* A request becomes a task.
LEMMA PostKeeps ==
  ASSUME NEW r \in Requests, IInv, Post(r)
  PROVE  IInv'
<1> USE DEF IInv, Post, Loop!Accept, LoopOnly, tasks, waiting, Tasks, Loop!Tasks, Loop!Phases, Loop!Move, Loop!NoneRuns, Alive
<1>1. Typed'
  BY TasksAssumption DEF Typed
<1>2. Counts'
  BY TasksAssumption DEF Counts, Handling
<1>3. Served'
  BY TasksAssumption DEF Served, Typed
<1>4. Ordered'
  BY TasksAssumption DEF Ordered, Quiet, Typed
<1>5. Lasting'
  BY TasksAssumption DEF Lasting, Ordered, Typed
<1>6. Lates'
  BY TasksAssumption DEF Lates, Ordered, Handling, Quiet, Typed
<1>7. Over'
  BY TasksAssumption DEF Over, Lates, Served, Ordered, Quiet, Handling, Work, Typed
<1> QED BY <1>1, <1>2, <1>3, <1>4, <1>5, <1>6, <1>7

\* A handler returns when its task is over.
LEMMA HandlerReturnsKeeps ==
  ASSUME NEW r \in Requests, IInv, HandlerReturns(r)
  PROVE  IInv'
<1> USE DEF IInv, HandlerReturns, Wakes, tasks, waiting, Tasks, Alive
<1>1. Typed'
  BY DEF Typed
<1>2. Counts'
  <2>1. Handling' = Handling \ {r} /\ r \in Handling
    BY DEF Handling, Typed
  <2> QED BY <2>1, HandlingFinite, FS_RemoveElement DEF Counts, Done
<1>3. Served'
  BY DEF Served, Typed
<1>4. Ordered'
  BY DEF Ordered, Quiet, Typed
<1>5. Lasting'
  BY DEF Lasting, Ordered, Typed
<1>6. Lates'
  BY DEF Lates, Ordered, Handling, Quiet, Typed
<1>7. Over'
  BY DEF Over, Lates, Served, Ordered, Quiet, Handling, Work, Typed
<1> QED BY <1>1, <1>2, <1>3, <1>4, <1>5, <1>6, <1>7

-----------------------------------------------------------------------------
(* The event loop.                                                         *)

\* A task begins; that of a timer was counted before.
LEMMA BeginKeeps ==
  ASSUME NEW t \in Tasks, IInv, Begin(t)
  PROVE  IInv'
<1> USE DEF IInv, Begin, Loop!Begin, LoopOnly, tasks, waiting, Tasks, Loop!Tasks, Loop!Phases, Loop!Move, Loop!NoneRuns, Alive
<1>1. Typed'
  BY DEF Typed
<1>2. Counts'
  BY DEF Counts, Handling
<1>3. Served'
  BY DEF Served, Typed
<1>4. Ordered'
  BY DEF Ordered, Quiet, Typed
<1>5. Lasting'
  BY DEF Lasting, Ordered, Typed
<1>6. Lates'
  BY DEF Lates, Ordered, Handling, Quiet, Typed
<1>7. Over'
  BY DEF Over, Lates, Served, Ordered, Quiet, Handling, Work, Typed
<1> QED BY <1>1, <1>2, <1>3, <1>4, <1>5, <1>6, <1>7

\* A suspended task goes on.
LEMMA ContinueKeeps ==
  ASSUME NEW t \in Tasks, IInv, Continue(t)
  PROVE  IInv'
<1> USE DEF IInv, Continue, Loop!Continue, LoopOnly, tasks, waiting, Tasks, Loop!Tasks, Loop!Phases, Loop!Move, Loop!NoneRuns, Alive
<1>1. Typed'
  BY DEF Typed
<1>2. Counts'
  BY DEF Counts, Handling
<1>3. Served'
  BY DEF Served, Typed
<1>4. Ordered'
  BY DEF Ordered, Quiet, Typed
<1>5. Lasting'
  BY DEF Lasting, Ordered, Typed
<1>6. Lates'
  BY DEF Lates, Ordered, Handling, Quiet, Typed
<1>7. Over'
  BY DEF Over, Lates, Served, Ordered, Quiet, Handling, Work, Typed
<1> QED BY <1>1, <1>2, <1>3, <1>4, <1>5, <1>6, <1>7

\* A task is suspended.
LEMMA SuspendKeeps ==
  ASSUME NEW t \in Tasks, IInv, Suspend(t)
  PROVE  IInv'
<1> USE DEF IInv, Suspend, Loop!Suspend, LoopOnly, tasks, waiting, Tasks, Loop!Tasks, Loop!Phases, Loop!Move, Loop!NoneRuns, Alive
<1>1. Typed'
  BY DEF Typed
<1>2. Counts'
  BY DEF Counts, Handling
<1>3. Served'
  BY DEF Served, Typed
<1>4. Ordered'
  BY DEF Ordered, Quiet, Typed
<1>5. Lasting'
  BY DEF Lasting, Ordered, Typed
<1>6. Lates'
  BY DEF Lates, Ordered, Handling, Quiet, Typed
<1>7. Over'
  BY DEF Over, Lates, Served, Ordered, Quiet, Handling, Work, Typed
<1> QED BY <1>1, <1>2, <1>3, <1>4, <1>5, <1>6, <1>7

\* A task ends, and may be the last.
LEMMA FinishKeeps ==
  ASSUME NEW t \in Tasks, IInv, Finish(t)
  PROVE  IInv'
<1> USE DEF IInv, Finish, Loop!Finish, Wakes, LoopOnly, tasks, waiting, Tasks, Loop!Tasks, Loop!Phases, Loop!Move, Loop!NoneRuns, Alive
<1>1. Typed'
  BY DEF Typed
<1>2. Counts'
  BY DEF Counts, Handling
<1>3. Served'
  BY DEF Served, Typed
<1>4. Ordered'
  BY DEF Ordered, Quiet, Typed
<1>5. Lasting'
  BY DEF Lasting, Ordered, Typed
<1>6. Lates'
  BY DEF Lates, Ordered, Handling, Quiet, Typed
<1>7. Over'
  BY DEF Over, Lates, Served, Ordered, Quiet, Handling, Work, Typed
<1> QED BY <1>1, <1>2, <1>3, <1>4, <1>5, <1>6, <1>7

\* A call whose code does not run is over.
LEMMA RejectKeeps ==
  ASSUME NEW r \in Requests, IInv, Reject(r)
  PROVE  IInv'
<1> USE DEF IInv, Reject, Loop!Reject, LoopOnly, tasks, waiting, Tasks, Loop!Tasks, Loop!Phases, Loop!Move, Loop!NoneRuns, Alive
<1>1. Typed'
  BY DEF Typed
<1>2. Counts'
  BY DEF Counts, Handling
<1>3. Served'
  BY DEF Served, Typed
<1>4. Ordered'
  BY DEF Ordered, Quiet, Typed
<1>5. Lasting'
  BY DEF Lasting, Ordered, Typed
<1>6. Lates'
  BY DEF Lates, Ordered, Handling, Quiet, Typed
<1>7. Over'
  BY DEF Over, Lates, Served, Ordered, Quiet, Handling, Work, Typed
<1> QED BY <1>1, <1>2, <1>3, <1>4, <1>5, <1>6, <1>7

\* A call is answered after its end.
LEMMA AnswerKeeps ==
  ASSUME NEW r \in Requests, IInv, Answer(r)
  PROVE  IInv'
<1> USE DEF IInv, Answer, Loop!Answer, LoopOnly, tasks, waiting, Tasks, Loop!Tasks, Loop!Phases, Loop!Move, Loop!NoneRuns, Alive
<1>1. Typed'
  BY DEF Typed
<1>2. Counts'
  BY DEF Counts, Handling
<1>3. Served'
  BY DEF Served, Typed
<1>4. Ordered'
  BY DEF Ordered, Quiet, Typed
<1>5. Lasting'
  BY DEF Lasting, Ordered, Typed
<1>6. Lates'
  BY DEF Lates, Ordered, Handling, Quiet, Typed
<1>7. Over'
  BY DEF Over, Lates, Served, Ordered, Quiet, Handling, Work, Typed
<1> QED BY <1>1, <1>2, <1>3, <1>4, <1>5, <1>6, <1>7

\* Only running code makes new work.
LEMMA ArmTimerKeeps ==
  ASSUME NEW t \in Timers, IInv, ArmTimer(t)
  PROVE  IInv'
<1> USE DEF IInv, ArmTimer, Loop!Accept, LoopOnly, tasks, waiting, Tasks, Loop!Tasks, Loop!Phases, Loop!Move, Loop!NoneRuns, Alive
<1>1. Typed'
  BY TasksAssumption DEF Typed
<1>2. Counts'
  BY TasksAssumption DEF Counts, Handling
<1>3. Served'
  BY TasksAssumption DEF Served, Typed
<1>4. Ordered'
  BY TasksAssumption DEF Ordered, Quiet, Typed
<1>5. Lasting'
  BY TasksAssumption DEF Lasting, Ordered, Typed
<1>6. Lates'
  BY TasksAssumption DEF Lates, Ordered, Handling, Quiet, Typed
<1>7. Over'
  BY TasksAssumption DEF Over, Lates, Served, Ordered, Quiet, Handling, Work, Typed
<1> QED BY <1>1, <1>2, <1>3, <1>4, <1>5, <1>6, <1>7

-----------------------------------------------------------------------------
(* The signal goroutine and StartHTTPServer.                               *)

\* The signal comes.
LEMMA SignalKeeps ==
  ASSUME IInv, Signal
  PROVE  IInv'
<1> USE DEF IInv, Signal, tasks, waiting, Tasks, Alive
<1>1. Typed'
  BY DEF Typed
<1>2. Counts'
  BY DEF Counts, Handling
<1>3. Served'
  BY DEF Served, Typed
<1>4. Ordered'
  BY DEF Ordered, Quiet, Typed
<1>5. Lasting'
  BY DEF Lasting, Ordered, Typed
<1>6. Lates'
  BY DEF Lates, Ordered, Handling, Quiet, Typed
<1>7. Over'
  BY DEF Over, Lates, Served, Ordered, Quiet, Handling, Work, Typed
<1> QED BY <1>1, <1>2, <1>3, <1>4, <1>5, <1>6, <1>7

\* The listener is closed.
LEMMA CloseListenerKeeps ==
  ASSUME IInv, CloseListener
  PROVE  IInv'
<1> USE DEF IInv, CloseListener, tasks, waiting, Tasks, Alive
<1>1. Typed'
  BY DEF Typed
<1>2. Counts'
  BY DEF Counts, Handling
<1>3. Served'
  BY DEF Served, Typed
<1>4. Ordered'
  BY DEF Ordered, Quiet, Typed
<1>5. Lasting'
  BY DEF Lasting, Ordered, Typed
<1>6. Lates'
  BY DEF Lates, Ordered, Handling, Quiet, Typed
<1>7. Over'
  BY DEF Over, Lates, Served, Ordered, Quiet, Handling, Work, Typed
<1> QED BY <1>1, <1>2, <1>3, <1>4, <1>5, <1>6, <1>7

\* Shutdown is honest about the connections.
LEMMA ShutdownReturnsKeeps ==
  ASSUME IInv, ShutdownReturns
  PROVE  IInv'
<1> USE DEF IInv, ShutdownReturns, tasks, waiting, Tasks, Alive
<1>1. Typed'
  BY DEF Typed
<1>2. Counts'
  BY DEF Counts, Handling
<1>3. Served'
  BY DEF Served, Typed
<1>4. Ordered'
  BY DEF Ordered, Quiet, Typed
<1>5. Lasting'
  BY DEF Lasting, Ordered, Typed
<1>6. Lates'
  BY DEF Lates, Ordered, Handling, Quiet, Typed
<1>7. Over'
  BY DEF Over, Lates, Served, Ordered, Quiet, Handling, Work, Typed
<1> QED BY <1>1, <1>2, <1>3, <1>4, <1>5, <1>6, <1>7

\* ListenAndServe returns when Shutdown runs.
LEMMA ServeReturnsKeeps ==
  ASSUME IInv, ServeReturns
  PROVE  IInv'
<1> USE DEF IInv, ServeReturns, Passes, tasks, waiting, Tasks, Alive
<1>1. Typed'
  BY DEF Typed
<1>2. Counts'
  BY DEF Counts, Handling
<1>3. Served'
  BY DEF Served, Typed
<1>4. Ordered'
  BY DEF Ordered, Quiet, Typed
<1>5. Lasting'
  BY DEF Lasting, Ordered, Typed
<1>6. Lates'
  BY DEF Lates, Ordered, Handling, Quiet, Typed
<1>7. Over'
  BY DEF Over, Lates, Served, Ordered, Quiet, Handling, Work, Typed
<1> QED BY <1>1, <1>2, <1>3, <1>4, <1>5, <1>6, <1>7

\* Shutdown has ended, one way or the other.
LEMMA ShutdownDoneKeeps ==
  ASSUME IInv, ShutdownDone
  PROVE  IInv'
<1> USE DEF IInv, ShutdownDone, Passes, tasks, waiting, Tasks, Alive
<1>1. Typed'
  BY DEF Typed
<1>2. Counts'
  BY DEF Counts, Handling
<1>3. Served'
  BY DEF Served, Typed
<1>4. Ordered'
  BY DEF Ordered, Quiet, Typed
<1>5. Lasting'
  BY DEF Lasting, Ordered, Typed
<1>6. Lates'
  BY DEF Lates, Ordered, Handling, Quiet, Typed
<1>7. Over'
  BY DEF Over, Lates, Served, Ordered, Quiet, Handling, Work, Typed
<1> QED BY <1>1, <1>2, <1>3, <1>4, <1>5, <1>6, <1>7

\* When the counter is zero no handler is left.
LEMMA RequestsDoneKeeps ==
  ASSUME IInv, RequestsDone
  PROVE  IInv'
<1> USE DEF IInv, RequestsDone, WaitReturns, Counted, Passes, tasks, waiting, Tasks, Alive
<1>0. requestWg = 0 <=> Handling = {}
  BY HandlingFinite, FS_EmptySet DEF Counts
<1>1. Typed'
  BY <1>0 DEF Typed
<1>2. Counts'
  BY <1>0 DEF Counts, Handling
<1>3. Served'
  BY <1>0 DEF Served, Typed
<1>4. Ordered'
  BY <1>0 DEF Ordered, Quiet, Handling
<1>5. Lasting'
  BY <1>0 DEF Lasting, Ordered, Typed
<1>6. Lates'
  BY <1>0 DEF Lates, Ordered, Handling, Quiet, Typed
<1>7. Over'
  BY <1>0 DEF Over, Lates, Served, Ordered, Quiet, Handling, Work, Typed
<1> QED BY <1>1, <1>2, <1>3, <1>4, <1>5, <1>6, <1>7

\* When there is no work left only late requests can bring some.
LEMMA WorkDoneKeeps ==
  ASSUME IInv, WorkDone
  PROVE  IInv'
<1> USE DEF IInv, WorkDone, WaitReturns, Passes, tasks, waiting, Tasks, Alive
<1>1. Typed'
  BY DEF Typed
<1>2. Counts'
  BY DEF Counts, Handling
<1>3. Served'
  BY DEF Served, Typed
<1>4. Ordered'
  BY DEF Ordered, Over, Quiet
<1>5. Lasting'
  BY DEF Lasting, Ordered, Typed
<1>6. Lates'
  BY DEF Lates, Ordered, Handling, Quiet, Typed
<1>7. Over'
  <2>1. CASE main' = "stopping" /\ late = {}
    <3>1. \A r \in Requests : phase[r] \in {"idle", "finished"}
      BY <2>1 DEF Lates, Lasting, Served, Work, Handling, Typed, Loop!Phases, Loop!Tasks
    <3>2. \A t \in Timers : phase[t] \in {"idle", "finished"}
      BY <2>1 DEF Lasting, Work, Typed, Loop!Phases, Loop!Tasks
    <3> QED BY <2>1, <3>1, <3>2 DEF Over
  <2>2. CASE ~(main' = "stopping" /\ late = {})
    BY <2>2 DEF Over
  <2> QED BY <2>1, <2>2
<1> QED BY <1>1, <1>2, <1>3, <1>4, <1>5, <1>6, <1>7

\* The event loop stops.
LEMMA LoopStopsKeeps ==
  ASSUME IInv, LoopStops
  PROVE  IInv'
<1> USE DEF IInv, LoopStops, Loop!Drop, LoopOnly, tasks, waiting, Tasks, Loop!Tasks, Loop!Phases, Loop!Move, Loop!NoneRuns, Alive
<1>1. Typed'
  BY DEF Typed
<1>2. Counts'
  BY DEF Counts, Handling
<1>3. Served'
  BY DEF Served, Typed
<1>4. Ordered'
  BY DEF Ordered, Quiet, Typed
<1>5. Lasting'
  BY DEF Lasting, Ordered, Typed
<1>6. Lates'
  BY DEF Lates, Ordered, Handling, Quiet, Typed
<1>7. Over'
  BY DEF Over, Lates, Served, Ordered, Quiet, Handling, Work, Typed
<1> QED BY <1>1, <1>2, <1>3, <1>4, <1>5, <1>6, <1>7

\* The process ends.
LEMMA StopReturnsKeeps ==
  ASSUME IInv, StopReturns
  PROVE  IInv'
<1> USE DEF IInv, StopReturns, Passes, tasks, waiting, Tasks, Alive
<1>1. Typed'
  BY DEF Typed
<1>2. Counts'
  BY DEF Counts, Handling
<1>3. Served'
  BY DEF Served, Typed
<1>4. Ordered'
  BY DEF Ordered, Quiet, Typed
<1>5. Lasting'
  BY DEF Lasting, Ordered, Typed
<1>6. Lates'
  BY DEF Lates, Ordered, Handling, Quiet, Typed
<1>7. Over'
  BY DEF Over, Lates, Served, Ordered, Quiet, Handling, Work, Typed
<1> QED BY <1>1, <1>2, <1>3, <1>4, <1>5, <1>6, <1>7

\* A step that changes nothing.
LEMMA StutterKeeps ==
  ASSUME IInv, UNCHANGED vars
  PROVE  IInv'
BY DEF IInv, vars, tasks, waiting, Typed, Counts, Handling, Served, Ordered, Quiet,
       Lasting, Lates, Over, Work

LEMMA InitHolds == Init => IInv
<1> SUFFICES ASSUME Init PROVE IInv
  OBVIOUS
<1>1. Typed /\ Handling = {}
  BY DEF Init, Loop!Init, Loop!Phases, Loop!Tasks, Tasks, Typed, Handling
<1>2. Counts
  BY <1>1, FS_EmptySet DEF Init, Counts
<1>3. Served /\ Ordered /\ Lasting /\ Lates /\ Over
  BY <1>1 DEF Init, Loop!Init, Loop!Tasks, Tasks, Served, Ordered, Lasting, Lates, Over
<1> QED BY <1>1, <1>2, <1>3 DEF IInv

\* Every step preserves the invariant.
LEMMA NextKeeps ==
  ASSUME IInv, [Next]_vars
  PROVE  IInv'
<1>1. ASSUME NEW r \in Requests, Server(r) PROVE IInv'
  BY <1>1, ConnectKeeps, HangUpKeeps, HandleKeeps, PostKeeps, HandlerReturnsKeeps,
     RejectKeeps, AnswerKeeps DEF Server
<1>2. ASSUME NEW t \in Tasks, Runs(t) PROVE IInv'
  BY <1>2, BeginKeeps, ContinueKeeps, SuspendKeeps, FinishKeeps DEF Runs
<1>3. ASSUME NEW t \in Timers, ArmTimer(t) PROVE IInv'
  BY <1>3, ArmTimerKeeps
<1>4. CASE Signal
  BY <1>4, SignalKeeps
<1>5. CASE Goes
  BY <1>5, CloseListenerKeeps, ShutdownReturnsKeeps, ServeReturnsKeeps,
     ShutdownDoneKeeps, RequestsDoneKeeps, WorkDoneKeeps, LoopStopsKeeps,
     StopReturnsKeeps DEF Goes
<1>6. CASE UNCHANGED vars
  BY <1>6, StutterKeeps
<1> QED BY <1>1, <1>2, <1>3, <1>4, <1>5, <1>6 DEF Next

-----------------------------------------------------------------------------
(* Theorems.                                                               *)

\* The invariant holds in every reachable state.
THEOREM Invariance == Spec => []IInv
<1>1. Init => IInv
  BY InitHolds
<1>2. IInv /\ [Next]_vars => IInv'
  BY NextKeeps
<1> QED BY <1>1, <1>2, PTL DEF Spec

\* Every variable keeps its type, and requestWg counts the handlers that
\* logHTTPRequests has begun and not ended, so that it never goes negative.
THEOREM TypeCorrect == Spec => []TypeOK
<1>1. IInv => TypeOK
  BY DEF IInv, Typed, Counts, Handling, TypeOK
<1> QED BY <1>1, Invariance, PTL

\* StartHTTPServer stops the event loop only when what was counted in time is
\* answered, and everything is over unless Shutdown has timed out.
THEOREM FinishesWork == Spec => []WorkFinished
<1>1. IInv => WorkFinished
  BY DEF IInv, Typed, Ordered, Lates, Over, Handling, WorkFinished
<1> QED BY <1>1, Invariance, PTL
=============================================================================
