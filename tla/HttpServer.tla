----------------------------- MODULE HttpServer -----------------------------
(***************************************************************************)
(* StartHTTPServer (http.go): requests reach the event loop through a      *)
(* handler that counts them, until a signal makes the server shut down.    *)
(* Then StartHTTPServer waits in turn for server.Shutdown, for the         *)
(* requests that were counted, and for the threads and timers of the Lua   *)
(* state, and stops the event loop.                                        *)
(*                                                                         *)
(* The event loop is what TaskService promises of it: a request is a call  *)
(* and shares phase and answered with it.  A subrequest is part of the     *)
(* thread that waits for it: the mux that location.capture goes through is *)
(* the one without logHTTPRequests, so that no subrequest is counted.      *)
(* The end of a thread includes that it is closed, which follows in the    *)
(* same handler.  net/http is modelled as its documentation describes      *)
(* Shutdown.  Wait of a sync.WaitGroup looks at the counter again when it  *)
(* has been woken, and panics if it is in use again.                       *)
(***************************************************************************)
EXTENDS Naturals, FiniteSets

CONSTANTS Requests, Timers

ASSUME TasksAssumption == IsFiniteSet(Requests) /\ Requests \cap Timers = {}

VARIABLES
  phase, answered,   \* of the tasks of the event loop
  looping,           \* the event loop has not handled the stop event
  http,              \* of each request: none, reading, handling or finished
  requestWg,
  shutdown,          \* of the signal goroutine: no, begun, running, ok or timeout
  main,              \* where StartHTTPServer is
  woken,             \* the counter that main waits for has been zero
  late               \* history: requests counted after requestWg was waited for

Loop == INSTANCE TaskService WITH Calls <- Requests

tasks   == <<phase, answered>>
waiting == <<shutdown, main, woken>>
vars    == <<tasks, looping, http, requestWg, waiting, late>>

Tasks == Requests \cup Timers

Init ==
  /\ Loop!Init
  /\ looping = TRUE
  /\ http = [r \in Requests |-> "none"]
  /\ requestWg = 0
  /\ shutdown = "no"
  /\ main = "serving"
  /\ woken = FALSE
  /\ late = {}

\* the process is still there
Alive == main \notin {"over", "crashed"}

\* A counter went to zero: Wait wakes up, if it had begun before.
Wakes(at, zero) == woken' \in (IF main = at /\ zero THEN BOOLEAN ELSE {woken})

-----------------------------------------------------------------------------
(* net/http and the handlers.                                              *)

\* the listener is open until Shutdown runs
Connect(r) ==
  /\ Alive
  /\ http[r] = "none" /\ shutdown \in {"no", "begun"}
  /\ http' = [http EXCEPT ![r] = "reading"]
  /\ UNCHANGED <<tasks, looping, requestWg, waiting, late>>

\* the client goes away, a timeout passes, or Shutdown closes the connection
HangUp(r) ==
  /\ Alive
  /\ http[r] = "reading"
  /\ http' = [http EXCEPT ![r] = "finished"]
  /\ UNCHANGED <<tasks, looping, requestWg, waiting, late>>

\* Slip: the request is not counted.
CountNone == requestWg' = requestWg

Count == requestWg' = requestWg + 1

\* logHTTPRequests
Handle(r) ==
  /\ Alive
  /\ http[r] = "reading"
  /\ http' = [http EXCEPT ![r] = "handling"]
  /\ Count
  /\ late' = IF main \in {"draining", "stopping"} THEN late \cup {r} ELSE late
  /\ UNCHANGED <<tasks, looping, waiting>>

\* HTTPHandler posts a run event, and waits
Post(r) ==
  /\ Alive
  /\ http[r] = "handling"
  /\ Loop!Accept(r)
  /\ UNCHANGED <<looping, http, requestWg, waiting, late>>

\* Slip: the request stays counted.
DoneNever == requestWg' = requestWg

Done == requestWg' = requestWg - 1

\* with the response, or with a file of a file server
HandlerReturns(r) ==
  /\ Alive
  /\ http[r] = "handling"
  /\ r \in answered \/ phase[r] = "idle"
  /\ http' = [http EXCEPT ![r] = "finished"]
  /\ Done
  /\ Wakes("counting", requestWg' = 0)
  /\ UNCHANGED <<tasks, looping, shutdown, main, late>>

-----------------------------------------------------------------------------
(* The event loop.                                                         *)

LoopOnly == UNCHANGED <<looping, http, requestWg, waiting, late>>

Begin(t)    == Alive /\ looping /\ Loop!Begin(t) /\ LoopOnly
Continue(t) == Alive /\ looping /\ Loop!Continue(t) /\ LoopOnly
Suspend(t)  == Alive /\ looping /\ Loop!Suspend(t) /\ LoopOnly
Reject(r)   == Alive /\ looping /\ Loop!Reject(r) /\ LoopOnly
Answer(r)   == Alive /\ Loop!Answer(r) /\ LoopOnly

\* timer.at, called by whatever thread runs
ArmTimer(t) ==
  /\ Alive /\ looping
  /\ \E s \in Tasks : phase[s] = "running"
  /\ Loop!Accept(t)
  /\ LoopOnly

\* what threadWg counts
Work == {t \in Tasks : \/ phase[t] \in {"running", "suspended"}
                       \/ t \in Timers /\ phase[t] = "accepted"}

\* the thread is over, and closed
Finish(t) ==
  /\ Alive /\ looping
  /\ Loop!Finish(t)
  /\ Wakes("draining", Work' = {})
  /\ UNCHANGED <<looping, http, requestWg, shutdown, main, late>>

-----------------------------------------------------------------------------
(* The signal goroutine and StartHTTPServer.                               *)

Signal ==
  /\ Alive
  /\ shutdown = "no"
  /\ shutdown' = "begun"
  /\ UNCHANGED <<tasks, looping, http, requestWg, main, woken, late>>

\* server.Shutdown closes the listener
CloseListener ==
  /\ shutdown = "begun"
  /\ shutdown' = "running"
  /\ UNCHANGED <<tasks, looping, http, requestWg, main, woken, late>>

Quiet == \A r \in Requests : http[r] \in {"none", "finished"}

\* Shutdown returns when no connection is active, or after its timeout
ShutdownReturns ==
  /\ Alive
  /\ shutdown = "running"
  /\ \/ Quiet /\ shutdown' = "ok"
     \/ shutdown' = "timeout"
  /\ UNCHANGED <<tasks, looping, http, requestWg, main, woken, late>>

\* StartHTTPServer goes on to its next wait
Passes(from, to) ==
  /\ main = from
  /\ main' = to
  /\ woken' = FALSE
  /\ UNCHANGED <<tasks, http, requestWg, shutdown, late>>

\* ListenAndServe returns ErrServerClosed
ServeReturns ==
  /\ shutdown \in {"running", "ok", "timeout"}
  /\ Passes("serving", "shutting") /\ UNCHANGED looping

\* <-shutdownDone
ShutdownDone ==
  /\ shutdown \in {"ok", "timeout"}
  /\ Passes("shutting", "counting") /\ UNCHANGED looping

\* Wait of a WaitGroup whose counter is zero, or has been
WaitReturns(zero, from, to) ==
  /\ zero \/ woken
  /\ Passes(from, IF zero THEN to ELSE "crashed")
  /\ UNCHANGED looping

\* Slip: nobody waits for the requests.
CountedNot == TRUE

Counted == requestWg = 0

\* requestWg.Wait
RequestsDone == WaitReturns(Counted, "counting", "draining")

\* lua.Wait
WorkDone == WaitReturns(Work = {}, "draining", "stopping")

\* the stop event
LoopStops ==
  /\ main = "stopping"
  /\ looping /\ Loop!NoneRuns
  /\ looping' = FALSE
  /\ Loop!Drop
  /\ UNCHANGED <<http, requestWg, waiting, late>>

\* Stop and Close return, and the process ends
StopReturns == ~looping /\ Passes("stopping", "over") /\ UNCHANGED looping

-----------------------------------------------------------------------------
Server(r) == Connect(r) \/ HangUp(r) \/ Handle(r) \/ Post(r) \/ HandlerReturns(r) \/ Reject(r) \/ Answer(r)

Runs(t) == Begin(t) \/ Continue(t) \/ Suspend(t) \/ Finish(t)

Goes == \/ CloseListener \/ ShutdownReturns
        \/ ServeReturns \/ ShutdownDone \/ RequestsDone \/ WorkDone
        \/ LoopStops \/ StopReturns

Next ==
  \/ \E r \in Requests : Server(r)
  \/ \E t \in Tasks : Runs(t)
  \/ \E t \in Timers : ArmTimer(t)
  \/ Signal \/ Goes

Spec == Init /\ [][Next]_vars

\* The goroutines go on.  Events are handled in the order in which they came,
\* so that none is passed over for ever.
GoFairness ==
  /\ \A r \in Requests : /\ WF_vars(Handle(r) \/ HangUp(r))
                         /\ WF_vars(Post(r) \/ HandlerReturns(r))
                         /\ WF_vars(Answer(r))
  /\ \A t \in Tasks : /\ SF_vars(Begin(t)) /\ SF_vars(Continue(t))
                      /\ WF_vars(Suspend(t) \/ Finish(t))
  /\ WF_vars(CloseListener) /\ WF_vars(ShutdownReturns)
  /\ WF_vars(ServeReturns) /\ WF_vars(ShutdownDone)
  /\ WF_vars(RequestsDone) /\ WF_vars(WorkDone)
  /\ SF_vars(LoopStops) /\ WF_vars(StopReturns)

\* And Lua code ends: no timeout cuts short the waits of StartHTTPServer for code
\* that does not.
EndingSpec == Spec /\ GoFairness /\ \A t \in Tasks : SF_vars(Finish(t))

-----------------------------------------------------------------------------
(* Properties.                                                             *)

\* Every variable has its type; requestWg is never below zero and never
\* counts more than there are handlers.
TypeOK ==
  /\ phase \in [Tasks -> Loop!Phases]
  /\ answered \subseteq Requests
  /\ looping \in BOOLEAN
  /\ http \in [Requests -> {"none", "reading", "handling", "finished"}]
  /\ requestWg = Cardinality({r \in Requests : http[r] = "handling"})
  /\ shutdown \in {"no", "begun", "running", "ok", "timeout"}
  /\ main \in {"serving", "shutting", "counting", "draining", "stopping", "over", "crashed"}
  /\ woken \in BOOLEAN
  /\ late \subseteq Requests

\* When the event loop is told to stop, every request that had been counted is
\* answered, whether Shutdown timed out or not; only one that was still being
\* read when Shutdown timed out can be cut off, with what it started, or make
\* a Wait panic.
WorkFinished ==
  /\ main = "crashed" => shutdown = "timeout"
  /\ main \in {"stopping", "over"} =>
       /\ shutdown = "ok" => late = {} /\ Quiet
       /\ \A r \in Requests : http[r] = "handling" => r \in late
       /\ late = {} => \A t \in Tasks : phase[t] \in {"idle", "finished"}

\* A signal ends the process: none of the three waits and of Stop hangs, if
\* Lua code ends.
ShutdownEnds == shutdown = "begun" ~> ~Alive

\* "Shutdown has stopped accepting new HTTP work; let in-flight Lua work finish
\* before stopping the event loop": no request is cut off by the end of the
\* process.
InFlightFinishes == ~Alive => \A r \in Requests : http[r] # "handling"
=============================================================================
