----------------------------- MODULE StateLoop -----------------------------
(***************************************************************************)
(* The event loop of one GolapisLuaState (src/golapis/golapis.go, with the *)
(* life of a LuaThread from lua_thread.go and the yielding functions and   *)
(* timers of bindings.go).                                                 *)
(*                                                                         *)
(* One goroutine, the event loop, owns the Lua state.  Everything else     *)
(* reaches it through the buffered channel eventChan: callers of RunFile,  *)
(* RunString and RunEntryPoint, the goroutines that carry an asynchronous  *)
(* operation, the goroutines of timers, and Stop.  Lua code runs inside    *)
(* the handler of an event until it returns, fails, exits or yields; while *)
(* it runs the other goroutines go on.                                     *)
(*                                                                         *)
(* A thread is named by what it was created for, a caller or a timer: each *)
(* creates at most one.  What the Lua code does is a free choice among the *)
(* calls that touch this state.                                            *)
(*                                                                         *)
(* Just above some definitions stands a slip that the code could contain   *)
(* in its place (HasRoomOffByOne above HasRoom, ...).  The specification   *)
(* uses none of them: they are there to show that a property would notice. *)
(***************************************************************************)
EXTENDS Integers, Sequences, FiniteSets

CONSTANTS
  Callers,    \* calls of RunFile, RunString or RunEntryPoint
  Timers,     \* successful calls of golapis.timer.at
  NoTask,     \* names no caller and no timer
  ChanCap,    \* capacity of eventChan (100 in the code)
  MaxYields,  \* bound: asynchronous yields of one thread
  MaxStarts   \* bound: calls of Start on one state

ASSUME TasksAssumption ==
  /\ IsFiniteSet(Callers) /\ IsFiniteSet(Timers)
  /\ Callers \cap Timers = {}
  /\ NoTask \notin Callers \cup Timers

ASSUME BoundsAssumption ==
  /\ ChanCap \in Nat \ {0}
  /\ MaxYields \in Nat
  /\ MaxStarts \in Nat \ {0}

Tasks == Callers \cup Timers

VARIABLES
  stopping,       \* gls.stopping
  eventChan,      \* gls.eventChan, oldest event first
  posting,        \* events held by a goroutine that will send them
  pendingTimers,  \* gls.pendingTimers
  timerGo,        \* goroutine of a timer: "none", "armed" or "gone"
  cancelled,      \* timers whose cancelChan is closed
  threadWg,       \* counter of gls.threadWg
  status,         \* thread.status, "none" before the thread exists
  open,           \* threads that were created and not closed (co # nil)
  yields,         \* asynchronous yields a thread has made
  loop,           \* the event loop: where it is, for which thread
  caller,         \* where a caller is
  responseChan,   \* responses buffered in a caller's channel (capacity 1)
  ctl,            \* the goroutine that calls Start, Wait, Stop and Close
  starts,         \* calls of Start so far
  waited,         \* history: Wait returned with no call under way or since
  dropped         \* history: timers cleaned up by EventStop

timerVars  == <<pendingTimers, timerGo, cancelled>>
threadVars == <<threadWg, status, open, yields>>
callVars   == <<caller, responseChan>>
ctlVars    == <<stopping, ctl, starts, waited, dropped>>
vars == <<eventChan, posting, loop, timerVars, threadVars, callVars, ctlVars>>

-----------------------------------------------------------------------------
(* Events.                                                                 *)

Event(type, task, premature) ==
  [type |-> type, task |-> task, premature |-> premature]

RunEvent(c)     == Event("run", c, FALSE)
ResumeEvent(t)  == Event("resume", t, FALSE)
FireEvent(m, p) == Event("fire", m, p)
StopEvent       == Event("stop", NoTask, FALSE)

Events == {RunEvent(c) : c \in Callers} \cup {ResumeEvent(t) : t \in Tasks}
            \cup {FireEvent(m, p) : m \in Timers, p \in BOOLEAN}
            \cup {StopEvent}

HasRoomOffByOne == Len(eventChan) <= ChanCap
HasRoom == Len(eventChan) < ChanCap

\* eventChan <- ev, which blocks while the channel is full
SendOrDrop(ev) == eventChan' = IF HasRoom THEN Append(eventChan, ev) ELSE eventChan
Send(ev) == HasRoom /\ eventChan' = Append(eventChan, ev)

\* select { case eventChan <- ev: default: go func() { eventChan <- ev }() }
PostAndSpawn(ev) ==
  /\ eventChan' = IF HasRoom THEN Append(eventChan, ev) ELSE eventChan
  /\ posting' = posting \cup {ev}
PostOrSpawn(ev) ==
  IF HasRoom THEN eventChan' = Append(eventChan, ev) /\ UNCHANGED posting
             ELSE posting' = posting \cup {ev} /\ UNCHANGED eventChan

\* go func() { ...; eventChan <- ev }()
Spawn(ev) == posting' = posting \cup {ev} /\ UNCHANGED eventChan

Receive(ev) ==
  /\ loop.at = "recv"
  /\ eventChan # <<>>
  /\ Head(eventChan) = ev
  /\ eventChan' = Tail(eventChan)

-----------------------------------------------------------------------------
(* The event loop's own state.  "lua" is a call of lua_resume; "reply" and *)
(* "close" are what is left of the handler once Lua has given up control.  *)

At(at, t, via) == [at |-> at, task |-> t, via |-> via]
Down    == At("down", NoTask, "none")
Idle    == At("recv", NoTask, "none")
Panic   == At("panic", NoTask, "none")

LoopStates ==
  {Down, Idle, Panic} \cup
  [at : {"lua", "reply", "close"}, task : Tasks, via : {"run", "resume", "fire"}]

Init ==
  /\ stopping = FALSE
  /\ eventChan = <<>>
  /\ posting = {}
  /\ pendingTimers = {}
  /\ timerGo = [m \in Timers |-> "none"]
  /\ cancelled = {}
  /\ threadWg = 0
  /\ status = [t \in Tasks |-> "none"]
  /\ open = {}
  /\ yields = [t \in Tasks |-> 0]
  /\ loop = Down
  /\ caller = [c \in Callers |-> "idle"]
  /\ responseChan = [c \in Callers |-> 0]
  /\ ctl = "new"
  /\ starts = 0
  /\ waited = FALSE
  /\ dropped = {}
-----------------------------------------------------------------------------
(* Callers: RunFile, RunString, RunEntryPoint and HTTPHandler.             *)

Call(c) ==
  /\ caller[c] = "idle"
  /\ caller' = [caller EXCEPT ![c] = "calling"]
  /\ waited' = FALSE
  /\ UNCHANGED <<eventChan, posting, loop, timerVars, threadVars,
                 responseChan, stopping, ctl, starts, dropped>>

SendRun(c) ==
  /\ caller[c] = "calling"
  /\ Send(RunEvent(c))
  /\ caller' = [caller EXCEPT ![c] = "waiting"]
  /\ UNCHANGED <<posting, loop, timerVars, threadVars, responseChan, ctlVars>>

CallReturns(c) ==
  /\ caller[c] = "waiting"
  /\ responseChan[c] > 0
  /\ responseChan' = [responseChan EXCEPT ![c] = 0]
  /\ caller' = [caller EXCEPT ![c] = "returned"]
  /\ UNCHANGED <<eventChan, posting, loop, timerVars, threadVars, ctlVars>>

-----------------------------------------------------------------------------
(* Goroutines that send events.                                            *)

\* An asynchronous operation has ended, or a full channel has made room.
Post(ev) ==
  /\ ev \in posting
  /\ Send(ev)
  /\ posting' = posting \ {ev}
  /\ UNCHANGED <<loop, timerVars, threadVars, callVars, ctlVars>>

\* time.After won the select
TimerExpires(m) ==
  /\ timerGo[m] = "armed"
  /\ timerGo' = [timerGo EXCEPT ![m] = "gone"]
  /\ Spawn(FireEvent(m, FALSE))
  /\ UNCHANGED <<loop, pendingTimers, cancelled, threadVars, callVars, ctlVars>>

\* cancelChan won the select: fire early, or leave silently on a hard stop
TimerCancelled(m) ==
  /\ timerGo[m] = "armed"
  /\ m \in cancelled
  /\ timerGo' = [timerGo EXCEPT ![m] = "gone"]
  /\ IF stopping THEN UNCHANGED <<eventChan, posting>>
                 ELSE Spawn(FireEvent(m, TRUE))
  /\ UNCHANGED <<loop, pendingTimers, cancelled, threadVars, callVars, ctlVars>>

-----------------------------------------------------------------------------
(* Handlers: from the receipt of an event to the call of lua_resume.       *)

\* the chunk does not load, or there is no entry point
HandleRunFails(c) ==
  /\ Receive(RunEvent(c))
  /\ loop' = At("reply", c, "run")
  /\ UNCHANGED <<posting, timerVars, threadVars, callVars, ctlVars>>

HandleRun(c) ==
  /\ Receive(RunEvent(c))
  /\ open' = open \cup {c}
  /\ threadWg' = threadWg + 1
  /\ status' = [status EXCEPT ![c] = "running"]
  /\ loop' = At("lua", c, "run")
  /\ UNCHANGED <<posting, timerVars, yields, callVars, ctlVars>>

\* where a resume handler goes when its thread is over
AfterResume(t) == At(IF t \in Callers THEN "reply" ELSE "close", t, "resume")

\* resumeInternal refuses a thread that is dead, exited or closed
Resumable(t) == t \in open /\ status[t] \notin {"dead", "exited"}

HandleResumeThread(t) ==
  /\ Receive(ResumeEvent(t))
  /\ IF Resumable(t)
     THEN /\ status' = [status EXCEPT ![t] = "running"]
          /\ loop' = At("lua", t, "resume")
     ELSE /\ loop' = AfterResume(t)
          /\ UNCHANGED status
  /\ UNCHANGED <<posting, timerVars, threadWg, open, yields, callVars, ctlVars>>

\* the thread was counted in threadWg when the timer was created
HandleTimerFire(m) ==
  /\ \E p \in BOOLEAN : Receive(FireEvent(m, p))
  /\ pendingTimers' = pendingTimers \ {m}
  /\ open' = open \cup {m}
  /\ status' = [status EXCEPT ![m] = "running"]
  /\ loop' = At("lua", m, "fire")
  /\ UNCHANGED <<posting, timerGo, cancelled, threadWg, yields, callVars, ctlVars>>

\* n calls of threadWg.Done(): a negative counter panics
Done(n, next) ==
  IF threadWg >= n THEN threadWg' = threadWg - n /\ loop' = next
                   ELSE threadWg' = 0 /\ loop' = Panic

\* release every pending timer, then return from the loop
CleanUpForgets ==
  Done(Cardinality(pendingTimers), Down) /\ UNCHANGED <<pendingTimers, dropped>>
CleanUpGoesOn ==
  /\ Done(Cardinality(pendingTimers), Idle)
  /\ pendingTimers' = {}
  /\ dropped' = dropped \cup pendingTimers
CleanUp ==
  /\ Done(Cardinality(pendingTimers), Down)
  /\ pendingTimers' = {}
  /\ dropped' = dropped \cup pendingTimers

HandleStop ==
  /\ Receive(StopEvent)
  /\ CleanUp
  /\ ctl' = "acked"
  /\ UNCHANGED <<posting, timerGo, cancelled, status, open, yields, callVars,
                 stopping, starts, waited>>
-----------------------------------------------------------------------------
(* Lua code, running on behalf of thread loop.task.                        *)

\* the handler is done with a thread that yielded: no response, no close
AfterYieldReplies == IF loop.via = "run" THEN At("reply", loop.task, "run") ELSE Idle
AfterYield == Idle

LuaYields(t) ==
  /\ loop.at = "lua" /\ loop.task = t
  /\ yields[t] < MaxYields
  /\ yields' = [yields EXCEPT ![t] = @ + 1]
  /\ status' = [status EXCEPT ![t] = "yielded"]
  /\ loop' = AfterYield
  /\ UNCHANGED <<timerVars, threadWg, open, callVars, ctlVars>>

\* golapis.sleep(0)
SleepZero(t) == LuaYields(t) /\ PostOrSpawn(ResumeEvent(t))

\* golapis.sleep(s), http.request, location.capture and the socket
\* operations: a goroutine does the work and posts the result
StartAsync(t) == LuaYields(t) /\ Spawn(ResumeEvent(t))

LuaGoesOn ==
  /\ loop.at = "lua"
  /\ UNCHANGED <<loop, status, open, yields, callVars, ctlVars>>

NewTimerUncounted(m) ==
  /\ timerGo[m] = "none"
  /\ pendingTimers' = pendingTimers \cup {m}
  /\ UNCHANGED <<threadWg, cancelled>>
NewTimer(m) ==
  /\ timerGo[m] = "none"
  /\ pendingTimers' = pendingTimers \cup {m}
  /\ threadWg' = threadWg + 1
  /\ UNCHANGED cancelled

\* golapis.timer.at(0, f): no goroutine waits, so nothing can cancel it
TimerAtZero(m) ==
  /\ LuaGoesOn
  /\ NewTimer(m)
  /\ timerGo' = [timerGo EXCEPT ![m] = "gone"]
  /\ PostOrSpawn(FireEvent(m, FALSE))

\* golapis.timer.at(delay, f) with delay > 0
TimerAt(m) ==
  /\ LuaGoesOn
  /\ NewTimer(m)
  /\ timerGo' = [timerGo EXCEPT ![m] = "armed"]
  /\ UNCHANGED <<eventChan, posting>>

\* golapis.debug.cancel_timers()
CancelTimers ==
  /\ LuaGoesOn
  /\ cancelled' = cancelled \cup pendingTimers
  /\ UNCHANGED <<eventChan, posting, pendingTimers, timerGo, threadWg>>

\* The thread returns or fails ("dead"), or calls golapis.exit ("exited").
LuaEnds(t, how) ==
  /\ loop.at = "lua" /\ loop.task = t
  /\ status' = [status EXCEPT ![t] = how]
  /\ loop' = IF loop.via = "resume" THEN AfterResume(t)
             ELSE At("close", t, loop.via)
  /\ UNCHANGED <<eventChan, posting, timerVars, threadWg, open, yields,
                 callVars, ctlVars>>

-----------------------------------------------------------------------------
(* Handlers: once the thread is over.  A Run handler closes the thread and *)
(* then responds; the handler of a resume responds and then closes.        *)

\* thread.close(), which does nothing the second time
CloseThread ==
  /\ loop.at = "close"
  /\ LET next == IF loop.via = "run" THEN At("reply", loop.task, "run") ELSE Idle
     IN  IF loop.task \in open THEN Done(1, next)
                               ELSE loop' = next /\ UNCHANGED threadWg
  /\ open' = open \ {loop.task}
  /\ UNCHANGED <<eventChan, posting, timerVars, status, yields, callVars, ctlVars>>

\* a send on the caller's channel: it blocks while the channel is full
Reply ==
  /\ loop.at = "reply"
  /\ responseChan[loop.task] = 0
  /\ responseChan' = [responseChan EXCEPT ![loop.task] = 1]
  /\ loop' = IF loop.via = "run" THEN Idle ELSE At("close", loop.task, loop.via)
  /\ UNCHANGED <<eventChan, posting, timerVars, threadVars, caller, ctlVars>>

-----------------------------------------------------------------------------
(* The goroutine that owns the state.                                      *)

Launch ==
  /\ stopping' = FALSE
  /\ starts' = starts + 1
  /\ loop' = Idle
  /\ ctl' = "up"
  /\ UNCHANGED <<eventChan, posting, timerVars, threadVars, callVars, waited, dropped>>

Start == ctl = "new" /\ Launch

\* Start after Stop
Restart == ctl = "stopped" /\ starts < MaxStarts /\ Launch

InFlight(c) == caller[c] \in {"calling", "waiting"}

WaitReturns ==
  /\ ctl = "up"
  /\ threadWg = 0
  /\ waited' = \A c \in Callers : ~InFlight(c)
  /\ UNCHANGED <<eventChan, posting, loop, timerVars, threadVars, callVars,
                 stopping, ctl, starts, dropped>>

StopBegins ==
  /\ ctl = "up"
  /\ stopping' = TRUE
  /\ ctl' = "cancelling"
  /\ UNCHANGED <<eventChan, posting, loop, timerVars, threadVars, callVars,
                 starts, waited, dropped>>

\* CancelAllTimers; the connection pools that are drained next are TcpPool's
StopCancels ==
  /\ ctl = "cancelling"
  /\ cancelled' = cancelled \cup pendingTimers
  /\ ctl' = "sending"
  /\ UNCHANGED <<eventChan, posting, loop, pendingTimers, timerGo, threadVars,
                 callVars, stopping, starts, waited, dropped>>

StopSends ==
  /\ ctl = "sending"
  /\ Send(StopEvent)
  /\ ctl' = "sent"
  /\ UNCHANGED <<posting, loop, timerVars, threadVars, callVars,
                 stopping, starts, waited, dropped>>

StopReturns ==
  /\ ctl = "acked"
  /\ ctl' = "stopped"
  /\ UNCHANGED <<eventChan, posting, loop, timerVars, threadVars, callVars,
                 stopping, starts, waited, dropped>>

\* Close: from here on the Lua state is gone
Close ==
  /\ ctl = "stopped"
  /\ ctl' = "closed"
  /\ UNCHANGED <<eventChan, posting, loop, timerVars, threadVars, callVars,
                 stopping, starts, waited, dropped>>

-----------------------------------------------------------------------------
(* Specifications.  A process starts its state once; a program that embeds *)
(* golapis may stop and start it again.  A panic ends the process.         *)

LuaStep ==
  \/ \E t \in Tasks : SleepZero(t) \/ StartAsync(t)
  \/ \E m \in Timers : TimerAtZero(m) \/ TimerAt(m)
  \/ CancelTimers
  \/ \E t \in Tasks, how \in {"dead", "exited"} : LuaEnds(t, how)

LoopStep ==
  \/ \E c \in Callers : HandleRunFails(c) \/ HandleRun(c)
  \/ \E t \in Tasks : HandleResumeThread(t)
  \/ \E m \in Timers : HandleTimerFire(m)
  \/ HandleStop
  \/ LuaStep
  \/ CloseThread
  \/ Reply

CallerStep(c) == Call(c) \/ SendRun(c) \/ CallReturns(c)
TimerStep(m)  == TimerExpires(m) \/ TimerCancelled(m)

OwnerStep ==
  \/ Start \/ WaitReturns
  \/ StopBegins \/ StopCancels \/ StopSends \/ StopReturns \/ Close

ProcessNext ==
  /\ loop.at # "panic"
  /\ \/ LoopStep
     \/ \E c \in Callers : CallerStep(c)
     \/ \E m \in Timers : TimerStep(m)
     \/ \E ev \in posting : Post(ev)
     \/ OwnerStep

EmbedNext == ProcessNext \/ (loop.at # "panic" /\ Restart)

(* The loop, every goroutine and Stop go on while they can; operations end *)
(* (each has a timeout or an answer) and delays pass.  Nothing says that   *)
(* a call is made, that Wait is called or that the state is stopped.       *)
Fairness ==
  /\ WF_vars(Start)
  /\ WF_vars(LoopStep)
  /\ \A c \in Callers : WF_vars(SendRun(c)) /\ WF_vars(CallReturns(c))
  /\ \A m \in Timers : WF_vars(TimerStep(m))
  /\ \A ev \in Events : WF_vars(Post(ev))
  /\ WF_vars(StopCancels) /\ WF_vars(StopSends) /\ WF_vars(StopReturns)

ProcessSpec     == Init /\ [][ProcessNext]_vars
EmbedSpec       == Init /\ [][EmbedNext]_vars
FairProcessSpec == ProcessSpec /\ Fairness

-----------------------------------------------------------------------------
(* Properties.                                                             *)

TypeOK ==
  /\ stopping \in BOOLEAN
  /\ eventChan \in Seq(Events) /\ Len(eventChan) <= ChanCap
  /\ posting \subseteq Events
  /\ pendingTimers \subseteq Timers
  /\ timerGo \in [Timers -> {"none", "armed", "gone"}]
  /\ cancelled \subseteq Timers
  /\ threadWg \in Nat
  /\ status \in [Tasks -> {"none", "running", "yielded", "dead", "exited"}]
  /\ open \subseteq Tasks
  /\ yields \in [Tasks -> 0..MaxYields]
  /\ loop \in LoopStates
  /\ caller \in [Callers -> {"idle", "calling", "waiting", "returned"}]
  /\ responseChan \in [Callers -> 0..1]
  /\ ctl \in {"new", "up", "cancelling", "sending", "sent", "acked",
              "stopped", "closed"}
  /\ starts \in 0..MaxStarts
  /\ waited \in BOOLEAN
  /\ dropped \subseteq Timers

Queued   == {eventChan[i] : i \in DOMAIN eventChan}
UnderWay == posting \cup Queued

\* No event is on its way twice, as it would be if the non-blocking send of
\* sleep(0) and its goroutine fallback both posted it.
NoDuplicates ==
  /\ \A i, j \in DOMAIN eventChan : eventChan[i] = eventChan[j] => i = j
  /\ posting \cap Queued = {}

\* A thread that has yielded has exactly one resume event on its way, and no
\* other thread has any: no wake-up is lost, none reaches a thread that is
\* over or waits for something else (golapis_sleep, handleResumeThread).
OneWakeup ==
  /\ NoDuplicates
  /\ \A t \in Tasks : ResumeEvent(t) \in UnderWay <=> status[t] = "yielded"

Firing(m) == \E p \in BOOLEAN : FireEvent(m, p) \in UnderWay

FiresOnce(m) ==
  /\ ~(FireEvent(m, TRUE) \in UnderWay /\ FireEvent(m, FALSE) \in UnderWay)
  /\ timerGo[m] = "armed" => ~Firing(m)
  /\ timerGo[m] = "armed" \/ Firing(m) => m \in pendingTimers \cup dropped
  /\ m \in pendingTimers =>
       timerGo[m] = "armed" \/ Firing(m) \/ (stopping /\ m \in cancelled)

\* A timer fires at most once: it has an armed goroutine or a fire event on
\* its way, never both, and never a premature one beside a normal one.  A
\* pending timer has one of the two unless a hard stop has cancelled it
\* (golapis_timer_at, CancelAllTimers, handleTimerFire).
OneFiring == \A m \in Timers : FiresOnce(m)

\* No event is lost and none is posted twice, whatever is stopped and started
\* meanwhile: wake-ups and firings are exact (the sends with a default branch
\* in golapis_sleep and golapis_timer_at, and their goroutines).
EventsExact == OneWakeup /\ OneFiring

Over(t) == status[t] \in {"none", "dead", "exited"}

\* A call gets one response, and only when its thread is over: while one is
\* buffered or after it was received nothing of the call is left that could
\* send another, so the loop never blocks on a response channel.
OneResponse ==
  \A c \in Callers :
    /\ responseChan[c] > 0 => caller[c] = "waiting"
    /\ responseChan[c] > 0 \/ caller[c] = "returned" =>
         /\ Over(c)
         /\ {RunEvent(c), ResumeEvent(c)} \cap UnderWay = {}
         /\ loop.task = c => loop.at = "close"
    /\ loop.at = "reply" /\ loop.task = c =>
         caller[c] = "waiting" /\ responseChan[c] = 0

\* threadWg counts what Wait must wait for: threads not yet closed and timers
\* that have not fired (newThread, golapis_timer_at, close, EventStop).
WorkCounted == threadWg = Cardinality(open) + Cardinality(pendingTimers)

\* "Wait blocks until all active threads have completed execution": when it
\* returned with no call under way, no thread, timer or event is left, so
\* the Stop that follows in main and in StartHTTPServer cuts nothing short.
WaitMeansDone ==
  waited =>
    /\ open = {} /\ pendingTimers = {}
    /\ UnderWay \subseteq {StopEvent}
    /\ \A m \in Timers : timerGo[m] # "armed"

\* Wait returns neither too early nor too late: it counts exactly what it has to
\* wait for, and when it returned nothing of that is left.
WaitExact == WorkCounted /\ WaitMeansDone

\* "Stop shuts down the event loop, cleaning up timers without firing
\* callbacks": the callback of a timer EventStop has cleaned up never runs.
DroppedNeverFires == \A m \in dropped : status[m] = "none"

\* When Stop has returned the event loop is gone, so Close may free the Lua
\* state: no handler runs then, and none starts later without a Start.
StoppedIsQuiet == ctl \in {"stopped", "closed"} => loop = Down

\* Every call is answered unless the state is stopped.
CallsAnswered ==
  \A c \in Callers :
    caller[c] = "calling" ~> (caller[c] = "returned" \/ stopping)

\* Stop returns, whatever is queued, posted or running when it is called.
StopCompletes == (ctl = "cancelling") ~> (ctl = "stopped")

\* Every timer fires or is cleaned up by Stop: none stays pending, not even
\* one whose goroutine left silently during the stop.
TimersResolve ==
  \A m \in Timers : m \in pendingTimers ~> m \notin pendingTimers

\* Nothing that Stop or the clock has to end goes on for ever.
EndsReached == StopCompletes /\ TimersResolve

-----------------------------------------------------------------------------
(* The promise of TaskService, kept by a process that never restarts.      *)

Answered == {c \in Callers : responseChan[c] > 0 \/ caller[c] = "returned"}

\* the code of a call failed to load: it ended without a thread
Refused(c) == status[c] = "none"
                /\ (c \in Answered \/ loop = At("reply", c, "run"))

CallPhase(c) ==
  IF Refused(c) THEN "finished" ELSE IF InFlight(c) THEN "accepted" ELSE "idle"

TimerPhase(m) ==
  IF m \in dropped THEN "dropped"
  ELSE IF m \in pendingTimers THEN "accepted" ELSE "idle"

Phase(t) ==
  CASE status[t] = "running" -> "running"
    [] status[t] = "yielded" -> "suspended"
    [] status[t] \in {"dead", "exited"} -> "finished"
    [] OTHER -> IF t \in Callers THEN CallPhase(t) ELSE TimerPhase(t)

Promise == INSTANCE TaskService WITH
             Calls    <- Callers,
             phase    <- [t \in Tasks |-> Phase(t)],
             answered <- Answered

\* Every step of the loop, of its callers and of its timers is a step of
\* TaskService or changes nothing there.
KeepsPromise == Promise!Spec
=============================================================================
