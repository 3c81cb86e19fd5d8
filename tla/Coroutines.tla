----------------------------- MODULE Coroutines -----------------------------
(***************************************************************************)
(* The coroutines of one LuaThread (lua_thread.go) and the functions of    *)
(* the coroutine module that Lua code sees (bindings.go).  Lua code does   *)
(* not resume a coroutine itself: it records what it wants in curCo,       *)
(* parent and coOp and yields to the scheduler in resumeInternal, which    *)
(* calls lua_resume on the next coroutine.  Asynchronous calls and exit    *)
(* yield to the same scheduler, which tells them apart by coOp and exited. *)
(*                                                                         *)
(* Lua code is a free choice between these calls; a value is represented   *)
(* by what it is: the arguments of a resume, the result of a coroutine,    *)
(* the result of an asynchronous call.                                     *)
(***************************************************************************)
EXTENDS Naturals, FiniteSets

CONSTANTS
  Cos,       \* coroutines of the thread
  Entry,     \* the one the thread was created with
  NoCo,      \* nil
  MaxWakes   \* bound on the resume events under way

ASSUME CosAssumption == /\ Entry \in Cos
                        /\ NoCo \notin Cos
                        /\ IsFiniteSet(Cos)
ASSUME WakesAssumption == MaxWakes \in Nat \ {0}

VARIABLES
  known,     \* keys of coCtxByState
  coRef,     \* coroutines whose coRef is held in the Lua registry
  parent,    \* of each coCtx
  coStatus,  \* status of each coCtx; "none" before it is created
  curCo, coOp, status, exited,   \* fields of LuaThread
  closed,    \* thread.co is nil
  running,   \* the coroutine of the last lua_resume
  lua,       \* where control is: off the thread, in Lua code, in the scheduler
             \* with what lua_resume returned, or back in the handler
  asked,     \* what each coroutine last asked for, which it waits for
  got,       \* what the last lua_resume handed over
  wakes      \* resume events of this thread that are under way

thread == <<curCo, coOp, status, exited, closed>>
mail   == <<asked, got>>
vars   == <<known, coRef, parent, coStatus, thread, running, lua, mail, wakes>>

CoStatuses == {"none", "suspended", "running", "normal", "dead"}
Message    == [kind : {"begin", "async", "resume", "yield", "result", "args", "wake",
                       "exit"},
               co   : Cos \cup {NoCo}]
Says(k, c) == [kind |-> k, co |-> c]

Init ==
  /\ known = {Entry}
  /\ coRef = {}
  /\ parent = [c \in Cos |-> NoCo]
  /\ coStatus = [c \in Cos |-> IF c = Entry THEN "suspended" ELSE "none"]
  /\ curCo = Entry
  /\ coOp = "nop"
  /\ status = "created"
  /\ exited = FALSE
  /\ closed = FALSE
  /\ running = NoCo
  /\ lua = "off"
  /\ asked = [c \in Cos |-> Says("begin", NoCo)]
  /\ got = Says("wake", NoCo)
  /\ wakes = 0

----------------------------------------------------------------------------
(* Calls of Lua code *)

InLua == lua = "run"

\* lua_yield succeeds, or raises an error that the code may catch: a C
\* function such as table.sort that called Lua code cannot be yielded across
Yields == lua' = "yield"
Raises == lua' = lua

CreateCo(c) ==
  /\ InLua
  /\ coStatus[c] = "none"
  /\ coStatus' = [coStatus EXCEPT ![c] = "suspended"]
  /\ known' = known \cup {c}
  /\ coRef' = coRef \cup {c}
  /\ UNCHANGED <<parent, thread, running, lua, mail, wakes>>

\* Slip: the status of the coroutine is not looked at.
ResumableAny(c) == c \in known

Resumable(c) == c \in known /\ coStatus[c] = "suspended"

Adopt(c) == parent' = [parent EXCEPT ![c] = curCo]

ResumeCo(c) ==
  /\ InLua
  /\ Resumable(c)
  /\ Adopt(c)
  /\ coStatus' = [coStatus EXCEPT ![curCo] = "normal"]
  /\ curCo' = c
  /\ coOp' = "userResume"
  /\ UNCHANGED <<known, coRef, status, exited, closed, running, got, wakes>>

YieldCo ==
  /\ InLua
  /\ running # Entry
  /\ coOp' = "userYield"
  /\ UNCHANGED <<known, coRef, parent, coStatus, curCo, status, exited, closed,
                 running, got, wakes>>

Exit ==
  /\ InLua
  /\ exited' = TRUE
  /\ UNCHANGED <<known, coRef, parent, coStatus, curCo, coOp, status, closed,
                 running, got, wakes>>

Asks(k, c) == asked' = [asked EXCEPT ![running] = Says(k, c)]

CallResume(c) == ResumeCo(c) /\ Yields /\ Asks("resume", c)
CallYield     == YieldCo /\ Yields /\ Asks("yield", NoCo)
CallExit      == Exit /\ Yields /\ Asks("exit", NoCo)

\* the same calls made inside a C function
ResumeInC(c) == ResumeCo(c) /\ Raises /\ UNCHANGED asked
YieldInC     == YieldCo /\ Raises /\ UNCHANGED asked
ExitInC      == Exit /\ Raises /\ UNCHANGED asked

\* sleep, and every other call that ends with a resume event
CallAsync ==
  /\ InLua
  /\ wakes < MaxWakes
  /\ wakes' = wakes + 1
  /\ Yields
  /\ Asks("async", NoCo)
  /\ UNCHANGED <<known, coRef, parent, coStatus, thread, running, got>>

\* the function of the coroutine returns or raises an error
Return(how) ==
  /\ InLua
  /\ lua' = how
  /\ UNCHANGED <<known, coRef, parent, coStatus, thread, running, mail, wakes>>

\* coroutine.status
LuaStatus(c) ==
  IF c \notin known THEN "dead"
  ELSE IF c = curCo /\ coStatus[c] # "dead" THEN "running"
  ELSE coStatus[c]

----------------------------------------------------------------------------
(* The scheduler in resumeInternal *)

\* to the top of the loop with another curCo, and into lua_resume
SwitchTo(c, says, left) ==
  /\ curCo' = c
  /\ running' = c
  /\ got' = says
  /\ coStatus' = [left EXCEPT ![c] = "running"]
  /\ status' = "running"
  /\ lua' = "run"

\* Slip: nobody asks whether there is a parent.
ParentlessNever(c) == FALSE

Finishes == lua \in {"ok", "error"}
Parentless(c) == parent[c] = NoCo
Ended == [coStatus EXCEPT ![running] = "dead"]

\* the entry coroutine ended, and the thread with it
DoneEntry ==
  /\ Finishes
  /\ Parentless(running)
  /\ coStatus' = Ended
  /\ status' = "dead"
  /\ lua' = "back"
  /\ UNCHANGED <<known, coRef, parent, curCo, coOp, exited, closed, running, mail, wakes>>

\* Slip: the registry reference is not given back.
ForgetNoRef(c) == known' = known \ {c} /\ UNCHANGED coRef

\* cleanupCoroutine
Forget(c) ==
  /\ coRef' = coRef \ {c}
  /\ known' = known \ {c}

DoneChild ==
  /\ Finishes
  /\ ~Parentless(running)
  /\ SwitchTo(parent[running], Says("result", running), Ended)
  /\ Forget(running)
  /\ UNCHANGED <<parent, coOp, exited, closed, asked, wakes>>

ExitYield ==
  /\ lua = "yield"
  /\ exited
  /\ status' = "exited"
  /\ lua' = "back"
  /\ UNCHANGED <<known, coRef, parent, coStatus, curCo, coOp, exited, closed,
                 running, mail, wakes>>

\* Slip: coOp is not reset.
ServedKeepsOp(op) ==
  /\ lua = "yield"
  /\ ~exited
  /\ coOp = op
  /\ UNCHANGED <<known, coRef, parent, coOp, exited, closed, asked, wakes>>

Served(op) ==
  /\ lua = "yield"
  /\ ~exited
  /\ coOp = op
  /\ coOp' = "nop"
  /\ UNCHANGED <<known, coRef, parent, exited, closed, asked, wakes>>

\* resumeInternal returns an error and leaves the thread's status alone
GiveUp == lua' = "back" /\ UNCHANGED <<coStatus, curCo, status, running, got>>

ServeResume ==
  /\ Served("userResume")
  /\ IF parent[curCo] # running
     THEN GiveUp
     ELSE SwitchTo(curCo, Says("args", running), [coStatus EXCEPT ![running] = "normal"])

\* Slip: the coroutine that yields keeps its status.
ServeYieldStays ==
  /\ Served("userYield")
  /\ IF Parentless(running)
     THEN GiveUp
     ELSE SwitchTo(parent[running], Says("result", running), coStatus)

ServeYield ==
  /\ Served("userYield")
  /\ IF Parentless(running)
     THEN GiveUp
     ELSE SwitchTo(parent[running], Says("result", running),
                   [coStatus EXCEPT ![running] = "suspended"])

ServeAsync ==
  /\ Served("nop")
  /\ coStatus' = [coStatus EXCEPT ![running] = "suspended"]
  /\ status' = "yielded"
  /\ lua' = "back"
  /\ UNCHANGED <<curCo, running, got>>

----------------------------------------------------------------------------
(* The handlers around resumeInternal *)

IsOver == status \in {"dead", "exited"}

\* the thread is resumed for the first time
Begin ==
  /\ lua = "off"
  /\ status = "created"
  /\ SwitchTo(curCo, Says("wake", NoCo), coStatus)
  /\ UNCHANGED <<known, coRef, parent, coOp, exited, closed, asked, wakes>>

\* a resume event; a thread that is over refuses it
Wake ==
  /\ lua = "off"
  /\ wakes > 0
  /\ wakes' = wakes - 1
  /\ IF IsOver
     THEN UNCHANGED <<coStatus, curCo, status, running, lua, got>>
     ELSE IF closed   \* lua_resume on a coroutine that was released
     THEN /\ lua' = "zombie"
          /\ UNCHANGED <<coStatus, curCo, status, running, got>>
     ELSE SwitchTo(curCo, Says("wake", NoCo), coStatus)
  /\ UNCHANGED <<known, coRef, parent, coOp, exited, closed, asked>>

\* the handler waits for the next event
Park ==
  /\ lua = "back"
  /\ status = "yielded"
  /\ lua' = "off"
  /\ UNCHANGED <<known, coRef, parent, coStatus, thread, running, mail, wakes>>

\* close, after an error or when the thread is over
Close ==
  /\ lua = "back"
  /\ status # "yielded"
  /\ closed' = TRUE
  /\ coRef' = coRef \ known
  /\ known' = {}
  /\ lua' = "off"
  /\ UNCHANGED <<parent, coStatus, curCo, coOp, status, exited, running, mail, wakes>>

----------------------------------------------------------------------------
LuaStep ==
  \/ \E c \in Cos : CreateCo(c) \/ CallResume(c)
  \/ CallYield \/ CallExit \/ CallAsync
  \/ \E how \in {"ok", "error"} : Return(how)

Scheduler == DoneEntry \/ DoneChild \/ ExitYield \/ ServeResume \/ ServeYield \/ ServeAsync
Handler   == Begin \/ Wake \/ Park \/ Close

Next == LuaStep \/ Scheduler \/ Handler
Spec == Init /\ [][Next]_vars

\* Lua code that also tries to yield where Lua cannot yield
InC == YieldInC \/ ExitInC \/ \E c \in Cos : ResumeInC(c)

NextInC == Next \/ InC
SpecInC == Init /\ [][NextInC]_vars

----------------------------------------------------------------------------
(* Properties *)

\* Every variable has its type.
TypeOK ==
  /\ known \subseteq Cos
  /\ coRef \subseteq Cos
  /\ parent \in [Cos -> Cos \cup {NoCo}]
  /\ coStatus \in [Cos -> CoStatuses]
  /\ curCo \in Cos
  /\ coOp \in {"nop", "userResume", "userYield"}
  /\ status \in {"created", "running", "yielded", "dead", "exited"}
  /\ exited \in BOOLEAN
  /\ closed \in BOOLEAN
  /\ running \in Cos \cup {NoCo}
  /\ lua \in {"off", "run", "yield", "ok", "error", "back", "zombie"}
  /\ asked \in [Cos -> Message]
  /\ got \in Message
  /\ wakes \in 0..MaxWakes

\* The result of a coroutine, the arguments of a resume and the result of an
\* asynchronous call go to the coroutine that waits for just that, however
\* resumes, yields and asynchronous calls are nested (curCo and parent in
\* resumeInternal pick the receiver).
Fits(c, message) ==
  CASE asked[c].kind = "async"  -> message.kind = "wake"
    [] asked[c].kind = "resume" -> message = Says("result", asked[c].co)
    [] asked[c].kind = "begin" /\ c = Entry -> message.kind = "wake"
    [] OTHER                    -> message = Says("args", parent[c])

AnswersFit == InLua => Fits(running, got)

\* A suspended thread has one resume event under way, and no other thread has
\* any: a thread neither hangs nor is woken out of a later wait.
OneWake ==
  wakes = IF status = "yielded" \/ (lua = "yield" /\ asked[running].kind = "async")
          THEN 1 ELSE 0

\* The registry holds a reference for each coroutine that was created and has
\* not ended, and none once the thread is closed.
RefsExact == coRef = known \ {Entry} /\ (closed => known = {})

\* A thread is closed only when its code has ended, so that a resume event
\* that comes too late is refused.
EndsProperly == closed => IsOver

\* So close gives back what is left, once and not too early.
ClosesCleanly == RefsExact /\ EndsProperly

\* close is final: no resume event continues a closed thread (the check
\* "cannot resume closed thread" in resumeInternal).
ClosedStaysClosed == lua # "zombie"

\* golapis.sleep returns when its resume event has arrived, not before.
SleepWaits == InLua /\ asked[running].kind = "async" => got.kind = "wake"

\* Who waits for whom, from the coroutine that runs down to the entry.
Ancestors ==
  LET up[n \in 0..Cardinality(Cos)] ==
        IF n = 0 THEN curCo
        ELSE IF up[n - 1] = NoCo THEN NoCo ELSE parent[up[n - 1]]
  IN  up

Depth == Cardinality({n \in DOMAIN Ancestors : Ancestors[n] # NoCo})
Stack == [i \in 1..Depth |-> Ancestors[Depth - i]]

Mode ==
  IF IsOver THEN "over"
  ELSE IF status \in {"created", "yielded"} THEN "waiting"
  ELSE "running"

\* The scheduler, the tree of parents and the statuses implement a stack of
\* coroutines (CoroutineStack).
Promise == INSTANCE CoroutineStack WITH
  stack <- Stack,
  idle  <- {c \in Cos \ {Stack[i] : i \in DOMAIN Stack} : coStatus[c] = "suspended"},
  used  <- {c \in Cos : coStatus[c] # "none"},
  mode  <- Mode

KeepsPromise == Promise!Spec

\* coroutine.status tells Lua code what the stack says.
StatusSeen ==
  InLua => \A c \in Cos : coStatus[c] # "none" =>
    LuaStatus(c) = IF c = running THEN "running"
                   ELSE IF \E i \in DOMAIN Stack : Stack[i] = c THEN "normal"
                   ELSE IF coStatus[c] = "dead" THEN "dead" ELSE "suspended"
=============================================================================
