------------------------- MODULE Coroutines_proofs -------------------------
(***************************************************************************)
(* Proofs about Coroutines, for any finite set of coroutines: answers go   *)
(* to the coroutine that waits for them, a suspended thread has one resume *)
(* event, and a thread is closed only when it is over.  The inductive      *)
(* invariant ties each request that Lua code recorded to the fields the    *)
(* scheduler reads, and each coroutine that waits in resume to the one it  *)
(* waits for.                                                              *)
(*                                                                         *)
(* The second half is about the coroutines as a whole: those that wait for *)
(* one another form a chain, which is the stack of CoroutineStack, and the *)
(* scheduler implements that stack.                                        *)
(***************************************************************************)
EXTENDS Coroutines, Sequences, TLAPS, FiniteSetTheorems, WellFoundedInduction, SequenceTheorems

-----------------------------------------------------------------------------
(* The inductive invariant.                                                *)

\* a coroutine that can be resumed has not begun or waits in yield
Idle(c) == c # Entry /\ asked[c].kind \in {"begin", "yield"}

\* What the scheduler finds after lua_yield: the fields agree with what the
\* running coroutine asked for.
WantsResume ==
  /\ coOp = "userResume" /\ ~exited
  /\ curCo # running /\ Idle(curCo)
  /\ coStatus[curCo] = "suspended" /\ coStatus[running] = "normal"
  /\ parent[curCo] = running /\ asked[running] = Says("resume", curCo)

WantsYield == /\ coOp = "userYield" /\ ~exited
              /\ running # Entry /\ asked[running].kind = "yield"
WantsExit  == coOp = "nop" /\ exited /\ asked[running].kind = "exit"
WantsAsync == coOp = "nop" /\ ~exited /\ asked[running].kind = "async"

Current == running = curCo /\ coStatus[curCo] = "running"

Requests == lua = "yield" =>
  WantsResume \/ (Current /\ (WantsYield \/ WantsExit \/ WantsAsync))

Executing == lua \in {"run", "yield", "ok", "error"}

\* Where control is, against the status of the thread.
Control ==
  /\ lua # "zombie"
  /\ Executing => status = "running" /\ running \in Cos
  /\ lua \in {"run", "ok", "error"} => Current /\ coOp = "nop" /\ ~exited
  /\ lua = "off" => (closed <=> IsOver)
  /\ lua # "off" => ~closed
  /\ lua \in {"off", "back"} => status # "running"
  /\ status \in {"created", "yielded"} =>
       /\ lua \in {"off", "back"}
       /\ coOp = "nop" /\ ~exited
       /\ coStatus[curCo] = "suspended"
  /\ status = "created" => lua = "off" /\ curCo = Entry /\ asked[Entry].kind = "begin"
  /\ status = "yielded" => asked[curCo].kind = "async"

\* The coroutines between curCo and the entry: each waits for the next.
Waits == ~IsOver =>
  /\ \A c \in Cos \ {Entry} : c = curCo \/ coStatus[c] = "normal" =>
       /\ parent[c] \in Cos
       /\ coStatus[parent[c]] = "normal"
       /\ asked[parent[c]] = Says("resume", c)
  /\ \A c \in Cos \ {curCo} :
       /\ coStatus[c] # "running"
       /\ coStatus[c] \in {"none", "suspended"} => Idle(c)
  /\ \A c \in Cos : /\ c \in known <=> coStatus[c] \in {"suspended", "running", "normal"}
                    /\ coStatus[c] = "none" => asked[c].kind = "begin"
  /\ parent[Entry] = NoCo
  /\ Entry \in known

IInv == TypeOK /\ Control /\ Requests /\ Waits /\ OneWake /\ RefsExact /\ AnswersFit

-----------------------------------------------------------------------------
(* Each action keeps the invariant.                                        *)

USE CosAssumption, WakesAssumption
USE DEF CoStatuses, Says, thread, mail, Executing, IsOver, InLua

LEMMA MessageType == ASSUME NEW k \in {"begin", "async", "resume", "yield", "result",
                                       "args", "wake", "exit"},
                            NEW c \in Cos \cup {NoCo}
                     PROVE  Says(k, c) \in Message
  BY DEF Message

LEMMA InitHolds == Init => IInv
<1> SUFFICES ASSUME Init PROVE IInv
  OBVIOUS
<1>1. TypeOK
  <2>1. got \in Message /\ \A c \in Cos : asked[c] \in Message
    BY MessageType DEF Init
  <2>2. wakes \in 0..MaxWakes
    BY DEF Init
  <2> QED BY <2>1, <2>2 DEF Init, TypeOK
<1>2. Control
  <2>1. /\ lua = "off" /\ status = "created" /\ ~closed /\ ~exited /\ coOp = "nop"
        /\ curCo = Entry
    BY DEF Init
  <2>2. coStatus[Entry] = "suspended"
    BY DEF Init
  <2>3. asked[Entry].kind = "begin"
    BY DEF Init
  <2> QED BY <2>1, <2>2, <2>3 DEF Control
<1>4. Requests /\ AnswersFit
  BY DEF Init, Requests, AnswersFit
<1>5. OneWake
  BY DEF Init, OneWake
<1>6. RefsExact
  BY DEF Init, RefsExact
<1>3. Waits
  BY DEF Init, Waits, Idle
<1> QED BY <1>1, <1>2, <1>3, <1>4, <1>5, <1>6 DEF IInv

LEMMA CreateCoKeeps == ASSUME IInv, NEW c \in Cos, CreateCo(c) PROVE IInv'
<1> USE DEF CreateCo
<1>1. TypeOK'
  BY DEF IInv, TypeOK
<1>2. Control'
  BY DEF IInv, Control, Current
<1>3. Requests'
  BY DEF Requests
<1>4. Waits'
  BY DEF IInv, TypeOK, Waits, Idle
<1>5. OneWake'
  BY DEF IInv, OneWake
<1>6. RefsExact'
  BY DEF IInv, TypeOK, Control, Requests, WantsResume, WantsYield, WantsExit,
       WantsAsync, Current, Waits, RefsExact
<1>7. AnswersFit'
  BY DEF IInv, AnswersFit, Fits
<1> QED BY <1>1, <1>2, <1>3, <1>4, <1>5, <1>6, <1>7 DEF IInv

LEMMA CallResumeKeeps == ASSUME IInv, NEW c \in Cos, CallResume(c) PROVE IInv'
<1> USE DEF CallResume, ResumeCo, Resumable, Adopt, Asks, Yields
<1>1. TypeOK'
  BY MessageType DEF IInv, TypeOK
<1>2. Control'
  BY DEF IInv, Control
<1>3. Requests'
  BY DEF IInv, TypeOK, Control, Requests, WantsResume, Current, Waits, Idle
<1>4. Waits'
  BY DEF IInv, TypeOK, Control, Current, Waits, Idle
<1>5. OneWake'
  BY DEF IInv, TypeOK, Control, OneWake
<1>6. RefsExact'
  BY DEF IInv, RefsExact
<1>7. AnswersFit'
  BY DEF AnswersFit
<1> QED BY <1>1, <1>2, <1>3, <1>4, <1>5, <1>6, <1>7 DEF IInv

LEMMA CallYieldKeeps == ASSUME IInv, CallYield PROVE IInv'
<1> USE DEF CallYield, YieldCo, Asks, Yields
<1>1. TypeOK'
  BY MessageType DEF IInv, TypeOK
<1>2. Control'
  BY DEF IInv, Control
<1>3. Requests'
  BY DEF IInv, TypeOK, Control, Requests, WantsYield, Current
<1>4. Waits'
  BY DEF IInv, Control, Current, Waits, Idle
<1>5. OneWake'
  BY DEF IInv, TypeOK, Control, OneWake
<1>6. RefsExact'
  BY DEF IInv, RefsExact
<1>7. AnswersFit'
  BY DEF AnswersFit
<1> QED BY <1>1, <1>2, <1>3, <1>4, <1>5, <1>6, <1>7 DEF IInv

LEMMA CallExitKeeps == ASSUME IInv, CallExit PROVE IInv'
<1> USE DEF CallExit, Exit, Asks, Yields
<1>1. TypeOK'
  BY MessageType DEF IInv, TypeOK
<1>2. Control'
  BY DEF IInv, Control
<1>3. Requests'
  BY DEF IInv, TypeOK, Control, Requests, WantsExit, Current
<1>4. Waits'
  BY DEF IInv, Control, Current, Waits, Idle
<1>5. OneWake'
  BY DEF IInv, TypeOK, Control, OneWake
<1>6. RefsExact'
  BY DEF IInv, RefsExact
<1>7. AnswersFit'
  BY DEF AnswersFit
<1> QED BY <1>1, <1>2, <1>3, <1>4, <1>5, <1>6, <1>7 DEF IInv

LEMMA CallAsyncKeeps == ASSUME IInv, CallAsync PROVE IInv'
<1> USE DEF CallAsync, Asks, Yields
<1>1. TypeOK'
  BY MessageType DEF IInv, TypeOK, Control
<1>2. Control'
  BY DEF IInv, Control
<1>3. Requests'
  BY DEF IInv, TypeOK, Control, Requests, WantsAsync, Current
<1>4. Waits'
  BY DEF IInv, Control, Current, Waits, Idle
<1>5. OneWake'
  BY DEF IInv, TypeOK, Control, OneWake
<1>6. RefsExact'
  BY DEF IInv, RefsExact
<1>7. AnswersFit'
  BY DEF AnswersFit
<1> QED BY <1>1, <1>2, <1>3, <1>4, <1>5, <1>6, <1>7 DEF IInv

LEMMA ReturnKeeps == ASSUME IInv, NEW how \in {"ok", "error"}, Return(how) PROVE IInv'
<1> USE DEF Return
<1>1. TypeOK'
  BY DEF IInv, TypeOK
<1>2. Control'
  BY DEF IInv, Control, Current
<1>3. Requests'
  BY DEF Requests
<1>4. Waits'
  BY DEF IInv, Waits, Idle
<1>5. OneWake'
  BY DEF IInv, OneWake
<1>6. RefsExact'
  BY DEF IInv, RefsExact
<1>7. AnswersFit'
  BY DEF AnswersFit
<1> QED BY <1>1, <1>2, <1>3, <1>4, <1>5, <1>6, <1>7 DEF IInv

LEMMA DoneEntryKeeps == ASSUME IInv, DoneEntry PROVE IInv'
<1> USE DEF DoneEntry, Finishes, Parentless, Ended
<1>1. TypeOK'
  BY DEF IInv, TypeOK
<1>2. Control'
  BY DEF IInv, Control
<1>3. Requests'
  BY DEF Requests
<1>4. Waits'
  BY DEF Waits
<1>5. OneWake'
  BY DEF IInv, Control, OneWake
<1>6. RefsExact'
  BY DEF IInv, RefsExact
<1>7. AnswersFit'
  BY DEF AnswersFit
<1> QED BY <1>1, <1>2, <1>3, <1>4, <1>5, <1>6, <1>7 DEF IInv

LEMMA DoneChildKeeps == ASSUME IInv, DoneChild PROVE IInv'
<1> USE DEF DoneChild, Finishes, Parentless, Ended, Forget, SwitchTo
<1>1. TypeOK'
  BY MessageType DEF IInv, TypeOK, Control
<1>2. Control'
  BY DEF IInv, TypeOK, Control, Current
<1>3. Requests'
  BY DEF Requests
<1>4. Waits'
  BY DEF IInv, TypeOK, Control, Requests, WantsResume, Current, Waits, Idle
<1>5. OneWake'
  BY DEF IInv, Control, OneWake
<1>6. RefsExact'
  BY DEF IInv, RefsExact
<1>7. AnswersFit'
  BY DEF IInv, Control, Requests, WantsResume, Current, Waits, AnswersFit, Fits
<1> QED BY <1>1, <1>2, <1>3, <1>4, <1>5, <1>6, <1>7 DEF IInv

LEMMA ExitYieldKeeps == ASSUME IInv, ExitYield PROVE IInv'
<1> USE DEF ExitYield
<1>1. TypeOK'
  BY DEF IInv, TypeOK
<1>2. Control'
  BY DEF IInv, TypeOK, Control, Requests, WantsResume, WantsYield, WantsExit,
       WantsAsync, Current, Waits
<1>3. Requests'
  BY DEF Requests
<1>4. Waits'
  BY DEF Waits
<1>5. OneWake'
  BY DEF IInv, Control, Requests, WantsResume, WantsYield, WantsExit, WantsAsync,
       OneWake
<1>6. RefsExact'
  BY DEF IInv, RefsExact
<1>7. AnswersFit'
  BY DEF AnswersFit
<1> QED BY <1>1, <1>2, <1>3, <1>4, <1>5, <1>6, <1>7 DEF IInv

LEMMA ServeResumeKeeps == ASSUME IInv, ServeResume PROVE IInv'
<1> USE DEF ServeResume, Served, GiveUp, SwitchTo
<1>1. TypeOK'
  BY MessageType DEF IInv, TypeOK
<1>2. Control'
  BY DEF IInv, TypeOK, Control, Requests, WantsResume, WantsYield, WantsExit,
       WantsAsync, Current
<1>3. Requests'
  BY DEF Requests
<1>4. Waits'
  BY DEF IInv, TypeOK, Control, Requests, WantsResume, Current, Waits, Idle
<1>5. OneWake'
  BY DEF IInv, Control, Requests, WantsResume, WantsYield, WantsExit, WantsAsync,
       OneWake
<1>6. RefsExact'
  BY DEF IInv, RefsExact
<1>7. AnswersFit'
  BY DEF IInv, Requests, WantsResume, WantsYield, WantsExit, WantsAsync, Idle,
       AnswersFit, Fits
<1> QED BY <1>1, <1>2, <1>3, <1>4, <1>5, <1>6, <1>7 DEF IInv

LEMMA ServeYieldKeeps == ASSUME IInv, ServeYield PROVE IInv'
<1> USE DEF ServeYield, Served, GiveUp, SwitchTo, Parentless
<1>a. /\ Current /\ ~exited /\ ~closed /\ status = "running" /\ wakes = 0
      /\ running # Entry /\ asked[running].kind = "yield"
  BY DEF IInv, Control, Requests, WantsResume, WantsYield, WantsExit, WantsAsync,
       OneWake
<1>b. /\ parent[running] \in Cos \ {running}
      /\ coStatus[parent[running]] = "normal"
      /\ asked[parent[running]] = Says("resume", running)
  BY <1>a DEF IInv, Control, Waits, Current
<1>c. /\ curCo' = parent[running] /\ running' = curCo' /\ lua' = "run"
      /\ got' = Says("result", running) /\ status' = "running"
      /\ coStatus' = [[coStatus EXCEPT ![running] = "suspended"]
                        EXCEPT ![parent[running]] = "running"]
  BY <1>b
<1>1. TypeOK'
  BY MessageType DEF IInv, TypeOK, Requests, WantsResume, Current
<1>2. Control'
  BY <1>c DEF IInv, TypeOK, Control, Current
<1>3. Requests'
  BY DEF Requests
<1>4. Waits'
  BY <1>a, <1>b DEF IInv, TypeOK, Current, Waits, Idle
<1>5. OneWake'
  BY DEF IInv, Control, Requests, WantsResume, WantsYield, WantsExit, WantsAsync,
       OneWake
<1>6. RefsExact'
  BY DEF IInv, RefsExact
<1>7. AnswersFit'
  BY <1>b DEF AnswersFit, Fits
<1> QED BY <1>1, <1>2, <1>3, <1>4, <1>5, <1>6, <1>7 DEF IInv

LEMMA ServeAsyncKeeps == ASSUME IInv, ServeAsync PROVE IInv'
<1> USE DEF ServeAsync, Served
<1>1. TypeOK'
  BY DEF IInv, TypeOK
<1>2. Control'
  BY DEF IInv, TypeOK, Control, Requests, WantsResume, WantsYield, WantsExit,
       WantsAsync, Current
<1>3. Requests'
  BY DEF Requests
<1>4. Waits'
  BY DEF IInv, Control, Requests, WantsResume, Current, Waits, Idle
<1>5. OneWake'
  BY DEF IInv, Requests, WantsResume, WantsYield, WantsExit, WantsAsync, OneWake
<1>6. RefsExact'
  BY DEF IInv, RefsExact
<1>7. AnswersFit'
  BY DEF IInv, TypeOK, Control, Requests, WantsResume, WantsYield, WantsExit,
       WantsAsync, Current, Waits, Idle, AnswersFit, Fits
<1> QED BY <1>1, <1>2, <1>3, <1>4, <1>5, <1>6, <1>7 DEF IInv

LEMMA BeginKeeps == ASSUME IInv, Begin PROVE IInv'
<1> USE DEF Begin, SwitchTo
<1>1. TypeOK'
  BY MessageType DEF IInv, TypeOK
<1>2. Control'
  BY DEF IInv, TypeOK, Control, Current
<1>3. Requests'
  BY DEF Requests
<1>4. Waits'
  BY DEF IInv, Control, Waits, Idle
<1>5. OneWake'
  BY DEF IInv, TypeOK, Control, Requests, WantsResume, WantsYield, WantsExit,
       WantsAsync, Current, OneWake
<1>6. RefsExact'
  BY DEF IInv, RefsExact
<1>7. AnswersFit'
  BY DEF IInv, Control, AnswersFit, Fits
<1> QED BY <1>1, <1>2, <1>3, <1>4, <1>5, <1>6, <1>7 DEF IInv

LEMMA WakeKeeps == ASSUME IInv, Wake PROVE IInv'
<1> USE DEF Wake, SwitchTo
<1>1. TypeOK'
  BY MessageType DEF IInv, TypeOK
<1>2. Control'
  BY DEF IInv, TypeOK, Control, Current
<1>3. Requests'
  BY DEF Requests
<1>4. Waits'
  BY DEF IInv, TypeOK, Control, Waits, Idle
<1>5. OneWake'
  BY DEF IInv, Control, OneWake
<1>6. RefsExact'
  BY DEF IInv, RefsExact
<1>7. AnswersFit'
  BY DEF IInv, TypeOK, Control, AnswersFit, Fits
<1> QED BY <1>1, <1>2, <1>3, <1>4, <1>5, <1>6, <1>7 DEF IInv

LEMMA ParkKeeps == ASSUME IInv, Park PROVE IInv'
<1> USE DEF Park
<1>1. TypeOK'
  BY DEF IInv, TypeOK
<1>2. Control'
  BY DEF IInv, Control
<1>3. Requests'
  BY DEF Requests
<1>4. Waits'
  BY DEF IInv, Waits, Idle
<1>5. OneWake'
  BY DEF IInv, OneWake
<1>6. RefsExact'
  BY DEF IInv, RefsExact
<1>7. AnswersFit'
  BY DEF AnswersFit
<1> QED BY <1>1, <1>2, <1>3, <1>4, <1>5, <1>6, <1>7 DEF IInv

LEMMA CloseKeeps == ASSUME IInv, Close PROVE IInv'
<1> USE DEF Close
<1>1. TypeOK'
  BY DEF IInv, TypeOK
<1>2. Control'
  BY DEF IInv, TypeOK, Control
<1>3. Requests'
  BY DEF Requests
<1>4. Waits'
  BY DEF IInv, TypeOK, Control, Waits
<1>5. OneWake'
  BY DEF IInv, OneWake
<1>6. RefsExact'
  BY DEF IInv, RefsExact
<1>7. AnswersFit'
  BY DEF AnswersFit
<1> QED BY <1>1, <1>2, <1>3, <1>4, <1>5, <1>6, <1>7 DEF IInv

LEMMA NextKeeps == IInv /\ [Next]_vars => IInv'
<1> SUFFICES ASSUME IInv, [Next]_vars PROVE IInv'
  OBVIOUS
<1>1. ASSUME NEW c \in Cos, CreateCo(c) PROVE IInv'
  BY <1>1, CreateCoKeeps
<1>2. ASSUME NEW c \in Cos, CallResume(c) PROVE IInv'
  BY <1>2, CallResumeKeeps
<1>3. ASSUME NEW how \in {"ok", "error"}, Return(how) PROVE IInv'
  BY <1>3, ReturnKeeps
<1>4. CASE CallYield \/ CallExit \/ CallAsync
  BY <1>4, CallYieldKeeps, CallExitKeeps, CallAsyncKeeps
<1>5. CASE Scheduler
  BY <1>5, DoneEntryKeeps, DoneChildKeeps, ExitYieldKeeps, ServeResumeKeeps,
     ServeYieldKeeps, ServeAsyncKeeps DEF Scheduler
<1>6. CASE Handler
  BY <1>6, BeginKeeps, WakeKeeps, ParkKeeps, CloseKeeps DEF Handler
<1>7. CASE UNCHANGED vars
  BY <1>7 DEF vars, IInv, TypeOK, Control, Requests, WantsResume, WantsYield, WantsExit,
     WantsAsync, Current, Waits, Idle, OneWake, RefsExact, AnswersFit, Fits
<1> QED BY <1>1, <1>2, <1>3, <1>4, <1>5, <1>6, <1>7 DEF Next, LuaStep

-----------------------------------------------------------------------------
(* Theorems.                                                               *)

\* The invariant holds in every reachable state.
THEOREM Invariance == Spec => []IInv
<1>1. Init => IInv
  BY InitHolds
<1>2. IInv /\ [Next]_vars => IInv'
  BY NextKeeps
<1> QED BY <1>1, <1>2, PTL DEF Spec

\* Every variable keeps its type, whatever Lua code does.
THEOREM TypeCorrect == Spec => []TypeOK
<1>1. IInv => TypeOK
  BY DEF IInv
<1> QED BY <1>1, Invariance, PTL

\* resumeInternal gives every value to the coroutine that waits for it.
THEOREM AnswersArrive == Spec => []AnswersFit
<1>1. IInv => AnswersFit
  BY DEF IInv
<1> QED BY <1>1, Invariance, PTL

\* A suspended thread has exactly one resume event under way.
THEOREM WokenOnce == Spec => []OneWake
<1>1. IInv => OneWake
  BY DEF IInv
<1> QED BY <1>1, Invariance, PTL

\* The registry references of the coroutines are exact, and gone after close;
\* resumeInternal never fails with an error of its own, so that a thread that
\* is closed has ended.
THEOREM ThreadsCloseCleanly == Spec => []ClosesCleanly
<1>1. IInv => ClosesCleanly
  BY DEF IInv, Control, ClosesCleanly, EndsProperly
<1> QED BY <1>1, Invariance, PTL

\* No late resume event passes the check on the status of a closed thread.
THEOREM ClosedThreadsStayClosed == Spec => []ClosedStaysClosed
<1>1. IInv => ClosedStaysClosed
  BY DEF IInv, Control, ClosedStaysClosed
<1> QED BY <1>1, Invariance, PTL

-----------------------------------------------------------------------------
(* The stack of coroutines.                                                *)

\* The coroutines from the entry to curCo: each is the parent of the next, and
\* they are those that wait, and curCo.
IsStack(q) ==
  /\ q \in Seq(Cos) /\ Len(q) > 0
  /\ q[1] = Entry /\ parent[Entry] = NoCo
  /\ q[Len(q)] = curCo
  /\ \A i \in 2..Len(q) : parent[q[i]] = q[i - 1]
  /\ \A i, j \in 1..Len(q) : q[i] = q[j] => i = j
  /\ \A i \in 1..Len(q) - 1 : coStatus[q[i]] = "normal"
  /\ \A c \in Cos : coStatus[c] = "normal" => \E i \in 1..Len(q) - 1 : q[i] = c

\* A set of numbers has a least one.
LEMMA LeastNumber ==
  ASSUME NEW T, T \subseteq Nat, T # {}
  PROVE  \E x \in T : \A y \in T : x <= y
<1> DEFINE R == OpToRel(<, Nat)
<1>1. IsWellFoundedOn(R, Nat)
  BY NatLessThanWellFounded
<1>2. PICK x \in T : \A y \in T : ~ (<<y, x>> \in R)
  BY <1>1, WFMin
<1>3. \A y \in T : y < x => <<y, x>> \in R
  <2> SUFFICES ASSUME NEW y \in T, y < x PROVE <<y, x>> \in R
    OBVIOUS
  <2>1. <<y, x>> \in Nat \X Nat /\ <<y, x>>[1] < <<y, x>>[2]
    OBVIOUS
  <2> QED BY <2>1 DEF OpToRel
<1> HIDE DEF R
<1>4. \A y \in T : ~(y < x)
  BY <1>2, <1>3
<1> QED BY <1>4

\* The coroutines of a stack are different, so that there are not too many.
LEMMA StackFits ==
  ASSUME NEW q, IsStack(q)
  PROVE  Len(q) \in Nat /\ Cardinality(Cos) \in Nat /\ Len(q) <= Cardinality(Cos)
<1>1. Len(q) \in Nat /\ q \in [1..Len(q) -> Cos]
  BY DEF IsStack
<1>2. q \in Injection(1..Len(q), Cos)
  BY <1>1 DEF IsStack, Injection, IsInjective
<1>3. Cardinality(1..Len(q)) <= Cardinality(Cos)
  BY <1>2, FS_Injection
<1>4. Cardinality(1..Len(q)) = Len(q)
  BY <1>1, FS_Interval DEF IsStack
<1> QED BY <1>1, <1>3, <1>4, FS_CardinalityType

\* The chain of parents, which Ancestors follows upwards, is the stack.
LEMMA AncestorsAre ==
  ASSUME NEW q, IsStack(q)
  PROVE  /\ DOMAIN Ancestors = 0..Cardinality(Cos)
         /\ \A n \in 0..Cardinality(Cos) :
              Ancestors[n] = IF n < Len(q) THEN q[Len(q) - n] ELSE NoCo
<1> DEFINE N == Cardinality(Cos)
           R(h) == h = [n \in 0..N |->
                          IF n = 0 THEN curCo
                          ELSE IF h[n - 1] = NoCo THEN NoCo ELSE parent[h[n - 1]]]
           w == [n \in 0..N |-> IF n < Len(q) THEN q[Len(q) - n] ELSE NoCo]
<1>1. Len(q) \in Nat /\ N \in Nat /\ \A i \in 1..Len(q) : q[i] \in Cos
  BY StackFits DEF IsStack
<1>2. R(w)
  <2> HIDE DEF N
  <2> SUFFICES ASSUME NEW n \in 0..N
               PROVE  w[n] = IF n = 0 THEN curCo
                             ELSE IF w[n - 1] = NoCo THEN NoCo ELSE parent[w[n - 1]]
    OBVIOUS
  <2>1. CASE n = 0
    BY <1>1, <2>1 DEF IsStack
  <2>2. CASE n > 0 /\ n < Len(q)
    <3>1. w[n - 1] = q[Len(q) - n + 1] /\ Len(q) - n + 1 \in 2..Len(q)
      BY <1>1, <2>2
    <3>2. q[Len(q) - n + 1] \in Cos /\ parent[q[Len(q) - n + 1]] = q[Len(q) - n]
      BY <1>1, <3>1 DEF IsStack
    <3> QED BY <1>1, <2>2, <3>1, <3>2
  <2>3. CASE n > 0 /\ n = Len(q)
    BY <1>1, <2>3 DEF IsStack
  <2>4. CASE n > Len(q)
    BY <1>1, <2>4
  <2> QED BY <1>1, <2>1, <2>2, <2>3, <2>4
<1>3. Ancestors = CHOOSE h : R(h)
  BY DEF Ancestors
<1>4. R(Ancestors)
  <2> HIDE DEF R, w
  <2> QED BY <1>2, <1>3
<1>5. \A n \in 0..N : Ancestors[n] = w[n]
  <2> DEFINE T == {n \in 0..N : Ancestors[n] # w[n]}
  <2> SUFFICES ASSUME T # {} PROVE FALSE
    OBVIOUS
  <2>1. PICK n \in T : \A m \in T : n <= m
    <3> HIDE DEF w, N
    <3>1. T \subseteq Nat
      BY <1>1
    <3> HIDE DEF T
    <3> QED BY <3>1, LeastNumber
  <2> HIDE DEF N, w
  <2>2. n \in 0..N /\ n # 0 /\ Ancestors[n] # w[n]
    BY <1>2, <1>4
  <2>3. Ancestors[n - 1] = w[n - 1]
    BY <1>1, <2>1, <2>2
  <2>4. Ancestors[n] = IF Ancestors[n - 1] = NoCo THEN NoCo ELSE parent[Ancestors[n - 1]]
    BY <1>4, <2>2
  <2>5. w[n] = IF w[n - 1] = NoCo THEN NoCo ELSE parent[w[n - 1]]
    BY <1>2, <2>2
  <2> QED BY <2>2, <2>3, <2>4, <2>5
<1>6. DOMAIN Ancestors = 0..N
  BY <1>4
<1> QED BY <1>5, <1>6

\* There is one stack, and Stack computes it.
OneStack == \A q \in Seq(Cos) : IsStack(q) => Stack = q

LEMMA StackIs == OneStack
<1> SUFFICES ASSUME NEW q \in Seq(Cos), IsStack(q) PROVE Stack = q
  BY DEF OneStack
<1> DEFINE N == Cardinality(Cos)
<1>1. /\ Len(q) \in Nat /\ N \in Nat /\ Len(q) <= N /\ Len(q) > 0 /\ q \in Seq(Cos)
      /\ \A i \in 1..Len(q) : q[i] \in Cos
  BY StackFits DEF IsStack
<1>2. {n \in DOMAIN Ancestors : Ancestors[n] # NoCo} = 0..Len(q) - 1
  BY <1>1, AncestorsAre
<1>3. Depth = Len(q)
  <2>1. PICK m \in Int : m = Len(q) - 1
    BY <1>1
  <2>2. Cardinality(0..m) = m - 0 + 1
    <3>1. 0 \in Int /\ 0 <= m
      BY <1>1, <2>1
    <3> QED BY <3>1, FS_Interval
  <2>3. Cardinality(0..Len(q) - 1) = Len(q)
    BY <1>1, <2>1, <2>2
  <2> QED BY <1>2, <2>3 DEF Depth
<1>4. \A i \in 1..Len(q) : Ancestors[Len(q) - i] = q[i]
  BY <1>1, AncestorsAre
<1>5. Stack = [i \in 1..Len(q) |-> q[i]]
  BY <1>1, <1>3, <1>4 DEF Stack
<1> QED BY <1>1, <1>5

LEMMA StackIsNext == ASSUME NEW q, IsStack(q)' PROVE Stack' = q
<1>1. OneStack'
  BY StackIs, PTL
<1>2. q \in Seq(Cos)
  BY DEF IsStack
<1>3. \A p \in Seq(Cos) : IsStack(p)' => Stack' = p
  BY <1>1 DEF OneStack
<1> QED BY <1>2, <1>3

\* A step that leaves the chain and those who wait on it alone.
LEMMA Stays ==
  ASSUME NEW q, IsStack(q), UNCHANGED <<parent, curCo>>,
         \A c \in Cos : coStatus'[c] = "normal" <=> coStatus[c] = "normal"
  PROVE  IsStack(q)' /\ Stack' = q
<1>1. \A i \in 1..Len(q) : q[i] \in Cos
  BY DEF IsStack
<1>2. \A i \in 1..Len(q) - 1 : coStatus'[q[i]] = "normal"
  <2> SUFFICES ASSUME NEW i \in 1..Len(q) - 1 PROVE coStatus'[q[i]] = "normal"
    OBVIOUS
  <2>1. q[i] \in Cos /\ coStatus[q[i]] = "normal"
    BY <1>1 DEF IsStack
  <2> QED BY <2>1
<1>3. \A c \in Cos : coStatus'[c] = "normal" => \E i \in 1..Len(q) - 1 : q[i] = c
  BY DEF IsStack
<1>4. IsStack(q)'
  BY <1>2, <1>3 DEF IsStack
<1> QED BY <1>4, StackIsNext

\* A coroutine that is resumed is put on top.
LEMMA Pushes ==
  ASSUME NEW q, IsStack(q), NEW c \in Cos, c # Entry, c # curCo,
         coStatus[c] # "normal", coStatus \in [Cos -> CoStatuses],
         parent \in [Cos -> Cos \cup {NoCo}],
         parent' = [parent EXCEPT ![c] = curCo], curCo' = c,
         coStatus' = [coStatus EXCEPT ![curCo] = "normal"]
  PROVE  IsStack(Append(q, c))' /\ Stack' = Append(q, c)
<1> DEFINE r == Append(q, c)
<1>1. /\ q \in Seq(Cos) /\ Len(q) \in Nat /\ Len(q) > 0 /\ q[Len(q)] = curCo
      /\ \A i \in 1..Len(q) : q[i] \in Cos
  BY DEF IsStack
<1>2. /\ r \in Seq(Cos) /\ Len(r) = Len(q) + 1 /\ r[Len(r)] = c
      /\ \A i \in 1..Len(q) : r[i] = q[i]
  BY <1>1
<1> HIDE DEF r
<1>3. \A i \in 1..Len(q) : q[i] # c
  <2> SUFFICES ASSUME NEW i \in 1..Len(q), q[i] = c PROVE FALSE
    OBVIOUS
  <2>1. CASE i = Len(q)
    BY <1>1, <2>1
  <2>2. CASE i # Len(q)
    <3>1. i \in 1..Len(q) - 1
      BY <1>1, <2>2
    <3> QED BY <3>1 DEF IsStack
  <2> QED BY <2>1, <2>2
<1>4. r[1] = Entry /\ parent'[Entry] = NoCo
  <2>1. q[1] = Entry /\ parent[Entry] = NoCo /\ r[1] = q[1]
    BY <1>1, <1>2 DEF IsStack
  <2>2. parent'[Entry] = parent[Entry]
    OBVIOUS
  <2> QED BY <2>1, <2>2
<1>5. \A i \in 2..Len(r) : parent'[r[i]] = r[i - 1]
  <2> SUFFICES ASSUME NEW i \in 2..Len(r) PROVE parent'[r[i]] = r[i - 1]
    OBVIOUS
  <2>1. CASE i = Len(r)
    BY <1>1, <1>2, <2>1
  <2>2. CASE i # Len(r)
    <3>1. i \in 2..Len(q) /\ i - 1 \in 1..Len(q) /\ i \in 1..Len(q)
      BY <1>1, <1>2, <2>2
    <3>2. parent[q[i]] = q[i - 1] /\ q[i] \in Cos
      BY <1>1, <3>1 DEF IsStack
    <3> QED BY <1>2, <1>3, <3>1, <3>2
  <2> QED BY <2>1, <2>2
<1>6. \A i, j \in 1..Len(r) : r[i] = r[j] => i = j
  <2> SUFFICES ASSUME NEW i \in 1..Len(r), NEW j \in 1..Len(r), r[i] = r[j] PROVE i = j
    OBVIOUS
  <2>1. CASE i # Len(r) /\ j # Len(r)
    <3>1. i \in 1..Len(q) /\ j \in 1..Len(q)
      BY <1>1, <1>2, <2>1
    <3> QED BY <1>2, <3>1 DEF IsStack
  <2>2. CASE i = Len(r) \/ j = Len(r)
    BY <1>1, <1>2, <1>3, <2>2
  <2> QED BY <2>1, <2>2
<1>7. \A i \in 1..Len(r) - 1 : coStatus'[r[i]] = "normal"
  <2> SUFFICES ASSUME NEW i \in 1..Len(r) - 1 PROVE coStatus'[r[i]] = "normal"
    OBVIOUS
  <2>1. i \in 1..Len(q) /\ r[i] = q[i] /\ q[i] \in Cos
    BY <1>1, <1>2
  <2>2. i = Len(q) \/ i \in 1..Len(q) - 1
    BY <1>1, <2>1
  <2>3. CASE i = Len(q)
    BY <1>1, <2>1, <2>3
  <2>4. CASE i \in 1..Len(q) - 1
    <3>1. coStatus[q[i]] = "normal"
      BY <2>4 DEF IsStack
    <3> QED BY <2>1, <3>1
  <2> QED BY <2>2, <2>3, <2>4
<1>8. \A d \in Cos : coStatus'[d] = "normal" => \E i \in 1..Len(r) - 1 : r[i] = d
  <2> SUFFICES ASSUME NEW d \in Cos, coStatus'[d] = "normal"
               PROVE  \E i \in 1..Len(r) - 1 : r[i] = d
    OBVIOUS
  <2>1. CASE d = curCo
    BY <1>1, <1>2, <2>1
  <2>2. CASE d # curCo
    <3>1. PICK i \in 1..Len(q) - 1 : q[i] = d
      BY <2>2 DEF IsStack
    <3> QED BY <1>1, <1>2, <3>1
  <2> QED BY <2>1, <2>2
<1>9. IsStack(r)'
  <2>1. r' = r
    BY DEF r
  <2> QED BY <1>1, <1>2, <1>4, <1>5, <1>6, <1>7, <1>8, <2>1 DEF IsStack
<1> QED BY <1>9, StackIsNext DEF r

\* The top of the stack, when it is not the entry, gives way to its parent.
LEMMA Pops ==
  ASSUME NEW q, IsStack(q), curCo # Entry, NEW left, left # "normal",
         coStatus \in [Cos -> CoStatuses], curCo \in Cos,
         parent' = parent, curCo' = parent[curCo],
         coStatus' = [coStatus EXCEPT ![curCo] = left, ![parent[curCo]] = "running"]
  PROVE  /\ Len(q) > 1
         /\ IsStack(SubSeq(q, 1, Len(q) - 1))' /\ Stack' = SubSeq(q, 1, Len(q) - 1)
<1> DEFINE r == SubSeq(q, 1, Len(q) - 1)
<1>1. /\ q \in Seq(Cos) /\ Len(q) \in Nat /\ q[Len(q)] = curCo /\ Len(q) > 1
      /\ \A i \in 1..Len(q) : q[i] \in Cos
  BY DEF IsStack
<1>2. /\ r \in Seq(Cos) /\ Len(r) = Len(q) - 1
      /\ \A i \in 1..Len(r) : r[i] = q[i]
  BY <1>1
<1> HIDE DEF r
<1>3. parent[curCo] = r[Len(r)] /\ parent[curCo] \in Cos /\ parent[curCo] # curCo
  <2>1. Len(q) \in 2..Len(q) /\ Len(q) - 1 \in 1..Len(q) /\ Len(q) - 1 # Len(q)
        /\ Len(q) \in 1..Len(q) /\ Len(r) \in 1..Len(r)
    BY <1>1, <1>2
  <2>2. parent[curCo] = q[Len(q) - 1]
    BY <1>1, <2>1 DEF IsStack
  <2>3. q[Len(q) - 1] # q[Len(q)]
    BY <1>1, <2>1 DEF IsStack
  <2> QED BY <1>1, <1>2, <2>1, <2>2, <2>3
<1>4. r[1] = Entry /\ parent'[Entry] = NoCo
  BY <1>1, <1>2 DEF IsStack
<1>5. \A i \in 2..Len(r) : parent'[r[i]] = r[i - 1]
  <2> SUFFICES ASSUME NEW i \in 2..Len(r) PROVE parent[r[i]] = r[i - 1]
    OBVIOUS
  <2>1. i \in 2..Len(q) /\ r[i] = q[i] /\ r[i - 1] = q[i - 1]
    BY <1>1, <1>2
  <2> QED BY <2>1 DEF IsStack
<1>6. \A i, j \in 1..Len(r) : r[i] = r[j] => i = j
  <2> SUFFICES ASSUME NEW i \in 1..Len(r), NEW j \in 1..Len(r), r[i] = r[j] PROVE i = j
    OBVIOUS
  <2>1. i \in 1..Len(q) /\ j \in 1..Len(q) /\ q[i] = q[j]
    BY <1>1, <1>2
  <2> QED BY <2>1 DEF IsStack
<1>7. \A i \in 1..Len(r) - 1 : coStatus'[r[i]] = "normal"
  <2> SUFFICES ASSUME NEW i \in 1..Len(r) - 1 PROVE coStatus'[r[i]] = "normal"
    OBVIOUS
  <2>1. i \in 1..Len(q) - 1 /\ i \in 1..Len(r) /\ r[i] = q[i] /\ r[i] \in Cos
    BY <1>1, <1>2
  <2>2. r[i] # r[Len(r)]
    BY <1>1, <1>2, <1>6, <2>1
  <2>3. r[i] # curCo
    <3>1. Len(q) \in 1..Len(q) /\ i \in 1..Len(q) /\ i # Len(q)
      BY <1>1, <2>1
    <3> QED BY <1>1, <2>1, <3>1 DEF IsStack
  <2>4. coStatus[r[i]] = "normal"
    BY <2>1 DEF IsStack
  <2> QED BY <1>3, <2>1, <2>2, <2>3, <2>4
<1>8. \A d \in Cos : coStatus'[d] = "normal" => \E i \in 1..Len(r) - 1 : r[i] = d
  <2> SUFFICES ASSUME NEW d \in Cos, coStatus'[d] = "normal"
               PROVE  \E i \in 1..Len(r) - 1 : r[i] = d
    OBVIOUS
  <2>1. d # parent[curCo] /\ d # curCo /\ coStatus[d] = "normal"
    BY <1>1, <1>3
  <2>2. PICK i \in 1..Len(q) - 1 : q[i] = d
    BY <2>1 DEF IsStack
  <2>3. i \in 1..Len(r) /\ r[i] = d /\ i # Len(r)
    BY <1>1, <1>2, <1>3, <2>1, <2>2
  <2> QED BY <1>1, <1>2, <2>3
<1>9. IsStack(r)'
  <2>1. r' = r
    BY DEF r
  <2>2. Len(r) > 0 /\ r[Len(r)] = curCo'
    BY <1>1, <1>2, <1>3
  <2> QED BY <1>1, <1>2, <1>4, <1>5, <1>6, <1>7, <1>8, <2>1, <2>2 DEF IsStack
<1> QED BY <1>1, <1>9, StackIsNext DEF r

\* On the stack are curCo and those that wait in resume.
LEMMA OnStack ==
  ASSUME NEW q, IsStack(q), NEW c \in Cos
  PROVE  (\E i \in DOMAIN q : q[i] = c) <=> (c = curCo \/ coStatus[c] = "normal")
<1>1. PICK n \in Nat : n = Len(q) /\ n > 0 /\ DOMAIN q = 1..n /\ q[n] = curCo
  BY DEF IsStack
<1>2. n \in 1..n /\ \A i \in 1..n : i = n \/ i \in 1..n - 1
  BY <1>1
<1>3. \A i \in 1..n - 1 : i \in 1..n
  BY <1>1
<1>4. \A i \in 1..n - 1 : coStatus[q[i]] = "normal"
  BY <1>1 DEF IsStack
<1>5. coStatus[c] = "normal" => \E i \in 1..n - 1 : q[i] = c
  BY <1>1 DEF IsStack
<1> QED BY <1>1, <1>2, <1>3, <1>4, <1>5

\* The stack of an invariant state, seen from Lua code.
Chained == IsStack(Stack)

\* What the abstract stack calls idle and used.
IdleNow == {c \in Cos : c # curCo /\ coStatus[c] = "suspended"}
UsedNow == {c \in Cos : coStatus[c] # "none"}
IdleIs  == Chained =>
  {c \in Cos \ {Stack[i] : i \in DOMAIN Stack} : coStatus[c] = "suspended"} = IdleNow

LEMMA IdleHolds == IdleIs
<1> SUFFICES ASSUME Chained
             PROVE  {c \in Cos \ {Stack[i] : i \in DOMAIN Stack} : coStatus[c] = "suspended"}
                      = IdleNow
  BY DEF IdleIs
<1>1. PICK q : q = Stack
  OBVIOUS
<1>2. \A c \in Cos : (\E i \in DOMAIN q : q[i] = c) <=> (c = curCo \/ coStatus[c] = "normal")
  BY <1>1, OnStack DEF Chained
<1>3. \A c \in Cos : coStatus[c] = "suspended" =>
        (c \in {q[i] : i \in DOMAIN q} <=> c = curCo)
  BY <1>2
<1>4. {c \in Cos \ {q[i] : i \in DOMAIN q} : coStatus[c] = "suspended"} = IdleNow
  BY <1>3 DEF IdleNow
<1> QED BY <1>1, <1>4

LEMMA InitChained == Init => Chained /\ Promise!Init
<1> SUFFICES ASSUME Init PROVE Chained /\ Promise!Init
  OBVIOUS
<1>1. PICK q : q = <<Entry>>
  OBVIOUS
<1>2. /\ q \in Seq(Cos) /\ Len(q) = 1 /\ q[1] = Entry
      /\ \A i \in 2..Len(q) : FALSE
      /\ \A i \in 1..Len(q) - 1 : FALSE
      /\ \A i, j \in 1..Len(q) : i = j
  BY <1>1
<1>3. parent[Entry] = NoCo /\ curCo = Entry /\ \A c \in Cos : coStatus[c] # "normal"
  BY DEF Init
<1>4. IsStack(q)
  BY <1>2, <1>3 DEF IsStack
<1>5. Stack = q
  BY <1>2, <1>4, StackIs DEF OneStack
<1>6. Chained
  BY <1>4, <1>5 DEF Chained
<1>7. IdleNow = {} /\ UsedNow = {Entry} /\ Mode = "waiting"
  BY DEF Init, IdleNow, UsedNow, Mode
<1>8. Promise!Init
  BY <1>1, <1>5, <1>6, <1>7, IdleHolds DEF IdleIs, UsedNow, Promise!Init
<1> QED BY <1>6, <1>8

\* The variables of CoroutineStack before and after a step.
LEMMA Seen ==
  ASSUME Chained, Chained',
         NEW q, q = Stack, NEW r, r = Stack',
         \/ \E c \in Cos : /\ c \notin UsedNow /\ UsedNow' = UsedNow \cup {c}
                           /\ IdleNow' = IdleNow \cup {c}
                           /\ Mode = "running" /\ Mode' = "running" /\ r = q
         \/ \E c \in Cos : /\ c \in IdleNow /\ r = Append(q, c)
                           /\ IdleNow' = IdleNow \ {c} /\ UsedNow' = UsedNow
                           /\ Mode = "running" /\ Mode' = "running"
         \/ /\ Len(q) > 1 /\ r = SubSeq(q, 1, Len(q) - 1)
            /\ IdleNow' = IdleNow \cup {q[Len(q)]} \/ IdleNow' = IdleNow \cup {}
            /\ UsedNow' = UsedNow /\ Mode = "running" /\ Mode' = "running"
         \/ /\ r = q /\ IdleNow' = IdleNow /\ UsedNow' = UsedNow
            /\ \/ Mode = "running" /\ Mode' \in {"waiting", "over"}
               \/ Mode = "waiting" /\ Mode' = "running"
               \/ Mode' = Mode
  PROVE  [Promise!Next]_(Promise!vars)
<1> DEFINE idle == {c \in Cos \ {Stack[i] : i \in DOMAIN Stack} : coStatus[c] = "suspended"}
<1>1. idle = IdleNow
  BY IdleHolds DEF IdleIs
<1>2. idle' = IdleNow'
  <2>1. IdleIs'
    BY IdleHolds, PTL
  <2> QED BY <2>1 DEF IdleIs
<1> HIDE DEF idle
<1>3. CASE \E c \in Cos : /\ c \notin UsedNow /\ UsedNow' = UsedNow \cup {c}
                          /\ IdleNow' = IdleNow \cup {c}
                          /\ Mode = "running" /\ Mode' = "running" /\ r = q
  <2>1. PICK c \in Cos : /\ c \notin UsedNow /\ UsedNow' = UsedNow \cup {c}
                         /\ IdleNow' = IdleNow \cup {c}
                         /\ Mode = "running" /\ Mode' = "running" /\ r = q
    BY <1>3
  <2>2. Promise!Create(c)
    BY <1>1, <1>2, <2>1 DEF Promise!Create, Promise!Go, UsedNow, idle
  <2> QED BY <2>2 DEF Promise!Next
<1>4. CASE \E c \in Cos : /\ c \in IdleNow /\ r = Append(q, c)
                          /\ IdleNow' = IdleNow \ {c} /\ UsedNow' = UsedNow
                          /\ Mode = "running" /\ Mode' = "running"
  <2>1. PICK c \in Cos : /\ c \in IdleNow /\ r = Append(q, c)
                         /\ IdleNow' = IdleNow \ {c} /\ UsedNow' = UsedNow
                         /\ Mode = "running" /\ Mode' = "running"
    BY <1>4
  <2>2. Promise!Resume(c)
    BY <1>1, <1>2, <2>1 DEF Promise!Resume, Promise!Go, UsedNow, idle
  <2> QED BY <2>2 DEF Promise!Next
<1>5. CASE /\ Len(q) > 1 /\ r = SubSeq(q, 1, Len(q) - 1)
           /\ IdleNow' = IdleNow \cup {q[Len(q)]} \/ IdleNow' = IdleNow \cup {}
           /\ UsedNow' = UsedNow /\ Mode = "running" /\ Mode' = "running"
  <2>1. CASE IdleNow' = IdleNow \cup {q[Len(q)]}
    <3>1. Promise!Yield
      BY <1>1, <1>2, <1>5, <2>1
         DEF Promise!Yield, Promise!Leave, Promise!Pop, Promise!Top, Promise!Go, UsedNow, idle
    <3> QED BY <3>1 DEF Promise!Next
  <2>2. CASE IdleNow' = IdleNow \cup {}
    <3>1. Promise!Finish
      BY <1>1, <1>2, <1>5, <2>2
         DEF Promise!Finish, Promise!Leave, Promise!Pop, Promise!Go, UsedNow, idle
    <3> QED BY <3>1 DEF Promise!Next
  <2> QED BY <1>5, <2>1, <2>2
<1>6. CASE /\ r = q /\ IdleNow' = IdleNow /\ UsedNow' = UsedNow
           /\ \/ Mode = "running" /\ Mode' \in {"waiting", "over"}
              \/ Mode = "waiting" /\ Mode' = "running"
              \/ Mode' = Mode
  <2>1. CASE Mode = "running" /\ Mode' = "waiting"
    <3>1. Promise!Suspend
      BY <1>1, <1>2, <1>6, <2>1 DEF Promise!Suspend, Promise!Go, UsedNow, idle
    <3> QED BY <3>1 DEF Promise!Next
  <2>2. CASE Mode = "running" /\ Mode' = "over"
    <3>1. Promise!Over
      BY <1>1, <1>2, <1>6, <2>2 DEF Promise!Over, Promise!Go, UsedNow, idle
    <3> QED BY <3>1 DEF Promise!Next
  <2>3. CASE Mode = "waiting" /\ Mode' = "running"
    <3>1. Promise!Wake
      BY <1>1, <1>2, <1>6, <2>3 DEF Promise!Wake, UsedNow, idle
    <3> QED BY <3>1 DEF Promise!Next
  <2>4. CASE Mode' = Mode
    <3>1. UNCHANGED Promise!vars
      BY <1>1, <1>2, <1>6, <2>4 DEF Promise!vars, UsedNow, idle
    <3> QED BY <3>1
  <2> QED BY <1>6, <2>1, <2>2, <2>3, <2>4
<1> QED BY <1>3, <1>4, <1>5, <1>6

\* Each step keeps the chain and is a step of the stack, or none.
LEMMA StackStays ==
  ASSUME Chained, UNCHANGED <<parent, curCo>>,
         \A c \in Cos : coStatus'[c] = "normal" <=> coStatus[c] = "normal"
  PROVE  Chained' /\ Stack' = Stack
<1>1. PICK q : q = Stack
  OBVIOUS
<1>2. IsStack(q)
  BY <1>1 DEF Chained
<1>3. IsStack(q)' /\ Stack' = q
  BY <1>2, Stays
<1>4. Chained'
  BY <1>1, <1>3 DEF Chained
<1> QED BY <1>1, <1>3, <1>4

LEMMA CreateCoMoves ==
  ASSUME IInv, Chained, NEW c \in Cos, CreateCo(c)
  PROVE  Chained' /\ [Promise!Next]_(Promise!vars)
<1>1. Chained' /\ Stack' = Stack
  <2>1. \A d \in Cos : coStatus'[d] = "normal" <=> coStatus[d] = "normal"
    BY DEF CreateCo, IInv, TypeOK
  <2> QED BY <2>1, StackStays DEF CreateCo
<1>2. status = "running" /\ status' = "running" /\ coStatus[curCo] = "running"
  BY DEF CreateCo, IInv, Control, Current
<1>3. Mode = "running" /\ Mode' = "running"
  BY <1>2 DEF Mode
<1>4. c \notin UsedNow /\ UsedNow' = UsedNow \cup {c} /\ IdleNow' = IdleNow \cup {c}
  BY <1>2 DEF CreateCo, IInv, TypeOK, UsedNow, IdleNow
<1> QED BY <1>1, <1>3, <1>4, Seen

LEMMA CallResumeMoves ==
  ASSUME IInv, Chained, NEW c \in Cos, CallResume(c)
  PROVE  Chained' /\ [Promise!Next]_(Promise!vars)
<1> USE DEF CallResume, ResumeCo, Resumable, Adopt
<1>1. /\ coStatus[c] = "suspended" /\ coStatus[curCo] = "running"
      /\ status = "running" /\ status' = "running"
  BY DEF IInv, Control, Current
<1>2. c # curCo /\ c # Entry
  BY <1>1 DEF IInv, Waits, Idle
<1>3. PICK q : q = Stack
  OBVIOUS
<1>4. IsStack(q)
  BY <1>3 DEF Chained
<1>5. IsStack(Append(q, c))' /\ Stack' = Append(q, c)
  BY <1>1, <1>2, <1>4, Pushes DEF IInv, TypeOK
<1>6. Chained'
  <2>1. PICK r : r = Append(q, c)
    OBVIOUS
  <2>2. IsStack(r)' /\ Stack' = r
    BY <1>5, <2>1
  <2> QED BY <2>2 DEF Chained
<1>7. Mode = "running" /\ Mode' = "running"
  BY <1>1 DEF Mode
<1>8. c \in IdleNow /\ IdleNow' = IdleNow \ {c} /\ UsedNow' = UsedNow
  BY <1>1, <1>2 DEF IInv, TypeOK, UsedNow, IdleNow
<1> HIDE DEF CallResume
<1>9. PICK r : r = Append(q, c)
  OBVIOUS
<1> QED BY <1>3, <1>5, <1>6, <1>7, <1>8, <1>9, Seen

\* ServeYield and DoneChild give control back to the parent.
LEMMA LeaveMoves ==
  ASSUME IInv, Chained, NEW left \in {"suspended", "dead"}, curCo # Entry,
         coStatus[curCo] = "running", status = "running", status' = "running",
         parent' = parent, curCo' = parent[curCo],
         coStatus' = [coStatus EXCEPT ![curCo] = left, ![parent[curCo]] = "running"]
  PROVE  Chained' /\ [Promise!Next]_(Promise!vars)
<1>1. PICK q : q = Stack
  OBVIOUS
<1>2. IsStack(q)
  BY <1>1 DEF Chained
<1>3. PICK r : r = SubSeq(q, 1, Len(q) - 1)
  OBVIOUS
<1>4. Len(q) > 1 /\ IsStack(r)' /\ Stack' = r
  <2>1. left # "normal" /\ coStatus \in [Cos -> CoStatuses] /\ curCo \in Cos
    BY DEF IInv, TypeOK
  <2>2. /\ Len(q) > 1
        /\ IsStack(SubSeq(q, 1, Len(q) - 1))' /\ Stack' = SubSeq(q, 1, Len(q) - 1)
    BY <1>2, <2>1, Pops
  <2> QED BY <1>3, <2>2
<1>5. Chained'
  BY <1>4 DEF Chained
<1>6. Mode = "running" /\ Mode' = "running"
  BY DEF Mode
<1>7. q[Len(q)] = curCo
  BY <1>2 DEF IsStack
<1>8. parent[curCo] \in Cos /\ coStatus[parent[curCo]] = "normal"
  BY DEF IInv, Waits, TypeOK
<1>9. /\ IdleNow' = IdleNow \cup {curCo} \/ IdleNow' = IdleNow \cup {}
      /\ UsedNow' = UsedNow
  <2>1. UsedNow' = UsedNow
    BY <1>8 DEF IInv, TypeOK, UsedNow
  <2>2. \A c \in Cos : (c # curCo' /\ coStatus'[c] = "suspended")
          <=> ((c # curCo /\ coStatus[c] = "suspended") \/ (c = curCo /\ left = "suspended"))
    BY <1>8 DEF IInv, TypeOK
  <2>3. /\ left = "suspended" => IdleNow' = IdleNow \cup {curCo}
        /\ left = "dead" => IdleNow' = IdleNow \cup {}
    BY <2>2 DEF IInv, TypeOK, IdleNow
  <2> QED BY <2>1, <2>2, <2>3
<1> QED BY <1>1, <1>3, <1>4, <1>5, <1>6, <1>7, <1>9, Seen

LEMMA DoneChildMoves ==
  ASSUME IInv, Chained, DoneChild
  PROVE  Chained' /\ [Promise!Next]_(Promise!vars)
<1>1. /\ running = curCo /\ coStatus[curCo] = "running" /\ status = "running"
      /\ curCo \in Cos /\ parent[curCo] # NoCo
  BY DEF DoneChild, Finishes, Parentless, IInv, Control, Current
<1>2. curCo # Entry
  BY <1>1 DEF IInv, Waits
<1>3. /\ status' = "running" /\ parent' = parent /\ curCo' = parent[curCo]
      /\ coStatus' = [coStatus EXCEPT ![curCo] = "dead", ![parent[curCo]] = "running"]
  BY <1>1 DEF DoneChild, SwitchTo, Ended
<1> QED BY <1>1, <1>2, <1>3, LeaveMoves

LEMMA ServeYieldMoves ==
  ASSUME IInv, Chained, ServeYield
  PROVE  Chained' /\ [Promise!Next]_(Promise!vars)
<1>1. /\ running = curCo /\ coStatus[curCo] = "running" /\ status = "running"
      /\ curCo \in Cos /\ curCo # Entry
  BY DEF ServeYield, Served, IInv, Control, Requests, WantsResume, WantsYield,
       WantsExit,
     WantsAsync, Current
<1>2. parent[curCo] # NoCo
  BY <1>1 DEF IInv, Waits
<1>3. /\ status' = "running" /\ parent' = parent /\ curCo' = parent[curCo]
      /\ coStatus' = [coStatus EXCEPT ![curCo] = "suspended", ![parent[curCo]] = "running"]
  BY <1>1, <1>2 DEF ServeYield, Served, Parentless, SwitchTo
<1> QED BY <1>1, <1>2, <1>3, LeaveMoves

\* A step that moves no coroutine between idle, used and the stack.
LEMMA OthersMove ==
  ASSUME Chained, UNCHANGED <<parent, curCo>>,
         \A c \in Cos : /\ coStatus'[c] = "normal" <=> coStatus[c] = "normal"
                        /\ coStatus'[c] = "none" <=> coStatus[c] = "none"
                        /\ c # curCo => (coStatus'[c] = "suspended" <=> coStatus[c] = "suspended"),
         \/ Mode = "running" /\ Mode' \in {"waiting", "over"}
         \/ Mode = "waiting" /\ Mode' = "running"
         \/ Mode' = Mode
  PROVE  Chained' /\ [Promise!Next]_(Promise!vars)
<1>1. Chained' /\ Stack' = Stack
  BY StackStays
<1>2. IdleNow' = IdleNow /\ UsedNow' = UsedNow
  BY DEF IdleNow, UsedNow
<1>3. PICK q : q = Stack
  OBVIOUS
<1> QED BY <1>1, <1>2, <1>3, Seen

LEMMA RestMoves ==
  ASSUME IInv, Chained,
         \/ CallYield \/ CallExit \/ CallAsync \/ \E how \in {"ok", "error"} : Return(how)
         \/ DoneEntry \/ ExitYield \/ ServeResume \/ ServeAsync
         \/ Handler \/ UNCHANGED vars
  PROVE  Chained' /\ [Promise!Next]_(Promise!vars)
<1> USE DEF IInv, TypeOK
<1>1. CASE \/ CallYield \/ CallExit \/ CallAsync \/ Park \/ Close \/ UNCHANGED vars
           \/ \E how \in {"ok", "error"} : Return(how)
  <2>1. UNCHANGED <<parent, curCo, coStatus, status>>
    BY <1>1 DEF CallYield, YieldCo, CallExit, Exit, CallAsync, Return, Park, Close, vars
  <2>2. Mode' = Mode
    BY <2>1 DEF Mode
  <2> QED BY <2>1, <2>2, OthersMove
<1>2. CASE DoneEntry
  <2>1. /\ UNCHANGED <<parent, curCo>> /\ coStatus' = [coStatus EXCEPT ![curCo] = "dead"]
        /\ coStatus[curCo] = "running" /\ status = "running" /\ status' = "dead"
    BY <1>2 DEF DoneEntry, Ended, Finishes, Control, Current
  <2>2. Mode = "running" /\ Mode' = "over"
    BY <2>1 DEF Mode
  <2> QED BY <2>1, <2>2, OthersMove
<1>3. CASE ExitYield
  <2>1. UNCHANGED <<parent, curCo, coStatus>> /\ status = "running" /\ status' = "exited"
    BY <1>3 DEF ExitYield, Control
  <2>2. Mode = "running" /\ Mode' = "over"
    BY <2>1 DEF Mode
  <2> QED BY <2>1, <2>2, OthersMove
<1>4. CASE ServeResume
  <2>1. WantsResume /\ status = "running" /\ running \in Cos
    BY <1>4 DEF ServeResume, Served, Control, Requests, WantsResume, WantsYield,
         WantsExit,
       WantsAsync
  <2>2. /\ UNCHANGED <<parent, curCo>> /\ status' = "running"
        /\ coStatus' = [coStatus EXCEPT ![running] = "normal", ![curCo] = "running"]
    BY <1>4, <2>1 DEF ServeResume, Served, WantsResume, SwitchTo
  <2>3. /\ coStatus[running] = "normal" /\ coStatus[curCo] = "suspended"
        /\ running # curCo
    BY <2>1 DEF WantsResume
  <2>4. Mode' = Mode
    BY <2>1, <2>2 DEF Mode
  <2> QED BY <2>1, <2>2, <2>3, <2>4, OthersMove
<1>5. CASE ServeAsync
  <2>1. /\ UNCHANGED <<parent, curCo>> /\ coStatus' = [coStatus EXCEPT ![curCo] = "suspended"]
        /\ coStatus[curCo] = "running" /\ status = "running" /\ status' = "yielded"
    BY <1>5 DEF ServeAsync, Served, Control, Requests, WantsResume, WantsYield,
         WantsExit,
       WantsAsync, Current
  <2>2. Mode = "running" /\ Mode' = "waiting"
    BY <2>1 DEF Mode
  <2> QED BY <2>1, <2>2, OthersMove
<1>6. CASE Begin \/ Wake
  <2>1. CASE /\ UNCHANGED <<parent, curCo>> /\ status \in {"created", "yielded"}
             /\ coStatus[curCo] = "suspended" /\ status' = "running"
             /\ coStatus' = [coStatus EXCEPT ![curCo] = "running"]
    <3>1. Mode = "waiting" /\ Mode' = "running"
      BY <2>1 DEF Mode
    <3> QED BY <2>1, <3>1, OthersMove
  <2>2. CASE UNCHANGED <<parent, curCo, coStatus, status>>
    <3>1. Mode' = Mode
      BY <2>2 DEF Mode
    <3> QED BY <2>2, <3>1, OthersMove
  <2> QED BY <1>6, <2>1, <2>2 DEF Begin, Wake, SwitchTo, Control
<1> QED BY <1>1, <1>2, <1>3, <1>4, <1>5, <1>6 DEF Handler

LEMMA NextMoves ==
  IInv /\ Chained /\ [Next]_vars => Chained' /\ [Promise!Next]_(Promise!vars)
<1> SUFFICES ASSUME IInv, Chained, [Next]_vars
             PROVE  Chained' /\ [Promise!Next]_(Promise!vars)
  OBVIOUS
<1>1. ASSUME NEW c \in Cos, CreateCo(c) PROVE Chained' /\ [Promise!Next]_(Promise!vars)
  BY <1>1, CreateCoMoves
<1>2. ASSUME NEW c \in Cos, CallResume(c) PROVE Chained' /\ [Promise!Next]_(Promise!vars)
  BY <1>2, CallResumeMoves
<1>3. CASE DoneChild \/ ServeYield
  BY <1>3, DoneChildMoves, ServeYieldMoves
<1>4. CASE \/ CallYield \/ CallExit \/ CallAsync \/ \E how \in {"ok", "error"} : Return(how)
           \/ DoneEntry \/ ExitYield \/ ServeResume \/ ServeAsync
           \/ Handler \/ UNCHANGED vars
  BY <1>4, RestMoves
<1> QED BY <1>1, <1>2, <1>3, <1>4 DEF Next, LuaStep, Scheduler

\* What coroutine.status says, from the invariant.
LEMMA StatusIs == IInv /\ Chained => StatusSeen
<1> SUFFICES ASSUME IInv, Chained, InLua, NEW c \in Cos, coStatus[c] # "none"
             PROVE  LuaStatus(c) = IF c = running THEN "running"
                      ELSE IF \E i \in DOMAIN Stack : Stack[i] = c THEN "normal"
                      ELSE IF coStatus[c] = "dead" THEN "dead" ELSE "suspended"
  BY DEF StatusSeen
<1>1. PICK q : q = Stack
  OBVIOUS
<1>2. (\E i \in DOMAIN Stack : Stack[i] = c) <=> (c = curCo \/ coStatus[c] = "normal")
  BY <1>1, OnStack DEF Chained
<1>3. running = curCo /\ coStatus[curCo] = "running" /\ status = "running"
  BY DEF IInv, Control, Current
<1>4. /\ c \in known <=> coStatus[c] \in {"suspended", "running", "normal"}
      /\ c # curCo => coStatus[c] # "running"
      /\ coStatus[c] \in CoStatuses
  BY <1>3 DEF IInv, Waits, TypeOK
<1> QED BY <1>2, <1>3, <1>4 DEF LuaStatus

\* In every reachable state the coroutines that wait for one another form a
\* chain from the entry to the one that runs.
THEOREM ChainHolds == Spec => []Chained
<1>1. Init => Chained
  BY InitChained
<1>2. IInv /\ Chained /\ [Next]_vars => Chained'
  BY NextMoves
<1> QED BY <1>1, <1>2, Invariance, PTL DEF Spec

\* coroutine.status tells Lua code where a coroutine is on the stack.
THEOREM StatusTold == Spec => []StatusSeen
<1>1. IInv /\ Chained => StatusSeen
  BY StatusIs
<1> QED BY <1>1, Invariance, ChainHolds, PTL

\* The scheduler in resumeInternal implements a stack of coroutines, however
\* deep it grows.
THEOREM Refinement == Spec => KeepsPromise
<1>1. Init => Promise!Init
  BY InitChained
<1>2. IInv /\ Chained /\ [Next]_vars => [Promise!Next]_(Promise!vars)
  BY NextMoves
<1> QED BY <1>1, <1>2, Invariance, ChainHolds, PTL DEF Spec, KeepsPromise, Promise!Spec
=============================================================================
