-------------------------- MODULE CoroutineStack --------------------------
(***************************************************************************)
(* What coroutines promise to Lua code, without a scheduler: the           *)
(* coroutines that wait for one another form a stack whose top runs.       *)
(* Resuming pushes an idle coroutine, yielding pops the top and leaves it  *)
(* idle, ending pops it for good.  An asynchronous call suspends the whole *)
(* stack, and its result goes on with the same top.  Coroutines implements *)
(* this module.                                                            *)
(***************************************************************************)
EXTENDS Naturals, Sequences

CONSTANTS Cos, Entry

VARIABLES
  stack,   \* from the entry coroutine to the one that runs
  idle,    \* coroutines that can be resumed
  used,    \* coroutines that were created
  mode     \* of the stack as a whole

vars == <<stack, idle, used, mode>>

Top == stack[Len(stack)]
Pop == SubSeq(stack, 1, Len(stack) - 1)

Init ==
  /\ stack = <<Entry>>
  /\ idle = {}
  /\ used = {Entry}
  /\ mode = "waiting"

Go(to) == mode = "running" /\ mode' = to

Create(c) ==
  /\ c \notin used
  /\ used' = used \cup {c}
  /\ idle' = idle \cup {c}
  /\ Go("running")
  /\ UNCHANGED stack

Resume(c) ==
  /\ c \in idle
  /\ stack' = Append(stack, c)
  /\ idle' = idle \ {c}
  /\ Go("running")
  /\ UNCHANGED used

\* the top gives up control, for good or to be resumed later
Leave(left) ==
  /\ Len(stack) > 1
  /\ stack' = Pop
  /\ idle' = idle \cup left
  /\ Go("running")
  /\ UNCHANGED used

Yield  == Leave({Top})
Finish == Leave({})

Suspend == Go("waiting") /\ UNCHANGED <<stack, idle, used>>
Over    == Go("over") /\ UNCHANGED <<stack, idle, used>>

Wake ==
  /\ mode = "waiting"
  /\ mode' = "running"
  /\ UNCHANGED <<stack, idle, used>>

Next ==
  \/ \E c \in Cos : Create(c) \/ Resume(c)
  \/ Yield \/ Finish
  \/ Suspend \/ Wake \/ Over

Spec == Init /\ [][Next]_vars
=============================================================================
