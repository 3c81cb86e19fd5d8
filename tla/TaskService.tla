---------------------------- MODULE TaskService ----------------------------
(***************************************************************************)
(* What a golapis state promises to those who give it work, without        *)
(* channels, goroutines or counters.  A task is a call (RunFile,           *)
(* RunString, RunEntryPoint) or a timer.  Tasks share one Lua state: at    *)
(* most one runs, and it gives up control only when it suspends or ends.   *)
(* Every task runs once from its beginning to its end; a call is answered  *)
(* once, after its end.  A stop drops the timers that have not begun; a    *)
(* dropped timer never runs.  StateLoop implements this module.            *)
(***************************************************************************)
CONSTANTS Calls, Timers

VARIABLES
  phase,     \* of each task
  answered   \* calls whose response was delivered

vars == <<phase, answered>>

Tasks  == Calls \cup Timers
Phases == {"idle", "accepted", "running", "suspended", "finished", "dropped"}

Init ==
  /\ phase = [t \in Tasks |-> "idle"]
  /\ answered = {}

Move(t, from, to) ==
  /\ phase[t] = from
  /\ phase' = [phase EXCEPT ![t] = to]
  /\ UNCHANGED answered

NoneRuns == \A t \in Tasks : phase[t] # "running"

Accept(t)   == Move(t, "idle", "accepted")
Begin(t)    == NoneRuns /\ Move(t, "accepted", "running")
Suspend(t)  == Move(t, "running", "suspended")
Continue(t) == NoneRuns /\ Move(t, "suspended", "running")
Finish(t)   == Move(t, "running", "finished")

\* a call whose code does not load ends without running
Reject(c) == Move(c, "accepted", "finished")

\* a stop drops the accepted timers, all of them at once
Drop ==
  /\ phase' = [t \in Tasks |->
                IF t \in Timers /\ phase[t] = "accepted" THEN "dropped" ELSE phase[t]]
  /\ UNCHANGED answered

Answer(c) ==
  /\ phase[c] = "finished"
  /\ c \notin answered
  /\ answered' = answered \cup {c}
  /\ UNCHANGED phase

Next ==
  \/ \E t \in Tasks : \/ Accept(t) \/ Begin(t) \/ Suspend(t)
                      \/ Continue(t) \/ Finish(t)
  \/ \E c \in Calls : Reject(c) \/ Answer(c)
  \/ Drop

Spec == Init /\ [][Next]_vars
=============================================================================
