---------------------------- MODULE ConnService ----------------------------
(***************************************************************************)
(* What the connection pool promises, without locks, watchers or flags.  A *)
(* connection is in use by one socket, idle in the pool, on its way out of *)
(* the pool, or closed for ever.  Only an idle connection can be given to  *)
(* a socket again, and never one that the pool knows to be unfit.  At most *)
(* as many connections are idle as the largest size asked for.             *)
(***************************************************************************)
EXTENDS Integers, FiniteSets

CONSTANT Conns

VARIABLES
  life,    \* of each connection
  limit,   \* the size of the pool
  unfit    \* connections seen to be unusable

vars == <<life, limit, unfit>>

Stages == {"new", "used", "idle", "leaving", "closed"}

Init ==
  /\ life = [c \in Conns |-> "new"]
  /\ limit = 0
  /\ unfit = {}

Move(c, from, to) ==
  /\ life[c] = from
  /\ life' = [life EXCEPT ![c] = to]
  /\ UNCHANGED <<limit, unfit>>

Open(c)    == Move(c, "new", "used")
Hang(c)    == Move(c, "used", "closed")
Leave(c)   == Move(c, "idle", "leaving")
Reuse(c)   == c \notin unfit /\ Move(c, "leaving", "used")
Discard(c) == Move(c, "leaving", "closed")

IdleIn(stage) == {c \in Conns : stage[c] = "idle"}

\* a connection is put to rest, and one other may have to make room for it
Park(c, out) ==
  /\ life[c] = "used"
  /\ out \subseteq IdleIn(life) /\ Cardinality(out) <= 1
  /\ life' = [d \in Conns |-> IF d = c THEN "idle"
                              ELSE IF d \in out THEN "leaving" ELSE life[d]]
  /\ limit' >= limit
  /\ Cardinality(IdleIn(life')) <= limit'
  /\ UNCHANGED unfit

\* the pool is emptied
Drain ==
  /\ life' = [c \in Conns |-> IF life[c] = "idle" THEN "leaving" ELSE life[c]]
  /\ UNCHANGED <<limit, unfit>>

\* a connection in the pool turns out to be unusable, or is already gone
Spoil(c) ==
  /\ life[c] \in {"idle", "leaving", "closed"}
  /\ unfit' = unfit \cup {c}
  /\ UNCHANGED <<life, limit>>

Next ==
  \/ \E c \in Conns : \/ Open(c) \/ Hang(c) \/ Leave(c) \/ Reuse(c)
                      \/ Discard(c) \/ Spoil(c)
                      \/ \E out \in SUBSET Conns : Park(c, out)
  \/ Drain

Spec == Init /\ [][Next]_vars
=============================================================================
