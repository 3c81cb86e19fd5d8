-------------------------- MODULE StateLoop_proofs --------------------------
(***************************************************************************)
(* Proofs about StateLoop, for any number of calls and timers, any         *)
(* capacity of the event channel and any bounds.                           *)
(*                                                                         *)
(* Most of the argument is about UnderWay, the set of events on their way  *)
(* to the loop.  The first lemmas say what a send and a receive do to it;  *)
(* after them the sequence eventChan is not looked into again.  The first  *)
(* half allows restarts, the second is about a state that is started once. *)
(***************************************************************************)
EXTENDS StateLoop, TLAPS, FiniteSetTheorems

USE DEF Send, AfterYield, CleanUp

-----------------------------------------------------------------------------
(* Sequences without repetition.                                           *)

Elements(q) == {q[i] : i \in DOMAIN q}
Distinct(q) == \A i, j \in DOMAIN q : q[i] = q[j] => i = j

\* Appending a new element keeps a sequence free of repetitions.
LEMMA AppendDistinct ==
  ASSUME NEW S, NEW q \in Seq(S), NEW e \in S, Distinct(q), e \notin Elements(q)
  PROVE  /\ Append(q, e) \in Seq(S)
         /\ Len(Append(q, e)) = Len(q) + 1
         /\ Distinct(Append(q, e))
         /\ Elements(Append(q, e)) = Elements(q) \cup {e}
<1> DEFINE r == Append(q, e)
<1>1. r \in Seq(S) /\ Len(r) = Len(q) + 1 /\ DOMAIN r = 1 .. Len(q) + 1
  OBVIOUS
<1>2. DOMAIN q = 1 .. Len(q) /\ Len(q) \in Nat
  OBVIOUS
<1>3. \A i \in 1 .. Len(q) : r[i] = q[i]
  OBVIOUS
<1>4. r[Len(q) + 1] = e
  OBVIOUS
<1> HIDE DEF r
<1>5. Elements(r) = Elements(q) \cup {e}
  <2>1. \A i \in DOMAIN r : i \in DOMAIN q \/ i = Len(q) + 1
    BY <1>1, <1>2
  <2>2. \A i \in DOMAIN q : i \in DOMAIN r /\ r[i] = q[i]
    BY <1>1, <1>2, <1>3
  <2>3. Len(q) + 1 \in DOMAIN r
    BY <1>1, <1>2
  <2> QED  BY <2>1, <2>2, <2>3, <1>4 DEF Elements
<1>6. Distinct(r)
  <2> SUFFICES ASSUME NEW i \in DOMAIN r, NEW j \in DOMAIN r, r[i] = r[j]
               PROVE  i = j
    BY DEF Distinct
  <2>1. CASE i \in DOMAIN q /\ j \in DOMAIN q
    BY <2>1, <1>2, <1>3 DEF Distinct
  <2>2. CASE i = Len(q) + 1 /\ j \in DOMAIN q
    BY <2>2, <1>2, <1>3, <1>4 DEF Elements
  <2>3. CASE j = Len(q) + 1 /\ i \in DOMAIN q
    BY <2>3, <1>2, <1>3, <1>4 DEF Elements
  <2>4. CASE i = Len(q) + 1 /\ j = Len(q) + 1
    BY <2>4
  <2> QED  BY <2>1, <2>2, <2>3, <2>4, <1>1, <1>2
<1> QED  BY <1>1, <1>5, <1>6 DEF r

\* Taking the first element off removes it from the elements.
LEMMA TailDistinct ==
  ASSUME NEW S, NEW q \in Seq(S), q # <<>>, Distinct(q)
  PROVE  /\ Tail(q) \in Seq(S)
         /\ Len(Tail(q)) = Len(q) - 1
         /\ Distinct(Tail(q))
         /\ Head(q) \in Elements(q)
         /\ Elements(Tail(q)) = Elements(q) \ {Head(q)}
<1> DEFINE r == Tail(q)
<1>1. r \in Seq(S) /\ Len(r) = Len(q) - 1 /\ DOMAIN r = 1 .. Len(q) - 1
  OBVIOUS
<1>2. DOMAIN q = 1 .. Len(q) /\ Len(q) \in Nat /\ Len(q) > 0
  OBVIOUS
<1>3. \A i \in 1 .. Len(q) - 1 : r[i] = q[i + 1]
  OBVIOUS
<1>4. Head(q) = q[1]
  OBVIOUS
<1> HIDE DEF r
<1>5. Head(q) \in Elements(q)
  BY <1>2, <1>4 DEF Elements
<1>6. Elements(r) = Elements(q) \ {Head(q)}
  <2>1. \A i \in DOMAIN r : i + 1 \in DOMAIN q /\ i + 1 # 1 /\ r[i] = q[i + 1]
    BY <1>1, <1>2, <1>3
  <2>2. \A i \in DOMAIN q : i # 1 => i - 1 \in DOMAIN r /\ r[i - 1] = q[i]
    BY <1>1, <1>2, <1>3
  <2>3. 1 \in DOMAIN q
    BY <1>2
  <2>4. \A i \in DOMAIN q : q[i] = Head(q) <=> i = 1
    BY <2>3, <1>4 DEF Distinct
  <2>5. Elements(r) \subseteq Elements(q) \ {Head(q)}
    BY <2>1, <2>4 DEF Elements
  <2>6. Elements(q) \ {Head(q)} \subseteq Elements(r)
    BY <2>2, <2>4 DEF Elements
  <2> QED  BY <2>5, <2>6
<1>7. Distinct(r)
  <2> SUFFICES ASSUME NEW i \in DOMAIN r, NEW j \in DOMAIN r, r[i] = r[j]
               PROVE  i = j
    BY DEF Distinct
  <2>1. i + 1 \in DOMAIN q /\ j + 1 \in DOMAIN q /\ q[i + 1] = q[j + 1]
    BY <1>1, <1>2, <1>3
  <2>2. i + 1 = j + 1
    BY <2>1 DEF Distinct
  <2> QED  BY <2>2, <1>1
<1> QED  BY <1>1, <1>5, <1>6, <1>7 DEF r

-----------------------------------------------------------------------------
(* What sends and receives do to the events under way.                     *)

ChannelOK ==
  /\ eventChan \in Seq(Events) /\ Len(eventChan) <= ChanCap
  /\ posting \subseteq Events
  /\ NoDuplicates

Adds(ev)    == ChannelOK' /\ UnderWay' = UnderWay \cup {ev}
Removes(ev) == ChannelOK' /\ UnderWay' = UnderWay \ {ev} /\ ev \in UnderWay
Keeps       == ChannelOK' /\ UnderWay' = UnderWay

\* A new event at the end of the channel.
LEMMA AppendEvent ==
  ASSUME eventChan \in Seq(Events), NEW ev \in Events, Distinct(eventChan),
         ev \notin Elements(eventChan), eventChan' = Append(eventChan, ev)
  PROVE  /\ eventChan' \in Seq(Events)
         /\ Len(eventChan') = Len(eventChan) + 1
         /\ Distinct(eventChan')
         /\ Elements(eventChan') = Elements(eventChan) \cup {ev}
<1>1. /\ Append(eventChan, ev) \in Seq(Events)
      /\ Len(Append(eventChan, ev)) = Len(eventChan) + 1
      /\ Distinct(Append(eventChan, ev))
      /\ Elements(Append(eventChan, ev)) = Elements(eventChan) \cup {ev}
  BY AppendDistinct, Zenon
<1> QED  BY <1>1, Zenon

\* eventChan <- ev, when it does not block
LEMMA SendAdds ==
  ASSUME ChannelOK, NEW ev \in Events, ev \notin UnderWay, HasRoom,
         eventChan' = Append(eventChan, ev), UNCHANGED posting
  PROVE  Adds(ev)
<1>1. Distinct(eventChan) /\ ev \notin Elements(eventChan)
  BY DEF ChannelOK, NoDuplicates, Distinct, UnderWay, Queued, Elements
<1>2. /\ eventChan' \in Seq(Events)
      /\ Len(eventChan') = Len(eventChan) + 1
      /\ Distinct(eventChan')
      /\ Elements(eventChan') = Elements(eventChan) \cup {ev}
  BY <1>1, AppendEvent DEF ChannelOK
<1>3. Len(eventChan') <= ChanCap
  BY <1>2, BoundsAssumption DEF HasRoom, ChannelOK
<1>4. Queued = Elements(eventChan) /\ Queued' = Elements(eventChan')
  BY DEF Queued, Elements
<1>5. posting' \cap Queued' = {}
  BY <1>2, <1>4 DEF ChannelOK, NoDuplicates, UnderWay
<1>6. NoDuplicates'
  BY <1>2, <1>5 DEF NoDuplicates, Distinct
<1> QED  BY <1>2, <1>3, <1>4, <1>6 DEF Adds, ChannelOK, UnderWay

LEMMA SpawnAdds ==
  ASSUME ChannelOK, NEW ev \in Events, ev \notin UnderWay, Spawn(ev)
  PROVE  Adds(ev)
BY DEF ChannelOK, Spawn, Adds, NoDuplicates, UnderWay, Queued

LEMMA PostOrSpawnAdds ==
  ASSUME ChannelOK, NEW ev \in Events, ev \notin UnderWay, PostOrSpawn(ev)
  PROVE  Adds(ev)
<1>1. CASE HasRoom
  BY <1>1, SendAdds DEF PostOrSpawn
<1>2. CASE ~HasRoom
  BY <1>2, SpawnAdds DEF PostOrSpawn, Spawn
<1> QED  BY <1>1, <1>2

LEMMA PostKeeps ==
  ASSUME ChannelOK, NEW ev \in posting, Post(ev)
  PROVE  Keeps
<1>1. Distinct(eventChan) /\ ev \notin Elements(eventChan) /\ ev \in Events
  BY DEF ChannelOK, NoDuplicates, Distinct, Queued, Elements
<1>2. eventChan' = Append(eventChan, ev) /\ posting' = posting \ {ev} /\ HasRoom
  BY DEF Post
<1>3. /\ eventChan' \in Seq(Events)
      /\ Len(eventChan') = Len(eventChan) + 1
      /\ Distinct(eventChan')
      /\ Elements(eventChan') = Elements(eventChan) \cup {ev}
  BY <1>1, <1>2, AppendEvent DEF ChannelOK
<1>4. Len(eventChan') <= ChanCap
  BY <1>2, <1>3, BoundsAssumption DEF HasRoom, ChannelOK
<1>5. Queued = Elements(eventChan) /\ Queued' = Elements(eventChan')
  BY DEF Queued, Elements
<1>6. NoDuplicates'
  <2>1. posting' \cap Queued' = {}
    BY <1>2, <1>3, <1>5 DEF ChannelOK, NoDuplicates
  <2> QED  BY <1>3, <2>1 DEF NoDuplicates, Distinct
<1> QED  BY <1>2, <1>3, <1>4, <1>5, <1>6 DEF Keeps, ChannelOK, UnderWay

LEMMA ReceiveRemoves ==
  ASSUME ChannelOK, NEW ev, Receive(ev), UNCHANGED posting
  PROVE  Removes(ev) /\ ev \in Events
<1>1. Distinct(eventChan) /\ eventChan # <<>> /\ Head(eventChan) = ev
  BY DEF ChannelOK, NoDuplicates, Distinct, Receive
<1>2. eventChan' = Tail(eventChan)
  BY DEF Receive
<1>3. /\ eventChan' \in Seq(Events)
      /\ Len(eventChan') = Len(eventChan) - 1
      /\ Distinct(eventChan')
      /\ ev \in Elements(eventChan)
      /\ Elements(eventChan') = Elements(eventChan) \ {ev}
  BY <1>1, <1>2, TailDistinct, Zenon DEF ChannelOK
<1>4. Len(eventChan') <= ChanCap
  BY <1>3, BoundsAssumption DEF ChannelOK
<1>5. Queued = Elements(eventChan) /\ Queued' = Elements(eventChan')
  BY DEF Queued, Elements
<1>6. NoDuplicates' /\ ev \notin posting
  <2>1. posting' \cap Queued' = {} /\ ev \notin posting
    BY <1>3, <1>5 DEF ChannelOK, NoDuplicates
  <2> QED  BY <1>3, <2>1 DEF NoDuplicates, Distinct
<1>7. ev \in Events
  BY <1>1 DEF ChannelOK
<1> QED  BY <1>3, <1>4, <1>5, <1>6, <1>7 DEF Removes, ChannelOK, UnderWay

LEMMA UnchangedKeeps ==
  ASSUME ChannelOK, UNCHANGED <<eventChan, posting>>
  PROVE  Keeps
BY DEF ChannelOK, Keeps, NoDuplicates, UnderWay, Queued

-----------------------------------------------------------------------------
(* The inductive invariant.  OneWakeup and OneFiring are nearly inductive: *)
(* what they need is that whoever sends an event has not sent it before    *)
(* (Senders), what the loop knows of the thread it runs (Control), and for *)
(* the responses, who still owes one (Owed).                               *)

Control ==
  /\ loop.at = "lua" => status[loop.task] = "running" /\ loop.task \in open
  /\ loop.at = "close" => status[loop.task] \in {"dead", "exited"} /\ loop.task \in open
  /\ loop.at = "reply" => loop.task \in Callers /\ Over(loop.task)
  /\ loop.at = "reply" /\ loop.via # "run" =>
       status[loop.task] \in {"dead", "exited"} /\ loop.task \in open
  /\ loop.via = "run" => loop.task \in Callers
  /\ \A t \in Tasks : status[t] = "running" => loop.at = "lua" /\ loop.task = t
  /\ \A t \in Tasks : status[t] = "yielded" => t \in open
  /\ \A t \in open : status[t] # "none"
  /\ ctl = "new" => starts = 0
  /\ ctl \in {"new", "acked", "stopped", "closed"} => loop.at \in {"down", "panic"}
  /\ ctl \in {"new", "stopped", "closed"} => loop = Down
  /\ loop.at = "down" => pendingTimers = {}

Senders ==
  /\ \A c \in Callers : caller[c] \in {"idle", "calling"} => status[c] = "none"
  /\ \A m \in Timers : timerGo[m] # "gone" => status[m] = "none"
  /\ \A c \in Callers : RunEvent(c) \in UnderWay =>
                          status[c] = "none" /\ loop.task # c
  /\ \A m \in Timers, p \in BOOLEAN : FireEvent(m, p) \in UnderWay =>
                          status[m] = "none" /\ timerGo[m] = "gone"
  /\ StopEvent \in UnderWay => ctl = "sent"

Owes(c) ==
  \/ RunEvent(c) \in UnderWay
  \/ status[c] \in {"running", "yielded"}
  \/ loop.task = c /\ loop.at = "reply"
  \/ loop.task = c /\ loop.at = "close" /\ loop.via = "run"

Owed ==
  \A c \in Callers :
    /\ responseChan[c] > 0 => caller[c] = "waiting"
    /\ Owes(c) => caller[c] = "waiting" /\ responseChan[c] = 0

IInv == TypeOK /\ OneWakeup /\ Control /\ Senders /\ OneFiring /\ Owed

USE TasksAssumption, BoundsAssumption DEF Tasks

\* A finite set of timers has a size.
LEMMA PendingSize ==
  ASSUME TypeOK
  PROVE  IsFiniteSet(pendingTimers) /\ Cardinality(pendingTimers) \in Nat
BY FS_Subset, FS_CardinalityType DEF TypeOK

THEOREM InitIInv == Init => IInv
<1> SUFFICES ASSUME Init PROVE IInv
  OBVIOUS
<1>1. UnderWay = {} /\ NoDuplicates
  BY DEF Init, UnderWay, Queued, NoDuplicates
<1>2. TypeOK
  <2>1. eventChan \in Seq(Events) /\ Len(eventChan) <= ChanCap
    BY DEF Init
  <2>2. yields \in [Tasks -> 0..MaxYields] /\ starts \in 0..MaxStarts
    BY DEF Init
  <2>3. responseChan \in [Callers -> 0..1] /\ threadWg \in Nat
    BY DEF Init
  <2>4. loop \in LoopStates
    BY DEF Init, LoopStates
  <2> QED  BY <2>1, <2>2, <2>3, <2>4 DEF Init, TypeOK
<1>3. OneWakeup /\ Senders /\ OneFiring
  BY <1>1 DEF Init, OneWakeup, Senders, OneFiring, FiresOnce, Firing
<1>4. Control
  BY DEF Init, Control, Down, At
<1>5. Owed
  BY <1>1 DEF Init, Owed, Owes, Down, At, Tasks
<1> QED  BY <1>2, <1>3, <1>4, <1>5 DEF IInv

\* Events of different kinds, or for different tasks, are different.
LEMMA EventFacts ==
  /\ \A c \in Callers : RunEvent(c) \in Events
  /\ \A t \in Tasks : ResumeEvent(t) \in Events
  /\ \A m \in Timers, p \in BOOLEAN : FireEvent(m, p) \in Events
  /\ StopEvent \in Events
  /\ \A x, y : RunEvent(x) = RunEvent(y) => x = y
  /\ \A x, y : ResumeEvent(x) = ResumeEvent(y) => x = y
  /\ \A x, y, p, q : FireEvent(x, p) = FireEvent(y, q) => x = y /\ p = q
  /\ \A x, y, p : RunEvent(x) # ResumeEvent(y) /\ RunEvent(x) # FireEvent(y, p)
  /\ \A x, y, p : ResumeEvent(x) # FireEvent(y, p)
  /\ \A x, p : /\ StopEvent # RunEvent(x) /\ StopEvent # ResumeEvent(x)
               /\ StopEvent # FireEvent(x, p)
<1>1. /\ \A c \in Callers : RunEvent(c) \in Events
      /\ \A t \in Tasks : ResumeEvent(t) \in Events
      /\ \A m \in Timers, p \in BOOLEAN : FireEvent(m, p) \in Events
      /\ StopEvent \in Events
  BY DEF Events
<1>2. \A x : RunEvent(x).type = "run" /\ RunEvent(x).task = x
  BY DEF RunEvent, Event
<1>3. \A x : ResumeEvent(x).type = "resume" /\ ResumeEvent(x).task = x
  BY DEF ResumeEvent, Event
<1>4. \A x, p : /\ FireEvent(x, p).type = "fire" /\ FireEvent(x, p).task = x
                /\ FireEvent(x, p).premature = p
  BY DEF FireEvent, Event
<1>5. StopEvent.type = "stop"
  BY DEF StopEvent, Event
<1>6. /\ \A x, y : RunEvent(x) = RunEvent(y) => x = y
      /\ \A x, y : ResumeEvent(x) = ResumeEvent(y) => x = y
  BY <1>2, <1>3
<1>7. \A x, y, p, q : FireEvent(x, p) = FireEvent(y, q) => x = y /\ p = q
  BY <1>4
<1>8. \A x, y, p : /\ RunEvent(x) # ResumeEvent(y) /\ RunEvent(x) # FireEvent(y, p)
                   /\ ResumeEvent(x) # FireEvent(y, p)
  BY <1>2, <1>3, <1>4
<1>9. \A x, p : /\ StopEvent # RunEvent(x) /\ StopEvent # ResumeEvent(x)
                /\ StopEvent # FireEvent(x, p)
  BY <1>2, <1>3, <1>4, <1>5
<1> QED  BY <1>1, <1>6, <1>7, <1>8, <1>9

LEMMA InvChannel == IInv => ChannelOK
BY DEF IInv, TypeOK, OneWakeup, ChannelOK

-----------------------------------------------------------------------------
(* Every step keeps the invariant: one lemma per action.                   *)

LEMMA CallKeeps ==
  ASSUME IInv, NEW c \in Callers, Call(c)
  PROVE  IInv'
<1>1. ChannelOK' /\ UnderWay' = UnderWay
  BY InvChannel, UnchangedKeeps DEF Call, Keeps
<1> USE DEF Call, timerVars, threadVars
<1>2. TypeOK'
  BY <1>1 DEF IInv, TypeOK, ChannelOK
<1>3. OneWakeup'
  BY <1>1 DEF IInv, OneWakeup, ChannelOK
<1>4. Control'
  BY DEF IInv, Control, Over
<1>5. Senders'
  BY <1>1 DEF IInv, Senders, TypeOK
<1>6. OneFiring'
  BY <1>1 DEF IInv, OneFiring, FiresOnce, Firing
<1>7. Owed'
  BY <1>1 DEF IInv, TypeOK, Owed, Owes, Senders
<1> QED  BY <1>2, <1>3, <1>4, <1>5, <1>6, <1>7 DEF IInv

LEMMA SendRunKeeps ==
  ASSUME IInv, NEW c \in Callers, SendRun(c)
  PROVE  IInv'
<1>1. RunEvent(c) \notin UnderWay /\ loop.task # c
  BY DEF SendRun, IInv, Owed, Owes, Senders, Control, TypeOK, LoopStates, At, Down, Idle, Panic
<1>2. ChannelOK' /\ UnderWay' = UnderWay \cup {RunEvent(c)}
  BY <1>1, EventFacts, InvChannel, SendAdds DEF SendRun, Adds
<1> USE DEF SendRun, timerVars, threadVars, ctlVars
<1>3. TypeOK'
  BY <1>2 DEF IInv, TypeOK, ChannelOK
<1>4. OneWakeup'
  BY <1>2, EventFacts DEF IInv, OneWakeup, ChannelOK
<1>5. Control'
  BY DEF IInv, Control, Over
<1>6. Senders'
  BY <1>1, <1>2, EventFacts DEF IInv, Senders, TypeOK
<1>7. OneFiring'
  BY <1>2, EventFacts DEF IInv, OneFiring, FiresOnce, Firing
<1>8. Owed'
  BY <1>2, EventFacts DEF IInv, TypeOK, Owed, Owes
<1> QED  BY <1>3, <1>4, <1>5, <1>6, <1>7, <1>8 DEF IInv

LEMMA CallReturnsKeeps ==
  ASSUME IInv, NEW c \in Callers, CallReturns(c)
  PROVE  IInv'
<1>1. ChannelOK' /\ UnderWay' = UnderWay
  BY InvChannel, UnchangedKeeps DEF CallReturns, Keeps
<1> USE DEF CallReturns, timerVars, threadVars, ctlVars
<1>2. TypeOK'
  BY <1>1 DEF IInv, TypeOK, ChannelOK
<1>3. OneWakeup'
  BY <1>1 DEF IInv, TypeOK, OneWakeup, ChannelOK, Control
<1>4. Control'
  BY <1>1 DEF IInv, TypeOK, Control, Over
<1>5. Senders'
  BY <1>1 DEF IInv, TypeOK, Senders, Control
<1>6. OneFiring'
  BY <1>1 DEF IInv, TypeOK, OneFiring, FiresOnce, Firing, Control
<1>7. Owed'
  BY <1>1 DEF IInv, TypeOK, Owed, Owes, Control, Senders
<1> QED  BY <1>2, <1>3, <1>4, <1>5, <1>6, <1>7 DEF IInv

LEMMA LuaEndsKeeps ==
  ASSUME IInv, NEW t \in Tasks, NEW how \in {"dead", "exited"}, LuaEnds(t, how)
  PROVE  IInv'
<1>1. ChannelOK' /\ UnderWay' = UnderWay
  BY InvChannel, UnchangedKeeps DEF LuaEnds, Keeps
<1> USE DEF LuaEnds, AfterResume, timerVars, callVars, ctlVars, LoopStates, At, Down, Idle, Panic
<1>2. TypeOK'
  BY <1>1 DEF IInv, TypeOK, ChannelOK
<1>3. OneWakeup'
  BY <1>1 DEF IInv, TypeOK, OneWakeup, ChannelOK, Control
<1>4. Control'
  BY <1>1 DEF IInv, TypeOK, Control, Over
<1>5. Senders'
  BY <1>1 DEF IInv, TypeOK, Senders, Control
<1>6. OneFiring'
  BY <1>1 DEF IInv, TypeOK, OneFiring, FiresOnce, Firing, Control
<1>7. Owed'
  BY <1>1 DEF IInv, TypeOK, Owed, Owes, Control, Senders
<1> QED  BY <1>2, <1>3, <1>4, <1>5, <1>6, <1>7 DEF IInv

LEMMA CancelTimersKeeps ==
  ASSUME IInv, CancelTimers
  PROVE  IInv'
<1>1. ChannelOK' /\ UnderWay' = UnderWay
  BY InvChannel, UnchangedKeeps DEF CancelTimers, Keeps
<1> USE DEF CancelTimers, LuaGoesOn, callVars, ctlVars
<1>2. TypeOK'
  BY <1>1 DEF IInv, TypeOK, ChannelOK
<1>3. OneWakeup'
  BY <1>1 DEF IInv, TypeOK, OneWakeup, ChannelOK, Control
<1>4. Control'
  BY <1>1 DEF IInv, TypeOK, Control, Over
<1>5. Senders'
  BY <1>1 DEF IInv, TypeOK, Senders, Control
<1>6. OneFiring'
  BY <1>1 DEF IInv, TypeOK, OneFiring, FiresOnce, Firing, Control
<1>7. Owed'
  BY <1>1 DEF IInv, TypeOK, Owed, Owes, Control, Senders
<1> QED  BY <1>2, <1>3, <1>4, <1>5, <1>6, <1>7 DEF IInv

LEMMA TimerAtKeeps ==
  ASSUME IInv, NEW m \in Timers, TimerAt(m)
  PROVE  IInv'
<1>1. ChannelOK' /\ UnderWay' = UnderWay
  BY InvChannel, UnchangedKeeps DEF TimerAt, Keeps
<1> USE DEF TimerAt, LuaGoesOn, NewTimer, callVars, ctlVars
<1>2. TypeOK'
  BY <1>1 DEF IInv, TypeOK, ChannelOK
<1>3. OneWakeup'
  BY <1>1 DEF IInv, TypeOK, OneWakeup, ChannelOK, Control
<1>4. Control'
  BY <1>1 DEF IInv, TypeOK, Control, Over
<1>5. Senders'
  BY <1>1 DEF IInv, TypeOK, Senders, Control
<1>6. OneFiring'
  <2> SUFFICES ASSUME NEW x \in Timers PROVE FiresOnce(x)'
    BY DEF OneFiring
  <2>1. FiresOnce(x) /\ FiresOnce(m)
    BY DEF IInv, OneFiring
  <2>2. Firing(x)' <=> Firing(x)
    BY <1>1 DEF Firing
  <2>3. CASE x = m
    BY <2>1, <2>2, <2>3, <1>1 DEF IInv, TypeOK, Senders, FiresOnce, Firing
  <2>4. CASE x # m
    BY <2>1, <2>2, <2>4, <1>1 DEF IInv, TypeOK, FiresOnce
  <2> QED  BY <2>3, <2>4
<1>7. Owed'
  BY <1>1 DEF IInv, TypeOK, Owed, Owes, Control, Senders
<1> QED  BY <1>2, <1>3, <1>4, <1>5, <1>6, <1>7 DEF IInv

LEMMA ReplyKeeps ==
  ASSUME IInv, Reply
  PROVE  IInv'
<1>1. ChannelOK' /\ UnderWay' = UnderWay
  BY InvChannel, UnchangedKeeps DEF Reply, Keeps
<1> USE DEF Reply, timerVars, threadVars, ctlVars, LoopStates, At, Down, Idle, Panic
<1> PICK c \in Callers : c = loop.task
  BY DEF IInv, Control
<1>a. Over(c)
  BY DEF IInv, Control
<1>b. responseChan' = [responseChan EXCEPT ![c] = 1]
  OBVIOUS
<1>c. loop' = Idle \/ loop' = At("close", c, loop.via)
  OBVIOUS
<1>2. TypeOK'
  <2>1. responseChan' \in [Callers -> 0..1]
    BY <1>a, <1>b DEF IInv, TypeOK
  <2>2. loop' \in LoopStates
    BY <1>a, <1>c DEF IInv, TypeOK
  <2> QED  BY <1>1, <2>1, <2>2 DEF IInv, TypeOK, ChannelOK
<1>3. OneWakeup'
  BY <1>1 DEF IInv, TypeOK, OneWakeup, ChannelOK, Control
<1>4. Control'
  <2>1. UNCHANGED <<status, open, ctl, starts, pendingTimers>>
    OBVIOUS
  <2>2. CASE loop.via = "run"
    BY <2>1, <2>2 DEF IInv, TypeOK, Control, Over
  <2>3. CASE loop.via # "run"
    BY <2>1, <2>3, <1>a DEF IInv, TypeOK, Control, Over
  <2> QED  BY <2>2, <2>3
<1>5. Senders'
  BY <1>1 DEF IInv, TypeOK, Senders, Control
<1>6. OneFiring'
  BY <1>1 DEF IInv, TypeOK, OneFiring, FiresOnce, Firing, Control
<1>7. Owed'
  <2>1. /\ ~Owes(c)' /\ caller' = caller
        /\ Owes(c)
    BY <1>1, <1>a, <1>c DEF IInv, TypeOK, Owes, Over, Senders
  <2>2. \A d \in Callers : d # c => (Owes(d)' => Owes(d))
    BY <1>1, <1>c DEF Owes
  <2> QED  BY <1>a, <1>b, <2>1, <2>2 DEF IInv, TypeOK, Owed
<1> QED  BY <1>2, <1>3, <1>4, <1>5, <1>6, <1>7 DEF IInv

LEMMA CloseThreadKeeps ==
  ASSUME IInv, CloseThread
  PROVE  IInv'
<1>1. ChannelOK' /\ UnderWay' = UnderWay
  BY InvChannel, UnchangedKeeps DEF CloseThread, Keeps
<1> USE DEF CloseThread, Done, timerVars, callVars, ctlVars, LoopStates, At, Down, Idle, Panic
<1>2. TypeOK'
  BY <1>1 DEF IInv, TypeOK, ChannelOK
<1>3. OneWakeup'
  BY <1>1 DEF IInv, TypeOK, OneWakeup, ChannelOK, Control
<1>4. Control'
  BY <1>1 DEF IInv, TypeOK, Control, Over
<1>5. Senders'
  BY <1>1 DEF IInv, TypeOK, Senders, Control
<1>6. OneFiring'
  BY <1>1 DEF IInv, TypeOK, OneFiring, FiresOnce, Firing, Control
<1>7. Owed'
  BY <1>1 DEF IInv, TypeOK, Owed, Owes, Control, Senders
<1> QED  BY <1>2, <1>3, <1>4, <1>5, <1>6, <1>7 DEF IInv

LEMMA StartKeeps ==
  ASSUME IInv, Start
  PROVE  IInv'
<1>1. ChannelOK' /\ UnderWay' = UnderWay
  BY InvChannel, UnchangedKeeps DEF Start, Launch, Keeps
<1> USE DEF Start, Launch, timerVars, threadVars, callVars, LoopStates, At, Down, Idle, Panic
<1>2. TypeOK'
  <2>1. starts' \in 0..MaxStarts
    BY DEF IInv, TypeOK, Control
  <2> QED  BY <1>1, <2>1 DEF IInv, TypeOK, ChannelOK
<1>3. OneWakeup'
  BY <1>1 DEF IInv, TypeOK, OneWakeup, ChannelOK, Control
<1>4. Control'
  BY <1>1 DEF IInv, TypeOK, Control, Over
<1>5. Senders'
  BY <1>1 DEF IInv, TypeOK, Senders, Control
<1>6. OneFiring'
  <2>1. pendingTimers = {}
    BY DEF IInv, Control
  <2> QED  BY <1>1, <2>1 DEF IInv, OneFiring, FiresOnce, Firing
<1>7. Owed'
  BY <1>1 DEF IInv, TypeOK, Owed, Owes, Control, Senders
<1> QED  BY <1>2, <1>3, <1>4, <1>5, <1>6, <1>7 DEF IInv

LEMMA RestartKeeps ==
  ASSUME IInv, Restart
  PROVE  IInv'
<1>1. ChannelOK' /\ UnderWay' = UnderWay
  BY InvChannel, UnchangedKeeps DEF Restart, Launch, Keeps
<1> USE DEF Restart, Launch, timerVars, threadVars, callVars, LoopStates, At, Down, Idle, Panic
<1>2. TypeOK'
  <2>1. starts' \in 0..MaxStarts
    BY DEF IInv, TypeOK, Control
  <2> QED  BY <1>1, <2>1 DEF IInv, TypeOK, ChannelOK
<1>3. OneWakeup'
  BY <1>1 DEF IInv, TypeOK, OneWakeup, ChannelOK, Control
<1>4. Control'
  BY <1>1 DEF IInv, TypeOK, Control, Over
<1>5. Senders'
  BY <1>1 DEF IInv, TypeOK, Senders, Control
<1>6. OneFiring'
  <2>1. pendingTimers = {}
    BY DEF IInv, Control
  <2> QED  BY <1>1, <2>1 DEF IInv, OneFiring, FiresOnce, Firing
<1>7. Owed'
  BY <1>1 DEF IInv, TypeOK, Owed, Owes, Control, Senders
<1> QED  BY <1>2, <1>3, <1>4, <1>5, <1>6, <1>7 DEF IInv

LEMMA WaitReturnsKeeps ==
  ASSUME IInv, WaitReturns
  PROVE  IInv'
<1>1. ChannelOK' /\ UnderWay' = UnderWay
  BY InvChannel, UnchangedKeeps DEF WaitReturns, Keeps
<1> USE DEF WaitReturns, timerVars, threadVars, callVars
<1>2. TypeOK'
  BY <1>1 DEF IInv, TypeOK, ChannelOK
<1>3. OneWakeup'
  BY <1>1 DEF IInv, TypeOK, OneWakeup, ChannelOK, Control
<1>4. Control'
  BY <1>1 DEF IInv, TypeOK, Control, Over
<1>5. Senders'
  BY <1>1 DEF IInv, TypeOK, Senders, Control
<1>6. OneFiring'
  BY <1>1 DEF IInv, TypeOK, OneFiring, FiresOnce, Firing, Control
<1>7. Owed'
  BY <1>1 DEF IInv, TypeOK, Owed, Owes, Control, Senders
<1> QED  BY <1>2, <1>3, <1>4, <1>5, <1>6, <1>7 DEF IInv

LEMMA StopBeginsKeeps ==
  ASSUME IInv, StopBegins
  PROVE  IInv'
<1>1. ChannelOK' /\ UnderWay' = UnderWay
  BY InvChannel, UnchangedKeeps DEF StopBegins, Keeps
<1> USE DEF StopBegins, timerVars, threadVars, callVars
<1>2. TypeOK'
  BY <1>1 DEF IInv, TypeOK, ChannelOK
<1>3. OneWakeup'
  BY <1>1 DEF IInv, TypeOK, OneWakeup, ChannelOK, Control
<1>4. Control'
  BY <1>1 DEF IInv, TypeOK, Control, Over
<1>5. Senders'
  BY <1>1 DEF IInv, TypeOK, Senders, Control
<1>6. OneFiring'
  BY <1>1 DEF IInv, TypeOK, OneFiring, FiresOnce, Firing, Control
<1>7. Owed'
  BY <1>1 DEF IInv, TypeOK, Owed, Owes, Control, Senders
<1> QED  BY <1>2, <1>3, <1>4, <1>5, <1>6, <1>7 DEF IInv

LEMMA StopCancelsKeeps ==
  ASSUME IInv, StopCancels
  PROVE  IInv'
<1>1. ChannelOK' /\ UnderWay' = UnderWay
  BY InvChannel, UnchangedKeeps DEF StopCancels, Keeps
<1> USE DEF StopCancels, threadVars, callVars
<1>2. TypeOK'
  BY <1>1 DEF IInv, TypeOK, ChannelOK
<1>3. OneWakeup'
  BY <1>1 DEF IInv, TypeOK, OneWakeup, ChannelOK, Control
<1>4. Control'
  BY <1>1 DEF IInv, TypeOK, Control, Over
<1>5. Senders'
  BY <1>1 DEF IInv, TypeOK, Senders, Control
<1>6. OneFiring'
  BY <1>1 DEF IInv, TypeOK, OneFiring, FiresOnce, Firing, Control
<1>7. Owed'
  BY <1>1 DEF IInv, TypeOK, Owed, Owes, Control, Senders
<1> QED  BY <1>2, <1>3, <1>4, <1>5, <1>6, <1>7 DEF IInv

LEMMA StopReturnsKeeps ==
  ASSUME IInv, loop.at # "panic", StopReturns
  PROVE  IInv'
<1>1. ChannelOK' /\ UnderWay' = UnderWay
  BY InvChannel, UnchangedKeeps DEF StopReturns, Keeps
<1> USE DEF StopReturns, timerVars, threadVars, callVars, LoopStates, At, Down, Idle, Panic
<1>2. TypeOK'
  BY <1>1 DEF IInv, TypeOK, ChannelOK
<1>3. OneWakeup'
  BY <1>1 DEF IInv, TypeOK, OneWakeup, ChannelOK, Control
<1>4. Control'
  BY <1>1 DEF IInv, TypeOK, Control, Over
<1>5. Senders'
  BY <1>1 DEF IInv, TypeOK, Senders, Control
<1>6. OneFiring'
  BY <1>1 DEF IInv, TypeOK, OneFiring, FiresOnce, Firing, Control
<1>7. Owed'
  BY <1>1 DEF IInv, TypeOK, Owed, Owes, Control, Senders
<1> QED  BY <1>2, <1>3, <1>4, <1>5, <1>6, <1>7 DEF IInv

LEMMA CloseKeeps ==
  ASSUME IInv, Close
  PROVE  IInv'
<1>1. ChannelOK' /\ UnderWay' = UnderWay
  BY InvChannel, UnchangedKeeps DEF Close, Keeps
<1> USE DEF Close, timerVars, threadVars, callVars
<1>2. TypeOK'
  BY <1>1 DEF IInv, TypeOK, ChannelOK
<1>3. OneWakeup'
  BY <1>1 DEF IInv, TypeOK, OneWakeup, ChannelOK, Control
<1>4. Control'
  BY <1>1 DEF IInv, TypeOK, Control, Over
<1>5. Senders'
  BY <1>1 DEF IInv, TypeOK, Senders, Control
<1>6. OneFiring'
  BY <1>1 DEF IInv, TypeOK, OneFiring, FiresOnce, Firing, Control
<1>7. Owed'
  BY <1>1 DEF IInv, TypeOK, Owed, Owes, Control, Senders
<1> QED  BY <1>2, <1>3, <1>4, <1>5, <1>6, <1>7 DEF IInv

LEMMA StutterKeeps ==
  ASSUME IInv, UNCHANGED vars
  PROVE  IInv'
<1>1. ChannelOK' /\ UnderWay' = UnderWay
  BY InvChannel, UnchangedKeeps DEF vars, Keeps
<1> USE DEF vars, timerVars, threadVars, callVars, ctlVars
<1>2. TypeOK'
  BY <1>1 DEF IInv, TypeOK, ChannelOK
<1>3. OneWakeup'
  BY <1>1 DEF IInv, TypeOK, OneWakeup, ChannelOK, Control
<1>4. Control'
  BY <1>1 DEF IInv, TypeOK, Control, Over
<1>5. Senders'
  BY <1>1 DEF IInv, TypeOK, Senders, Control
<1>6. OneFiring'
  BY <1>1 DEF IInv, TypeOK, OneFiring, FiresOnce, Firing, Control
<1>7. Owed'
  BY <1>1 DEF IInv, TypeOK, Owed, Owes, Control, Senders
<1> QED  BY <1>2, <1>3, <1>4, <1>5, <1>6, <1>7 DEF IInv

LEMMA SleepZeroKeeps ==
  ASSUME IInv, NEW t \in Tasks, SleepZero(t)
  PROVE  IInv'
<1>1. ResumeEvent(t) \notin UnderWay
  BY DEF SleepZero, LuaYields, IInv, OneWakeup, Control
<1>2. ChannelOK' /\ UnderWay' = UnderWay \cup {ResumeEvent(t)}
  BY <1>1, EventFacts, InvChannel, PostOrSpawnAdds DEF SleepZero, Adds
<1>3. /\ \A d \in Callers : RunEvent(d) \in UnderWay' <=> RunEvent(d) \in UnderWay
      /\ \A u \in Tasks : ResumeEvent(u) \in UnderWay' <=> ResumeEvent(u) \in UnderWay \/ u = t
      /\ \A x \in Timers, p \in BOOLEAN : FireEvent(x, p) \in UnderWay' <=> FireEvent(x, p) \in UnderWay
      /\ StopEvent \in UnderWay' <=> StopEvent \in UnderWay
  BY <1>2, EventFacts
<1> USE DEF SleepZero, LuaYields, timerVars, callVars, ctlVars, LoopStates, At, Down, Idle, Panic
<1>4. TypeOK'
  BY <1>2, PendingSize DEF IInv, TypeOK, ChannelOK
<1>5. OneWakeup'
  BY <1>1, <1>2, <1>3 DEF IInv, TypeOK, OneWakeup, ChannelOK, Control, Senders
<1>6. Control'
  BY <1>1, <1>2 DEF IInv, TypeOK, Control, Over, Senders, OneWakeup
<1>7. Senders'
  BY <1>1, <1>3 DEF IInv, TypeOK, Senders, Control
<1>8. OneFiring'
  BY <1>1, <1>3 DEF IInv, TypeOK, OneFiring, FiresOnce, Firing, Control, Senders
<1>9. Owed'
  BY <1>1, <1>3 DEF IInv, TypeOK, Owed, Owes, Control, Senders, OneWakeup
<1> QED  BY <1>4, <1>5, <1>6, <1>7, <1>8, <1>9 DEF IInv

LEMMA StartAsyncKeeps ==
  ASSUME IInv, NEW t \in Tasks, StartAsync(t)
  PROVE  IInv'
<1>1. ResumeEvent(t) \notin UnderWay
  BY DEF StartAsync, LuaYields, IInv, OneWakeup, Control
<1>2. ChannelOK' /\ UnderWay' = UnderWay \cup {ResumeEvent(t)}
  BY <1>1, EventFacts, InvChannel, SpawnAdds DEF StartAsync, Adds
<1>3. /\ \A d \in Callers : RunEvent(d) \in UnderWay' <=> RunEvent(d) \in UnderWay
      /\ \A u \in Tasks : ResumeEvent(u) \in UnderWay' <=> ResumeEvent(u) \in UnderWay \/ u = t
      /\ \A x \in Timers, p \in BOOLEAN : FireEvent(x, p) \in UnderWay' <=> FireEvent(x, p) \in UnderWay
      /\ StopEvent \in UnderWay' <=> StopEvent \in UnderWay
  BY <1>2, EventFacts
<1> USE DEF StartAsync, LuaYields, timerVars, callVars, ctlVars, LoopStates, At, Down, Idle, Panic
<1>4. TypeOK'
  BY <1>2, PendingSize DEF IInv, TypeOK, ChannelOK
<1>5. OneWakeup'
  BY <1>1, <1>2, <1>3 DEF IInv, TypeOK, OneWakeup, ChannelOK, Control, Senders
<1>6. Control'
  BY <1>1, <1>2 DEF IInv, TypeOK, Control, Over, Senders, OneWakeup
<1>7. Senders'
  BY <1>1, <1>3 DEF IInv, TypeOK, Senders, Control
<1>8. OneFiring'
  BY <1>1, <1>3 DEF IInv, TypeOK, OneFiring, FiresOnce, Firing, Control, Senders
<1>9. Owed'
  BY <1>1, <1>3 DEF IInv, TypeOK, Owed, Owes, Control, Senders, OneWakeup
<1> QED  BY <1>4, <1>5, <1>6, <1>7, <1>8, <1>9 DEF IInv

LEMMA TimerAtZeroKeeps ==
  ASSUME IInv, NEW m \in Timers, TimerAtZero(m)
  PROVE  IInv'
<1>1. FireEvent(m, FALSE) \notin UnderWay
  BY DEF TimerAtZero, NewTimer, IInv, Senders
<1>2. ChannelOK' /\ UnderWay' = UnderWay \cup {FireEvent(m, FALSE)}
  BY <1>1, EventFacts, InvChannel, PostOrSpawnAdds DEF TimerAtZero, Adds
<1>3. /\ \A d \in Callers : RunEvent(d) \in UnderWay' <=> RunEvent(d) \in UnderWay
      /\ \A u \in Tasks : ResumeEvent(u) \in UnderWay' <=> ResumeEvent(u) \in UnderWay
      /\ \A x \in Timers, p \in BOOLEAN : FireEvent(x, p) \in UnderWay' <=> FireEvent(x, p) \in UnderWay \/ (x = m /\ p = FALSE)
      /\ StopEvent \in UnderWay' <=> StopEvent \in UnderWay
  BY <1>2, EventFacts
<1> USE DEF TimerAtZero, LuaGoesOn, NewTimer, callVars, ctlVars
<1>4. TypeOK'
  BY <1>2, PendingSize DEF IInv, TypeOK, ChannelOK
<1>5. OneWakeup'
  BY <1>1, <1>2, <1>3 DEF IInv, TypeOK, OneWakeup, ChannelOK, Control, Senders
<1>6. Control'
  BY <1>1, <1>2 DEF IInv, TypeOK, Control, Over, Senders, OneWakeup
<1>7. Senders'
  BY <1>1, <1>3 DEF IInv, TypeOK, Senders, Control
<1>8. OneFiring'
  <2> SUFFICES ASSUME NEW x \in Timers PROVE FiresOnce(x)'
    BY DEF OneFiring
  <2>1. FiresOnce(x) /\ FiresOnce(m)
    BY DEF IInv, OneFiring
  <2>2. Firing(x)' <=> Firing(x) \/ x = m
    BY <1>3 DEF Firing
  <2>3. CASE x = m
    BY <2>1, <2>2, <2>3, <1>3 DEF IInv, TypeOK, Senders, FiresOnce, Firing
  <2>4. CASE x # m
    BY <2>1, <2>2, <2>4, <1>3 DEF IInv, TypeOK, FiresOnce
  <2> QED  BY <2>3, <2>4
<1>9. Owed'
  BY <1>1, <1>3 DEF IInv, TypeOK, Owed, Owes, Control, Senders, OneWakeup
<1> QED  BY <1>4, <1>5, <1>6, <1>7, <1>8, <1>9 DEF IInv

LEMMA TimerExpiresKeeps ==
  ASSUME IInv, NEW m \in Timers, TimerExpires(m)
  PROVE  IInv'
<1>1. FireEvent(m, FALSE) \notin UnderWay
  BY DEF TimerExpires, IInv, Senders
<1>2. ChannelOK' /\ UnderWay' = UnderWay \cup {FireEvent(m, FALSE)}
  BY <1>1, EventFacts, InvChannel, SpawnAdds DEF TimerExpires, Adds
<1>3. /\ \A d \in Callers : RunEvent(d) \in UnderWay' <=> RunEvent(d) \in UnderWay
      /\ \A u \in Tasks : ResumeEvent(u) \in UnderWay' <=> ResumeEvent(u) \in UnderWay
      /\ \A x \in Timers, p \in BOOLEAN : FireEvent(x, p) \in UnderWay' <=> FireEvent(x, p) \in UnderWay \/ (x = m /\ p = FALSE)
      /\ StopEvent \in UnderWay' <=> StopEvent \in UnderWay
  BY <1>2, EventFacts
<1> USE DEF TimerExpires, threadVars, callVars, ctlVars
<1>4. TypeOK'
  BY <1>2, PendingSize DEF IInv, TypeOK, ChannelOK
<1>5. OneWakeup'
  BY <1>1, <1>2, <1>3 DEF IInv, TypeOK, OneWakeup, ChannelOK, Control, Senders
<1>6. Control'
  BY <1>1, <1>2 DEF IInv, TypeOK, Control, Over, Senders, OneWakeup
<1>7. Senders'
  BY <1>1, <1>3 DEF IInv, TypeOK, Senders, Control
<1>8. OneFiring'
  <2> SUFFICES ASSUME NEW x \in Timers PROVE FiresOnce(x)'
    BY DEF OneFiring
  <2>1. FiresOnce(x) /\ FiresOnce(m)
    BY DEF IInv, OneFiring
  <2>2. Firing(x)' <=> Firing(x) \/ x = m
    BY <1>3 DEF Firing
  <2>3. CASE x = m
    BY <2>1, <2>2, <2>3, <1>3 DEF IInv, TypeOK, Senders, FiresOnce, Firing
  <2>4. CASE x # m
    BY <2>1, <2>2, <2>4, <1>3 DEF IInv, TypeOK, FiresOnce
  <2> QED  BY <2>3, <2>4
<1>9. Owed'
  BY <1>1, <1>3 DEF IInv, TypeOK, Owed, Owes, Control, Senders, OneWakeup
<1> QED  BY <1>4, <1>5, <1>6, <1>7, <1>8, <1>9 DEF IInv

LEMMA StopSendsKeeps ==
  ASSUME IInv, StopSends
  PROVE  IInv'
<1>1. StopEvent \notin UnderWay
  BY DEF StopSends, IInv, Senders
<1>2. ChannelOK' /\ UnderWay' = UnderWay \cup {StopEvent}
  BY <1>1, EventFacts, InvChannel, SendAdds DEF StopSends, HasRoom, Adds
<1>3. /\ \A d \in Callers : RunEvent(d) \in UnderWay' <=> RunEvent(d) \in UnderWay
      /\ \A u \in Tasks : ResumeEvent(u) \in UnderWay' <=> ResumeEvent(u) \in UnderWay
      /\ \A x \in Timers, p \in BOOLEAN : FireEvent(x, p) \in UnderWay' <=> FireEvent(x, p) \in UnderWay
      /\ StopEvent \in UnderWay'
  BY <1>2, EventFacts
<1> USE DEF StopSends, timerVars, threadVars, callVars
<1>4. TypeOK'
  BY <1>2, PendingSize DEF IInv, TypeOK, ChannelOK
<1>5. OneWakeup'
  BY <1>1, <1>2, <1>3 DEF IInv, TypeOK, OneWakeup, ChannelOK, Control, Senders
<1>6. Control'
  BY <1>1, <1>2 DEF IInv, TypeOK, Control, Over, Senders, OneWakeup
<1>7. Senders'
  BY <1>1, <1>3 DEF IInv, TypeOK, Senders, Control
<1>8. OneFiring'
  BY <1>1, <1>3 DEF IInv, TypeOK, OneFiring, FiresOnce, Firing, Control, Senders
<1>9. Owed'
  BY <1>1, <1>3 DEF IInv, TypeOK, Owed, Owes, Control, Senders, OneWakeup
<1> QED  BY <1>4, <1>5, <1>6, <1>7, <1>8, <1>9 DEF IInv

LEMMA HandleRunFailsKeeps ==
  ASSUME IInv, NEW c \in Callers, HandleRunFails(c)
  PROVE  IInv'
<1>1. RunEvent(c) \in UnderWay /\ loop.at = "recv"
  BY InvChannel, ReceiveRemoves DEF HandleRunFails, Removes, Receive
<1>2. ChannelOK' /\ UnderWay' = UnderWay \ {RunEvent(c)}
  BY InvChannel, ReceiveRemoves DEF HandleRunFails, Removes
<1>3. /\ \A d \in Callers : RunEvent(d) \in UnderWay' <=> RunEvent(d) \in UnderWay /\ d # c
      /\ \A u \in Tasks : ResumeEvent(u) \in UnderWay' <=> ResumeEvent(u) \in UnderWay
      /\ \A x \in Timers, p \in BOOLEAN : FireEvent(x, p) \in UnderWay' <=> FireEvent(x, p) \in UnderWay
      /\ StopEvent \in UnderWay' <=> StopEvent \in UnderWay
  BY <1>2, EventFacts
<1> USE DEF HandleRunFails, timerVars, threadVars, callVars, ctlVars, LoopStates, At, Down, Idle, Panic
<1>4. TypeOK'
  BY <1>2, PendingSize DEF IInv, TypeOK, ChannelOK
<1>5. OneWakeup'
  BY <1>1, <1>2, <1>3 DEF IInv, TypeOK, OneWakeup, ChannelOK, Control, Senders
<1>6. Control'
  BY <1>1, <1>2 DEF IInv, TypeOK, Control, Over, Senders, OneWakeup
<1>7. Senders'
  BY <1>1, <1>3 DEF IInv, TypeOK, Senders, Control
<1>8. OneFiring'
  BY <1>1, <1>3 DEF IInv, TypeOK, OneFiring, FiresOnce, Firing, Control, Senders
<1>9. Owed'
  BY <1>1, <1>3 DEF IInv, TypeOK, Owed, Owes, Control, Senders, OneWakeup
<1> QED  BY <1>4, <1>5, <1>6, <1>7, <1>8, <1>9 DEF IInv

LEMMA HandleRunKeeps ==
  ASSUME IInv, NEW c \in Callers, HandleRun(c)
  PROVE  IInv'
<1>1. RunEvent(c) \in UnderWay /\ loop.at = "recv"
  BY InvChannel, ReceiveRemoves DEF HandleRun, Removes, Receive
<1>2. ChannelOK' /\ UnderWay' = UnderWay \ {RunEvent(c)}
  BY InvChannel, ReceiveRemoves DEF HandleRun, Removes
<1>3. /\ \A d \in Callers : RunEvent(d) \in UnderWay' <=> RunEvent(d) \in UnderWay /\ d # c
      /\ \A u \in Tasks : ResumeEvent(u) \in UnderWay' <=> ResumeEvent(u) \in UnderWay
      /\ \A x \in Timers, p \in BOOLEAN : FireEvent(x, p) \in UnderWay' <=> FireEvent(x, p) \in UnderWay
      /\ StopEvent \in UnderWay' <=> StopEvent \in UnderWay
  BY <1>2, EventFacts
<1> USE DEF HandleRun, timerVars, callVars, ctlVars, LoopStates, At, Down, Idle, Panic
<1>4. TypeOK'
  BY <1>2, PendingSize DEF IInv, TypeOK, ChannelOK
<1>5. OneWakeup'
  BY <1>1, <1>2, <1>3 DEF IInv, TypeOK, OneWakeup, ChannelOK, Control, Senders
<1>6. Control'
  BY <1>1, <1>2 DEF IInv, TypeOK, Control, Over, Senders, OneWakeup
<1>7. Senders'
  <2>1. caller[c] = "waiting" /\ c \notin Timers
    BY <1>1 DEF IInv, Owed, Owes
  <2> QED  BY <1>1, <1>3, <2>1 DEF IInv, TypeOK, Senders
<1>8. OneFiring'
  BY <1>1, <1>3 DEF IInv, TypeOK, OneFiring, FiresOnce, Firing, Control, Senders
<1>9. Owed'
  BY <1>1, <1>3 DEF IInv, TypeOK, Owed, Owes, Control, Senders, OneWakeup
<1> QED  BY <1>4, <1>5, <1>6, <1>7, <1>8, <1>9 DEF IInv

LEMMA HandleResumeKeeps ==
  ASSUME IInv, NEW t \in Tasks, HandleResumeThread(t)
  PROVE  IInv'
<1>1. ResumeEvent(t) \in UnderWay /\ loop.at = "recv"
  BY InvChannel, ReceiveRemoves DEF HandleResumeThread, Removes, Receive
<1>2. ChannelOK' /\ UnderWay' = UnderWay \ {ResumeEvent(t)}
  BY InvChannel, ReceiveRemoves DEF HandleResumeThread, Removes
<1>3. /\ \A d \in Callers : RunEvent(d) \in UnderWay' <=> RunEvent(d) \in UnderWay
      /\ \A u \in Tasks : ResumeEvent(u) \in UnderWay' <=> ResumeEvent(u) \in UnderWay /\ u # t
      /\ \A x \in Timers, p \in BOOLEAN : FireEvent(x, p) \in UnderWay' <=> FireEvent(x, p) \in UnderWay
      /\ StopEvent \in UnderWay' <=> StopEvent \in UnderWay
  BY <1>2, EventFacts
<1> USE DEF HandleResumeThread, Resumable, AfterResume, timerVars, callVars, ctlVars, LoopStates, At, Down, Idle, Panic
<1>a. status[t] = "yielded" /\ t \in open
  BY <1>1 DEF IInv, OneWakeup, Control
<1>b. /\ status' = [status EXCEPT ![t] = "running"]
      /\ loop' = At("lua", t, "resume")
  BY <1>a
<1>4. TypeOK'
  BY <1>2, <1>b DEF IInv, TypeOK, ChannelOK
<1>5. OneWakeup'
  BY <1>1, <1>2, <1>3 DEF IInv, TypeOK, OneWakeup, ChannelOK, Control, Senders
<1>6. Control'
  BY <1>1, <1>2 DEF IInv, TypeOK, Control, Over, Senders, OneWakeup
<1>7. Senders'
  BY <1>a, <1>b, <1>3 DEF IInv, TypeOK, Senders
<1>8. OneFiring'
  BY <1>1, <1>3 DEF IInv, TypeOK, OneFiring, FiresOnce, Firing, Control, Senders
<1>9. Owed'
  BY <1>1, <1>3 DEF IInv, TypeOK, Owed, Owes, Control, Senders, OneWakeup
<1> QED  BY <1>4, <1>5, <1>6, <1>7, <1>8, <1>9 DEF IInv

LEMMA HandleStopKeeps ==
  ASSUME IInv, HandleStop
  PROVE  IInv'
<1>1. StopEvent \in UnderWay /\ loop.at = "recv"
  BY InvChannel, ReceiveRemoves DEF HandleStop, Removes, Receive
<1>2. ChannelOK' /\ UnderWay' = UnderWay \ {StopEvent}
  BY InvChannel, ReceiveRemoves DEF HandleStop, Removes
<1>3. /\ \A d \in Callers : RunEvent(d) \in UnderWay' <=> RunEvent(d) \in UnderWay
      /\ \A u \in Tasks : ResumeEvent(u) \in UnderWay' <=> ResumeEvent(u) \in UnderWay
      /\ \A x \in Timers, p \in BOOLEAN : FireEvent(x, p) \in UnderWay' <=> FireEvent(x, p) \in UnderWay
      /\ StopEvent \notin UnderWay'
  BY <1>2, EventFacts
<1> USE DEF HandleStop, Done, callVars, LoopStates, At, Down, Idle, Panic
<1>4. TypeOK'
  BY <1>2, PendingSize DEF IInv, TypeOK, ChannelOK
<1>5. OneWakeup'
  BY <1>1, <1>2, <1>3 DEF IInv, TypeOK, OneWakeup, ChannelOK, Control, Senders
<1>6. Control'
  BY <1>1, <1>2 DEF IInv, TypeOK, Control, Over, Senders, OneWakeup
<1>7. Senders'
  BY <1>1, <1>3 DEF IInv, TypeOK, Senders, Control
<1>8. OneFiring'
  BY <1>1, <1>3 DEF IInv, TypeOK, OneFiring, FiresOnce, Firing, Control, Senders
<1>9. Owed'
  BY <1>1, <1>3 DEF IInv, TypeOK, Owed, Owes, Control, Senders, OneWakeup
<1> QED  BY <1>4, <1>5, <1>6, <1>7, <1>8, <1>9 DEF IInv

LEMMA TimerCancelledKeeps ==
  ASSUME IInv, NEW m \in Timers, TimerCancelled(m)
  PROVE  IInv'
<1>1. CASE stopping
  <2>1. ChannelOK' /\ UnderWay' = UnderWay
    BY <1>1, InvChannel, UnchangedKeeps DEF TimerCancelled, Keeps
  <2> USE <1>1 DEF TimerCancelled, threadVars, callVars, ctlVars
  <2>2. TypeOK' /\ OneWakeup'
    BY <2>1 DEF IInv, TypeOK, ChannelOK, OneWakeup
  <2>3. Control' /\ Senders'
    BY <2>1 DEF IInv, TypeOK, Control, Over, Senders
  <2>4. OneFiring'
    BY <2>1 DEF IInv, TypeOK, OneFiring, FiresOnce, Firing
  <2>5. Owed'
    BY <2>1 DEF IInv, Owed, Owes
  <2> QED  BY <2>2, <2>3, <2>4, <2>5 DEF IInv
<1>2. CASE ~stopping
  <2>1. FireEvent(m, TRUE) \notin UnderWay /\ Spawn(FireEvent(m, TRUE))
    BY <1>2 DEF TimerCancelled, IInv, Senders
  <2>2. ChannelOK' /\ UnderWay' = UnderWay \cup {FireEvent(m, TRUE)}
    BY <2>1, EventFacts, InvChannel, SpawnAdds DEF Adds
  <2>3. /\ \A d \in Callers : RunEvent(d) \in UnderWay' <=> RunEvent(d) \in UnderWay
        /\ \A u \in Tasks : ResumeEvent(u) \in UnderWay' <=> ResumeEvent(u) \in UnderWay
        /\ \A x \in Timers, p \in BOOLEAN :
              FireEvent(x, p) \in UnderWay' <=>
                FireEvent(x, p) \in UnderWay \/ (x = m /\ p = TRUE)
        /\ StopEvent \in UnderWay' <=> StopEvent \in UnderWay
    BY <2>2, EventFacts
  <2> USE DEF TimerCancelled, threadVars, callVars, ctlVars
  <2>4. TypeOK' /\ OneWakeup'
    BY <2>2, <2>3 DEF IInv, TypeOK, ChannelOK, OneWakeup
  <2>5. Control'
    BY DEF IInv, TypeOK, Control, Over
  <2>6. Senders'
    BY <2>3 DEF IInv, TypeOK, Senders
  <2>7. OneFiring'
    <3> SUFFICES ASSUME NEW x \in Timers PROVE FiresOnce(x)'
      BY DEF OneFiring
    <3>1. FiresOnce(x) /\ FiresOnce(m)
      BY DEF IInv, OneFiring
    <3>2. Firing(x)' <=> Firing(x) \/ x = m
      BY <2>3 DEF Firing
    <3>3. CASE x = m
      BY <3>1, <3>2, <3>3, <2>3 DEF IInv, TypeOK, Senders, FiresOnce, Firing
    <3>4. CASE x # m
      BY <3>1, <3>2, <3>4, <2>3 DEF IInv, TypeOK, FiresOnce
    <3> QED  BY <3>3, <3>4
  <2>8. Owed'
    BY <2>3 DEF IInv, TypeOK, Owed, Owes
  <2> QED  BY <2>4, <2>5, <2>6, <2>7, <2>8 DEF IInv
<1> QED  BY <1>1, <1>2

LEMMA PostKeepsInv ==
  ASSUME IInv, NEW ev \in posting, Post(ev)
  PROVE  IInv'
<1>1. ChannelOK' /\ UnderWay' = UnderWay
  BY InvChannel, PostKeeps DEF Keeps
<1> USE DEF Post, timerVars, threadVars, callVars, ctlVars
<1>2. TypeOK' /\ OneWakeup'
  BY <1>1 DEF IInv, TypeOK, ChannelOK, OneWakeup
<1>3. Control' /\ Senders'
  BY <1>1 DEF IInv, Control, Over, Senders
<1>4. OneFiring'
  BY <1>1 DEF IInv, OneFiring, FiresOnce, Firing
<1>5. Owed'
  BY <1>1 DEF IInv, Owed, Owes
<1> QED  BY <1>2, <1>3, <1>4, <1>5 DEF IInv

LEMMA HandleTimerFireKeeps ==
  ASSUME IInv, NEW m \in Timers, HandleTimerFire(m)
  PROVE  IInv'
<1> PICK b \in BOOLEAN : Receive(FireEvent(m, b))
  BY DEF HandleTimerFire
<1>1. FireEvent(m, b) \in UnderWay /\ loop.at = "recv"
  BY InvChannel, ReceiveRemoves DEF HandleTimerFire, Removes, Receive
<1>2. ChannelOK' /\ UnderWay' = UnderWay \ {FireEvent(m, b)}
  BY InvChannel, ReceiveRemoves DEF HandleTimerFire, Removes
<1>3. /\ \A d \in Callers : RunEvent(d) \in UnderWay' <=> RunEvent(d) \in UnderWay
      /\ \A u \in Tasks : ResumeEvent(u) \in UnderWay' <=> ResumeEvent(u) \in UnderWay
      /\ \A x \in Timers, p \in BOOLEAN :
            FireEvent(x, p) \in UnderWay' <=>
              FireEvent(x, p) \in UnderWay /\ ~(x = m /\ p = b)
      /\ StopEvent \in UnderWay' <=> StopEvent \in UnderWay
  BY <1>2, EventFacts
<1>4. \A p \in BOOLEAN : FireEvent(m, p) \notin UnderWay'
  BY <1>1, <1>3 DEF IInv, OneFiring, FiresOnce
<1>5. status[m] = "none" /\ timerGo[m] = "gone"
  BY <1>1 DEF IInv, Senders
<1> USE DEF HandleTimerFire, callVars, ctlVars, LoopStates, At, Down, Idle, Panic
<1>6. TypeOK'
  BY <1>2 DEF IInv, TypeOK, ChannelOK
<1>7. OneWakeup'
  BY <1>2, <1>3, <1>5 DEF IInv, TypeOK, OneWakeup, ChannelOK
<1>8. Control'
  BY <1>1 DEF IInv, TypeOK, Control, Over
<1>9. Senders'
  <2>1. \A x \in Timers, p \in BOOLEAN : FireEvent(x, p) \in UnderWay' => x # m
    BY <1>4
  <2> QED  BY <1>3, <1>5, <2>1 DEF IInv, TypeOK, Senders
<1>10. OneFiring'
  <2> SUFFICES ASSUME NEW x \in Timers PROVE FiresOnce(x)'
    BY DEF OneFiring
  <2>1. FiresOnce(x)
    BY DEF IInv, OneFiring
  <2>2. CASE x = m
    BY <2>1, <2>2, <1>4, <1>5 DEF FiresOnce, Firing
  <2>3. CASE x # m
    BY <2>1, <2>3, <1>3 DEF FiresOnce, Firing
  <2> QED  BY <2>2, <2>3
<1>11. Owed'
  <2>1. m \notin Callers
    OBVIOUS
  <2> QED  BY <2>1, <1>1, <1>3 DEF IInv, TypeOK, Owed, Owes, Control
<1> QED  BY <1>6, <1>7, <1>8, <1>9, <1>10, <1>11 DEF IInv

-----------------------------------------------------------------------------
(* The invariant holds in every reachable state, restarts included.        *)

LEMMA NextKeeps == IInv /\ [EmbedNext]_vars => IInv'
<1> SUFFICES ASSUME IInv, [EmbedNext]_vars PROVE IInv'
  OBVIOUS
<1>1. CASE LoopStep
  BY <1>1, HandleRunFailsKeeps, HandleRunKeeps, HandleResumeKeeps,
     HandleTimerFireKeeps, HandleStopKeeps, SleepZeroKeeps, StartAsyncKeeps,
     TimerAtZeroKeeps, TimerAtKeeps, CancelTimersKeeps, LuaEndsKeeps,
     CloseThreadKeeps, ReplyKeeps DEF LoopStep, LuaStep
<1>2. CASE \E c \in Callers : CallerStep(c)
  BY <1>2, CallKeeps, SendRunKeeps, CallReturnsKeeps DEF CallerStep
<1>3. CASE \E m \in Timers : TimerStep(m)
  BY <1>3, TimerExpiresKeeps, TimerCancelledKeeps DEF TimerStep
<1>4. CASE \E ev \in posting : Post(ev)
  BY <1>4, PostKeepsInv
<1>5. CASE loop.at # "panic" /\ (OwnerStep \/ Restart)
  BY <1>5, StartKeeps, RestartKeeps, WaitReturnsKeeps, StopBeginsKeeps,
     StopCancelsKeeps, StopSendsKeeps, StopReturnsKeeps, CloseKeeps DEF OwnerStep
<1>6. CASE UNCHANGED vars
  BY <1>6, StutterKeeps
<1> QED  BY <1>1, <1>2, <1>3, <1>4, <1>5, <1>6 DEF EmbedNext, ProcessNext

THEOREM Invariance == EmbedSpec => []IInv
<1>1. Init => IInv
  BY InitIInv
<1>2. IInv /\ [EmbedNext]_vars => IInv'
  BY NextKeeps
<1> QED  BY <1>1, <1>2, PTL DEF EmbedSpec

\* Every variable keeps its type: the channel never exceeds its capacity and
\* no response channel is sent to while it holds a response.
THEOREM TypeCorrect == EmbedSpec => []TypeOK
<1>1. IInv => TypeOK
  BY DEF IInv
<1> QED  BY <1>1, Invariance, PTL

\* Every yielded thread has exactly one resume event on its way; a timer fires
\* at most once, and a pending one is never forgotten.
THEOREM EventsStayExact == EmbedSpec => []EventsExact
<1>1. IInv => EventsExact
  BY DEF IInv, EventsExact
<1> QED  BY <1>1, Invariance, PTL

\* A call gets one response, after its thread is over.
THEOREM ResponsesExact == EmbedSpec => []OneResponse
<1>1. IInv => OneResponse
  <2> SUFFICES ASSUME IInv, NEW c \in Callers
               PROVE  /\ responseChan[c] > 0 => caller[c] = "waiting"
                      /\ responseChan[c] > 0 \/ caller[c] = "returned" =>
                           /\ Over(c)
                           /\ {RunEvent(c), ResumeEvent(c)} \cap UnderWay = {}
                           /\ loop.task = c => loop.at = "close"
                      /\ loop.at = "reply" /\ loop.task = c =>
                           caller[c] = "waiting" /\ responseChan[c] = 0
    BY DEF OneResponse
  <2>1. /\ responseChan[c] > 0 => caller[c] = "waiting"
        /\ Owes(c) => caller[c] = "waiting" /\ responseChan[c] = 0
    BY DEF IInv, Owed
  <2>2. status[c] \in {"none", "running", "yielded", "dead", "exited"}
    BY DEF IInv, TypeOK
  <2>3. ASSUME responseChan[c] > 0 \/ caller[c] = "returned"
        PROVE  /\ Over(c)
               /\ {RunEvent(c), ResumeEvent(c)} \cap UnderWay = {}
               /\ loop.task = c => loop.at = "close"
    <3>1. ~Owes(c)
      BY <2>1, <2>3 DEF IInv, TypeOK
    <3>2. Over(c)
      BY <3>1, <2>2 DEF Owes, Over
    <3>3. RunEvent(c) \notin UnderWay /\ ResumeEvent(c) \notin UnderWay
      BY <3>1, <3>2 DEF Owes, Over, IInv, OneWakeup
    <3>4. ASSUME loop.task = c PROVE loop.at = "close"
      <4>1. loop.at \notin {"lua", "reply"}
        BY <3>1, <3>2, <3>4 DEF Owes, Over, IInv, Control
      <4>2. loop.task \in Tasks => loop.at \in {"lua", "reply", "close"}
        BY DEF IInv, TypeOK, LoopStates, Down, Idle, Panic, At
      <4> QED  BY <4>1, <4>2, <3>4
    <3> QED  BY <3>2, <3>3, <3>4
  <2> QED  BY <2>1, <2>3 DEF Owes
<1> QED  BY <1>1, Invariance, PTL

\* Once Stop has returned no handler runs until the state is started again.
THEOREM QuietAfterStop == EmbedSpec => []StoppedIsQuiet
<1>1. IInv => StoppedIsQuiet
  BY DEF IInv, Control, StoppedIsQuiet
<1> QED  BY <1>1, Invariance, PTL

-----------------------------------------------------------------------------
(* A state that is started once, as in main.go and in StartHTTPServer      *)
(* (ProcessSpec): what threadWg counts, what Wait means, that a timer      *)
(* cleaned up by Stop never fires, and that the loop implements            *)
(* TaskService.  All of these fail when a state is started again after     *)
(* Stop.                                                                   *)

HIDE DEF Tasks

\* What is left when Wait has returned with no call under way.
NothingLeft ==
  /\ open = {} /\ pendingTimers = {} /\ dropped = {}
  /\ loop.at \in {"recv", "down"}
  /\ \A c \in Callers : ~InFlight(c)

ProcInv ==
  /\ WorkCounted
  /\ loop.at # "panic"
  /\ dropped # {} => loop.at = "down" /\ ctl \in {"acked", "stopped", "closed"}
  /\ \A m \in pendingTimers \cup dropped : status[m] = "none"
  /\ \A m \in pendingTimers : timerGo[m] # "none"
  /\ waited => NothingLeft

LEMMA Sizes ==
  ASSUME TypeOK
  PROVE  /\ IsFiniteSet(open) /\ Cardinality(open) \in Nat
         /\ IsFiniteSet(pendingTimers) /\ Cardinality(pendingTimers) \in Nat
         /\ Cardinality(open) = 0 <=> open = {}
         /\ Cardinality(pendingTimers) = 0 <=> pendingTimers = {}
<1>1. IsFiniteSet(Tasks)
  BY TasksAssumption, FS_Union, Zenon DEF Tasks
<1>2. IsFiniteSet(open) /\ IsFiniteSet(pendingTimers)
  <2>1. open \in SUBSET Tasks /\ pendingTimers \in SUBSET Timers
    BY DEF TypeOK
  <2> QED  BY <1>1, <2>1, TasksAssumption, FS_Subset, Zenon
<1> QED  BY <1>2, FS_CardinalityType, FS_EmptySet

THEOREM InitProcInv == Init => ProcInv
BY FS_EmptySet DEF Init, ProcInv, WorkCounted, Down, At

-----------------------------------------------------------------------------
(* Steps that create work, finish it or drop it.                           *)

\* a new thread or a new timer
LEMMA Grows ==
  ASSUME TypeOK, NEW t, WorkCounted, threadWg' = threadWg + 1,
         \/ t \notin open /\ open' = open \cup {t} /\ UNCHANGED pendingTimers
         \/ t \notin pendingTimers /\ pendingTimers' = pendingTimers \cup {t} /\ UNCHANGED open
  PROVE  WorkCounted'
<1>1. CASE t \notin open /\ open' = open \cup {t} /\ UNCHANGED pendingTimers
  <2>1. Cardinality(open') = Cardinality(open) + 1
    BY <1>1, Sizes, FS_AddElement
  <2> QED  BY <1>1, <2>1, Sizes DEF WorkCounted
<1>2. CASE t \notin pendingTimers /\ pendingTimers' = pendingTimers \cup {t} /\ UNCHANGED open
  <2>1. Cardinality(pendingTimers') = Cardinality(pendingTimers) + 1
    BY <1>2, Sizes, FS_AddElement
  <2> QED  BY <1>2, <2>1, Sizes DEF WorkCounted
<1> QED  BY <1>1, <1>2

LEMMA HandleRunProc ==
  ASSUME IInv, ProcInv, NEW c \in Callers, HandleRun(c)
  PROVE  ProcInv'
<1>1. RunEvent(c) \in UnderWay /\ loop.at = "recv"
  BY InvChannel, ReceiveRemoves DEF HandleRun, Removes, Receive
<1>2. status[c] = "none" /\ c \notin open /\ InFlight(c)
  BY <1>1 DEF IInv, Senders, Control, Owed, Owes, InFlight
<1>3. WorkCounted'
  BY <1>2, Grows DEF HandleRun, timerVars, IInv, ProcInv
<1>4. ~waited
  BY <1>2 DEF ProcInv, NothingLeft
<1>5. c \notin Timers /\ loop'.at = "lua"
  BY TasksAssumption DEF HandleRun, At
<1> QED  BY <1>1, <1>3, <1>4, <1>5 DEF ProcInv, HandleRun, timerVars, ctlVars, IInv, TypeOK

LEMMA NewTimerProc ==
  ASSUME IInv, ProcInv, NEW m \in Timers, LuaGoesOn, NewTimer(m),
         timerGo' \in [Timers -> {"none", "armed", "gone"}],
         timerGo'[m] # "none", \A x \in Timers : x # m => timerGo'[x] = timerGo[x]
  PROVE  ProcInv'
<1>1. status[m] = "none" /\ m \notin pendingTimers
  BY DEF NewTimer, IInv, Senders, ProcInv
<1>2. WorkCounted'
  BY <1>1, Grows DEF NewTimer, LuaGoesOn, IInv, ProcInv
<1>3. loop.at = "lua" /\ dropped = {} /\ ~waited
  BY DEF LuaGoesOn, ProcInv, NothingLeft
<1> QED  BY <1>1, <1>2, <1>3 DEF ProcInv, LuaGoesOn, NewTimer, ctlVars, IInv, TypeOK

LEMMA HandleTimerFireProc ==
  ASSUME IInv, ProcInv, NEW m \in Timers, HandleTimerFire(m)
  PROVE  ProcInv'
<1>1. Firing(m) /\ loop.at = "recv"
  BY InvChannel, ReceiveRemoves DEF HandleTimerFire, Removes, Receive, Firing
<1>2. dropped = {} /\ m \in pendingTimers
  BY <1>1 DEF ProcInv, IInv, OneFiring, FiresOnce
<1>3. status[m] = "none" /\ m \notin open /\ ~waited
  BY <1>2 DEF ProcInv, NothingLeft, IInv, Control
<1>4. WorkCounted'
  <2>1. Cardinality(open') = Cardinality(open) + 1
    BY <1>3, Sizes, FS_AddElement DEF HandleTimerFire, IInv
  <2>2. Cardinality(pendingTimers') = Cardinality(pendingTimers) - 1
    BY <1>2, Sizes, FS_RemoveElement DEF HandleTimerFire, IInv
  <2>3. threadWg' = threadWg
    BY DEF HandleTimerFire
  <2> QED  BY <2>1, <2>2, <2>3, Sizes DEF WorkCounted, ProcInv, IInv
<1> QED  BY <1>2, <1>3, <1>4 DEF ProcInv, HandleTimerFire, ctlVars, IInv, TypeOK, At

LEMMA CloseThreadProc ==
  ASSUME IInv, ProcInv, CloseThread
  PROVE  ProcInv'
<1>1. loop.task \in open /\ loop.at = "close" /\ ~waited /\ dropped = {}
  BY DEF CloseThread, IInv, Control, ProcInv, NothingLeft
<1>2. /\ Cardinality(open') = Cardinality(open) - 1
      /\ Cardinality(open) > 0
  <2>1. open' = open \ {loop.task}
    BY DEF CloseThread
  <2>2. TypeOK
    BY DEF IInv
  <2>3. open # {}
    BY <1>1
  <2>4. IsFiniteSet(open) /\ Cardinality(open) \in Nat /\ Cardinality(open) # 0
    BY <2>2, <2>3, Sizes
  <2>5. Cardinality(open \ {loop.task}) = Cardinality(open) - 1
    BY <1>1, <2>4, FS_RemoveElement
  <2> QED  BY <2>1, <2>4, <2>5
<1>3. threadWg >= 1
  BY <1>2, Sizes DEF WorkCounted, ProcInv, IInv
<1>4. /\ threadWg' = threadWg - 1 /\ UNCHANGED pendingTimers
      /\ loop' = At("reply", loop.task, "run") \/ loop' = Idle
  BY <1>1, <1>3 DEF CloseThread, Done, timerVars
<1>5. WorkCounted'
  BY <1>2, <1>4, Sizes DEF WorkCounted, ProcInv, IInv
<1> QED  BY <1>1, <1>4, <1>5 DEF ProcInv, CloseThread, ctlVars, timerVars, Idle, At

LEMMA HandleStopProc ==
  ASSUME IInv, ProcInv, HandleStop
  PROVE  ProcInv'
<1>1. loop.at = "recv" /\ dropped = {}
  BY DEF HandleStop, Receive, ProcInv
<1>2. threadWg >= Cardinality(pendingTimers)
  BY Sizes DEF WorkCounted, ProcInv, IInv
<1>3. threadWg' = threadWg - Cardinality(pendingTimers) /\ loop' = Down
  BY <1>2 DEF HandleStop, Done
<1>4. /\ pendingTimers' = {} /\ open' = open /\ dropped' = pendingTimers
      /\ UNCHANGED <<status, caller, waited>> /\ ctl' = "acked"
  BY <1>1 DEF HandleStop, callVars
<1>5. WorkCounted'
  BY <1>3, <1>4, Sizes, FS_EmptySet DEF WorkCounted, ProcInv, IInv
<1>6. waited' => NothingLeft'
  BY <1>1, <1>3, <1>4 DEF ProcInv, NothingLeft, Down, At, InFlight
<1> QED  BY <1>3, <1>4, <1>5, <1>6 DEF ProcInv, Down, At

LEMMA WaitReturnsProc ==
  ASSUME IInv, ProcInv, WaitReturns
  PROVE  ProcInv'
<1>1. ctl = "up" /\ threadWg = 0
  BY DEF WaitReturns
<1>2. open = {} /\ pendingTimers = {} /\ dropped = {}
  BY <1>1, Sizes DEF WorkCounted, ProcInv, IInv
<1>3. (\A c \in Callers : ~InFlight(c)) => loop.at \in {"recv", "down"}
  <2> SUFFICES ASSUME \A c \in Callers : ~InFlight(c)
               PROVE  loop.at \in {"recv", "down"}
    OBVIOUS
  <2>1. loop.at \notin {"lua", "close"}
    BY <1>2 DEF IInv, Control
  <2>2. loop.at # "reply"
    BY DEF IInv, Control, Owed, Owes, InFlight
  <2> QED  BY <2>1, <2>2 DEF ProcInv, IInv, TypeOK, LoopStates, Down, Idle, Panic, At
<1> QED  BY <1>2, <1>3 DEF ProcInv, NothingLeft, WaitReturns, WorkCounted, InFlight,
                           timerVars, threadVars, callVars

-----------------------------------------------------------------------------
(* Steps that leave threads, timers and their count alone.                 *)

LEMMA OthersProc ==
  ASSUME IInv, ProcInv,
         UNCHANGED <<threadWg, open, pendingTimers, dropped>>,
         \A m \in Timers : status[m] = "none" => status'[m] = "none",
         \A m \in Timers : timerGo[m] # "none" => timerGo'[m] # "none",
         loop'.at # "panic",
         loop.at = "down" => loop'.at = "down" \/ dropped = {},
         dropped # {} /\ ctl \in {"acked", "stopped", "closed"} =>
           ctl' \in {"acked", "stopped", "closed"},
         waited' => waited /\ NothingLeft'
  PROVE  ProcInv'
BY DEF ProcInv, WorkCounted, IInv, TypeOK

LEMMA ResumeProc ==
  ASSUME IInv, ProcInv, NEW t \in Tasks, HandleResumeThread(t)
  PROVE  ProcInv'
<1>1. ResumeEvent(t) \in UnderWay /\ loop.at = "recv"
  BY InvChannel, ReceiveRemoves DEF HandleResumeThread, Removes, Receive
<1>2. status[t] = "yielded" /\ t \in open
  BY <1>1 DEF IInv, OneWakeup, Control
<1>3. ~waited
  BY <1>2 DEF ProcInv, NothingLeft
<1>4. status' = [status EXCEPT ![t] = "running"] /\ loop' = At("lua", t, "resume")
  BY <1>2 DEF HandleResumeThread, Resumable
<1>5. \A m \in Timers : status[m] = "none" => status'[m] = "none"
  BY <1>2, <1>4 DEF IInv, TypeOK
<1>6. loop'.at = "lua" /\ UNCHANGED <<threadWg, open, timerVars, ctlVars>>
  BY <1>4 DEF HandleResumeThread, At
<1> QED  BY <1>1, <1>3, <1>5, <1>6, OthersProc DEF timerVars, ctlVars

LEMMA RunFailsProc ==
  ASSUME IInv, ProcInv, NEW c \in Callers, HandleRunFails(c)
  PROVE  ProcInv'
<1>1. RunEvent(c) \in UnderWay /\ loop.at = "recv"
  BY InvChannel, ReceiveRemoves DEF HandleRunFails, Removes, Receive
<1>2. InFlight(c) /\ ~waited
  BY <1>1 DEF IInv, Owed, Owes, InFlight, ProcInv, NothingLeft
<1> QED  BY <1>1, <1>2, OthersProc
         DEF HandleRunFails, timerVars, threadVars, ctlVars, At

LEMMA LuaProc ==
  ASSUME IInv, ProcInv, NEW t \in Tasks,
         \/ LuaYields(t)
         \/ \E how \in {"dead", "exited"} : LuaEnds(t, how)
         \/ CancelTimers
  PROVE  ProcInv'
<1>1. loop.at = "lua" /\ ~waited
  BY DEF LuaYields, LuaEnds, CancelTimers, LuaGoesOn, ProcInv, NothingLeft
<1>2. CASE LuaYields(t)
  BY <1>1, <1>2, OthersProc DEF LuaYields, timerVars, ctlVars, Idle, At, IInv, TypeOK, Control
<1>3. CASE \E how \in {"dead", "exited"} : LuaEnds(t, how)
  BY <1>1, <1>3, OthersProc
     DEF LuaEnds, AfterResume, timerVars, ctlVars, At, IInv, TypeOK, Control
<1>4. CASE CancelTimers
  BY <1>1, <1>4, OthersProc DEF CancelTimers, LuaGoesOn, ctlVars
<1> QED  BY <1>2, <1>3, <1>4

LEMMA ReplyProc ==
  ASSUME IInv, ProcInv, Reply
  PROVE  ProcInv'
<1>1. loop.at = "reply" /\ ~waited
  BY DEF Reply, ProcInv, NothingLeft
<1> QED  BY <1>1, OthersProc DEF Reply, timerVars, threadVars, ctlVars, Idle, At

LEMMA CallerProc ==
  ASSUME IInv, ProcInv, NEW c \in Callers, CallerStep(c)
  PROVE  ProcInv'
<1>1. CASE Call(c)
  BY <1>1, OthersProc DEF Call, timerVars, threadVars, ProcInv
<1>2. CASE SendRun(c)
  <2>1. ~waited
    BY <1>2 DEF SendRun, ProcInv, NothingLeft, InFlight
  <2> QED  BY <1>2, <2>1, OthersProc DEF SendRun, timerVars, threadVars, ctlVars, ProcInv
<1>3. CASE CallReturns(c)
  <2>1. ~waited
    BY <1>3 DEF CallReturns, ProcInv, NothingLeft, InFlight
  <2> QED  BY <1>3, <2>1, OthersProc DEF CallReturns, timerVars, threadVars, ctlVars, ProcInv
<1> QED  BY <1>1, <1>2, <1>3 DEF CallerStep

LEMMA GoroutineProc ==
  ASSUME IInv, ProcInv,
         (\E m \in Timers : TimerStep(m)) \/ (\E ev \in posting : Post(ev))
  PROVE  ProcInv'
<1> USE DEF threadVars, callVars, ctlVars
<1>1. /\ UNCHANGED <<loop, threadVars, callVars, ctlVars, pendingTimers>>
      /\ \A m \in Timers : timerGo[m] # "none" => timerGo'[m] # "none"
  BY DEF TimerStep, TimerExpires, TimerCancelled, Post, timerVars, IInv, TypeOK
<1>2. waited' => waited /\ NothingLeft'
  BY <1>1 DEF ProcInv, NothingLeft, InFlight
<1> QED  BY <1>1, <1>2, OthersProc DEF ProcInv

LEMMA OwnerProc ==
  ASSUME IInv, ProcInv, OwnerStep
  PROVE  ProcInv'
<1> USE DEF timerVars, threadVars, callVars
<1>1. CASE WaitReturns
  BY <1>1, WaitReturnsProc
<1>2. CASE Start
  <2>1. dropped = {} /\ ctl = "new" /\ loop'.at = "recv"
    BY <1>2 DEF Start, Launch, ProcInv, Idle, At
  <2>2. waited' => waited /\ NothingLeft'
    BY <1>2, <2>1 DEF Start, Launch, ProcInv, NothingLeft, InFlight
  <2> QED  BY <1>2, <2>1, <2>2, OthersProc DEF Start, Launch
<1>3. CASE StopBegins \/ StopCancels \/ StopSends \/ StopReturns \/ Close
  <2>1. /\ UNCHANGED <<loop, threadVars, callVars, pendingTimers, timerGo, waited, dropped>>
        /\ ctl \in {"acked", "stopped", "closed"} => ctl' \in {"acked", "stopped", "closed"}
    BY <1>3 DEF StopBegins, StopCancels, StopSends, StopReturns, Close
  <2>2. waited' => waited /\ NothingLeft'
    BY <2>1 DEF ProcInv, NothingLeft, InFlight
  <2> QED  BY <2>1, <2>2, OthersProc DEF ProcInv
<1> QED  BY <1>1, <1>2, <1>3 DEF OwnerStep

-----------------------------------------------------------------------------
LEMMA NextProc == IInv /\ ProcInv /\ [ProcessNext]_vars => ProcInv'
<1> SUFFICES ASSUME IInv, ProcInv, [ProcessNext]_vars PROVE ProcInv'
  OBVIOUS
<1>1. CASE LuaStep
  <2>1. ASSUME NEW t \in Tasks, SleepZero(t) \/ StartAsync(t)
        PROVE  ProcInv'
    BY <2>1, LuaProc DEF SleepZero, StartAsync
  <2>2. ASSUME NEW m \in Timers, TimerAtZero(m) \/ TimerAt(m)
        PROVE  ProcInv'
    <3>1. LuaGoesOn /\ NewTimer(m)
      BY <2>2 DEF TimerAtZero, TimerAt
    <3>2. \E how \in {"gone", "armed"} : timerGo' = [timerGo EXCEPT ![m] = how]
      BY <2>2 DEF TimerAtZero, TimerAt
    <3>3. /\ timerGo' \in [Timers -> {"none", "armed", "gone"}]
          /\ timerGo'[m] # "none"
          /\ \A x \in Timers : x # m => timerGo'[x] = timerGo[x]
      BY <3>2 DEF IInv, TypeOK
    <3> QED  BY <3>1, <3>3, NewTimerProc
  <2>3. ASSUME NEW t \in Tasks, \E how \in {"dead", "exited"} : LuaEnds(t, how)
        PROVE  ProcInv'
    BY <2>3, LuaProc
  <2>4. CASE CancelTimers
    <3>1. loop.task \in Tasks
      BY <2>4 DEF CancelTimers, LuaGoesOn, IInv, TypeOK, LoopStates, Down, Idle, Panic, At
    <3> QED  BY <2>4, <3>1, LuaProc
  <2> QED  BY <1>1, <2>1, <2>2, <2>3, <2>4 DEF LuaStep
<1>2. CASE LoopStep /\ ~LuaStep
  BY <1>2, HandleRunProc, RunFailsProc, ResumeProc, HandleTimerFireProc,
     HandleStopProc, CloseThreadProc, ReplyProc DEF LoopStep
<1>3. CASE \E c \in Callers : CallerStep(c)
  BY <1>3, CallerProc
<1>4. CASE (\E m \in Timers : TimerStep(m)) \/ (\E ev \in posting : Post(ev))
  BY <1>4, GoroutineProc
<1>5. CASE OwnerStep
  BY <1>5, OwnerProc
<1>6. CASE UNCHANGED vars
  BY <1>6 DEF vars, timerVars, threadVars, callVars, ctlVars, ProcInv, WorkCounted,
              NothingLeft, InFlight
<1> QED  BY <1>1, <1>2, <1>3, <1>4, <1>5, <1>6 DEF ProcessNext

THEOREM ProcessInvariance == ProcessSpec => [](IInv /\ ProcInv)
<1>1. Init => IInv /\ ProcInv
  BY InitIInv, InitProcInv
<1>2. IInv /\ ProcInv /\ [ProcessNext]_vars => (IInv /\ ProcInv)'
  <2>1. [ProcessNext]_vars => [EmbedNext]_vars
    BY DEF EmbedNext
  <2> QED  BY <2>1, NextKeeps, NextProc
<1> QED  BY <1>1, <1>2, PTL DEF ProcessSpec

\* threadWg counts the threads that are open and the timers that are pending:
\* Wait can neither return early nor hang, and the counter never goes negative.
THEOREM WorkExact == ProcessSpec => []WorkCounted
<1>1. ProcInv => WorkCounted
  BY DEF ProcInv
<1> QED  BY <1>1, ProcessInvariance, PTL

\* When Wait has returned with no call under way nothing at all is left.
THEOREM WaitIsDone == ProcessSpec => []WaitMeansDone
<1>1. IInv /\ ProcInv => WaitMeansDone
  <2> SUFFICES ASSUME IInv, ProcInv, waited
               PROVE  /\ open = {} /\ pendingTimers = {}
                      /\ UnderWay \subseteq {StopEvent}
                      /\ \A m \in Timers : timerGo[m] # "armed"
    BY DEF WaitMeansDone
  <2>1. NothingLeft
    BY DEF ProcInv
  <2>2. \A m \in Timers : timerGo[m] # "armed" /\ ~Firing(m)
    BY <2>1 DEF NothingLeft, IInv, OneFiring, FiresOnce
  <2>3. \A t \in Tasks : ResumeEvent(t) \notin UnderWay
    BY <2>1 DEF NothingLeft, IInv, OneWakeup, Control
  <2>4. \A c \in Callers : RunEvent(c) \notin UnderWay
    BY <2>1 DEF NothingLeft, InFlight, IInv, Owed, Owes
  <2>5. UnderWay \subseteq Events
    BY InvChannel DEF ChannelOK, UnderWay, Queued
  <2>6. UnderWay \subseteq {StopEvent}
    BY <2>2, <2>3, <2>4, <2>5 DEF Events, Firing
  <2> QED  BY <2>1, <2>2, <2>6 DEF NothingLeft
<1> QED  BY <1>1, ProcessInvariance, PTL

\* Wait counts what it has to wait for, and nothing is left when it returns.
THEOREM WaitStaysExact == ProcessSpec => []WaitExact
<1>1. WorkCounted /\ WaitMeansDone => WaitExact
  BY DEF WaitExact
<1> QED  BY <1>1, WorkExact, WaitIsDone, PTL

\* The callback of a timer that Stop has cleaned up never runs.
THEOREM DroppedStayDropped == ProcessSpec => []DroppedNeverFires
<1>1. ProcInv => DroppedNeverFires
  BY DEF ProcInv, DroppedNeverFires
<1> QED  BY <1>1, ProcessInvariance, PTL

(***************************************************************************)
(* The refinement: every step that respects these invariants is a step of  *)
(* TaskService, or none that it sees, for any number of calls and timers,  *)
(* any capacity of the event channel and any bounds.                       *)
(***************************************************************************)
USE TasksAssumption, BoundsAssumption DEF Tasks
USE DEF timerVars, threadVars, callVars, ctlVars

-----------------------------------------------------------------------------
(* What TaskService sees of the loop.                                      *)

Refusing(c) == loop = At("reply", c, "run")

\* What the phase of a task depends on.
Same(t) ==
  /\ status'[t] = status[t]
  /\ t \in Callers => /\ caller'[t] = caller[t]
                      /\ responseChan'[t] = responseChan[t]
                      /\ Refusing(t)' <=> Refusing(t)
  /\ t \in Timers  => /\ t \in dropped' <=> t \in dropped
                      /\ t \in pendingTimers' <=> t \in pendingTimers

\* Then its phase, and whether it is answered, stay as they are.
LEMMA SameSeen ==
  ASSUME NEW t \in Tasks, Same(t)
  PROVE  /\ Phase(t)' = Phase(t)
         /\ t \in Callers => (t \in Answered' <=> t \in Answered)
  BY DEF Same, Phase, CallPhase, TimerPhase, Refused, Refusing, Answered, InFlight

\* A step that changes none of this is invisible.
LEMMA NothingSeen ==
  ASSUME \A t \in Tasks : Same(t)
  PROVE  UNCHANGED Promise!vars
<1>1. \A t \in Tasks : Phase(t)' = Phase(t)
  BY SameSeen
<1>2. Answered' = Answered
  BY SameSeen DEF Answered
<1> QED BY <1>1, <1>2 DEF Promise!vars

\* A step that changes it for one task moves that task.
LEMMA OneMoves ==
  ASSUME NEW t \in Tasks, \A u \in Tasks \ {t} : Same(u), Answered' = Answered,
         NEW from, NEW to, Phase(t) = from, Phase(t)' = to
  PROVE  Promise!Move(t, from, to)
<1>1. \A u \in Tasks \ {t} : Phase(u)' = Phase(u)
  BY SameSeen
<1> DEFINE phases == [u \in Tasks |-> Phase(u)]
<1>2. phases' = [phases EXCEPT ![t] = to]
  BY <1>1
<1> QED BY <1>2 DEF Promise!Move

\* While the loop waits for an event no task runs.
LEMMA NoneRuns ==
  ASSUME IInv, loop.at = "recv"
  PROVE  Promise!NoneRuns
<1>1. \A t \in Tasks : status[t] # "running"
  BY DEF IInv, Control
<1>2. \A t \in Tasks : Phase(t) # "running"
  BY <1>1 DEF Phase, CallPhase, TimerPhase
<1> QED BY <1>2 DEF Promise!NoneRuns, Promise!Tasks

-----------------------------------------------------------------------------
(* One lemma for each group of actions that TaskService sees.              *)

\* A call is accepted when it is made.
LEMMA CallMaps ==
  ASSUME IInv, NEW c \in Callers, Call(c)
  PROVE  Promise!Accept(c)
<1>1. /\ status[c] = "none" /\ c \notin Answered /\ ~Refusing(c)
      /\ caller[c] = "idle"
  BY DEF Call, IInv, TypeOK, Senders, Owed, Owes, Answered, Refusing, At
<1>2. Phase(c) = "idle"
  BY <1>1 DEF Phase, CallPhase, Refused, Refusing, InFlight
<1>3. Answered' = Answered /\ \A u \in Tasks \ {c} : Same(u)
  BY <1>1 DEF Call, IInv, TypeOK, Answered, Same, Refusing
<1>4. Phase(c)' = "accepted"
  BY <1>1, <1>3 DEF Call, IInv, TypeOK, Phase, CallPhase, Refused, Refusing, InFlight
<1> QED BY <1>2, <1>3, <1>4, OneMoves DEF Promise!Accept

\* What a run event finds: a call that is accepted and has not begun.
LEMMA RunEventFinds ==
  ASSUME IInv, NEW c \in Callers, Receive(RunEvent(c)), UNCHANGED posting
  PROVE  /\ loop.at = "recv" /\ status[c] = "none"
         /\ caller[c] = "waiting" /\ responseChan[c] = 0
         /\ Phase(c) = "accepted"
<1>1. RunEvent(c) \in UnderWay /\ loop.at = "recv"
  BY InvChannel, ReceiveRemoves DEF Removes, Receive
<1>2. status[c] = "none" /\ caller[c] = "waiting" /\ responseChan[c] = 0
  BY <1>1 DEF IInv, Senders, Owed, Owes
<1> QED BY <1>1, <1>2 DEF Phase, CallPhase, Refused, Answered, InFlight, At

\* Code that does not load ends the call without a thread.
LEMMA HandleRunFailsMaps ==
  ASSUME IInv, NEW c \in Callers, HandleRunFails(c)
  PROVE  Promise!Reject(c)
<1>1. /\ loop.at = "recv" /\ status[c] = "none" /\ Phase(c) = "accepted"
  BY RunEventFinds DEF HandleRunFails
<1>2. Phase(c)' = "finished"
  BY <1>1 DEF HandleRunFails, Phase, CallPhase, Refused
<1>3. Answered' = Answered /\ \A u \in Tasks \ {c} : Same(u)
  BY <1>1 DEF HandleRunFails, Answered, Same, Refusing, At
<1> QED BY <1>1, <1>2, <1>3, OneMoves DEF Promise!Reject

\* A run event begins the call.
LEMMA HandleRunMaps ==
  ASSUME IInv, NEW c \in Callers, HandleRun(c)
  PROVE  Promise!Begin(c)
<1>1. /\ loop.at = "recv" /\ status[c] = "none" /\ Phase(c) = "accepted"
  BY RunEventFinds DEF HandleRun
<1>2. Phase(c)' = "running"
  BY <1>1 DEF HandleRun, IInv, TypeOK, Phase
<1>3. Answered' = Answered /\ \A u \in Tasks \ {c} : Same(u)
  BY <1>1 DEF HandleRun, IInv, TypeOK, Answered, Same, Refusing, At
<1> QED BY <1>1, <1>2, <1>3, OneMoves, NoneRuns DEF Promise!Begin

\* A resume event finds a suspended thread.
LEMMA HandleResumeMaps ==
  ASSUME IInv, NEW t \in Tasks, HandleResumeThread(t)
  PROVE  Promise!Continue(t)
<1>1. ResumeEvent(t) \in UnderWay /\ loop.at = "recv"
  BY InvChannel, ReceiveRemoves DEF HandleResumeThread, Removes, Receive
<1>2. status[t] = "yielded" /\ Resumable(t)
  BY <1>1 DEF IInv, OneWakeup, Control, Resumable
<1>3. Phase(t) = "suspended" /\ Phase(t)' = "running"
  BY <1>2 DEF HandleResumeThread, IInv, TypeOK, Phase
<1>4. Answered' = Answered /\ \A u \in Tasks \ {t} : Same(u)
  BY <1>1, <1>2 DEF HandleResumeThread, IInv, TypeOK, Answered, Same, Refusing, At
<1> QED BY <1>1, <1>3, <1>4, OneMoves, NoneRuns DEF Promise!Continue

\* A fire event finds a timer that is pending.
LEMMA HandleTimerFireMaps ==
  ASSUME IInv, ProcInv, NEW m \in Timers, HandleTimerFire(m)
  PROVE  Promise!Begin(m)
<1>1. Firing(m) /\ loop.at = "recv"
  BY InvChannel, ReceiveRemoves DEF HandleTimerFire, Removes, Receive, Firing
<1>2. dropped = {} /\ m \in pendingTimers /\ status[m] = "none"
  BY <1>1 DEF ProcInv, IInv, OneFiring, FiresOnce
<1>3. Phase(m) = "accepted" /\ Phase(m)' = "running"
  BY <1>2 DEF HandleTimerFire, IInv, TypeOK, Phase, TimerPhase
<1>4. Answered' = Answered /\ \A u \in Tasks \ {m} : Same(u)
  BY <1>1 DEF HandleTimerFire, IInv, TypeOK, Answered, Same, Refusing, At
<1> QED BY <1>1, <1>3, <1>4, OneMoves, NoneRuns DEF Promise!Begin

\* A yield suspends the running thread.
LEMMA LuaYieldsMaps ==
  ASSUME IInv, NEW t \in Tasks, LuaYields(t)
  PROVE  Promise!Suspend(t)
<1>1. loop.at = "lua" /\ status[t] = "running"
  BY DEF LuaYields, IInv, Control
<1>2. Phase(t) = "running" /\ Phase(t)' = "suspended"
  BY <1>1 DEF LuaYields, IInv, TypeOK, Phase
<1>3. Answered' = Answered /\ \A u \in Tasks \ {t} : Same(u)
  BY <1>1 DEF LuaYields, IInv, TypeOK, Answered, Same, Refusing, Idle, At
<1> QED BY <1>2, <1>3, OneMoves DEF Promise!Suspend

\* The running thread ends.
LEMMA LuaEndsMaps ==
  ASSUME IInv, NEW t \in Tasks, NEW how \in {"dead", "exited"}, LuaEnds(t, how)
  PROVE  Promise!Finish(t)
<1>1. loop.at = "lua" /\ status[t] = "running"
  BY DEF LuaEnds, IInv, Control
<1>2. Phase(t) = "running" /\ Phase(t)' = "finished"
  BY <1>1 DEF LuaEnds, IInv, TypeOK, Phase
<1>3. Answered' = Answered /\ \A u \in Tasks \ {t} : Same(u)
  BY <1>1 DEF LuaEnds, AfterResume, IInv, TypeOK, Answered, Same, Refusing, At
<1> QED BY <1>2, <1>3, OneMoves DEF Promise!Finish

\* timer.at is accepted at once.
LEMMA NewTimerMaps ==
  ASSUME IInv, ProcInv, NEW m \in Timers, LuaGoesOn, NewTimer(m)
  PROVE  Promise!Accept(m)
<1>1. status[m] = "none" /\ m \notin pendingTimers /\ dropped = {}
  BY DEF NewTimer, LuaGoesOn, IInv, Senders, ProcInv
<1>2. Phase(m) = "idle" /\ Phase(m)' = "accepted"
  BY <1>1 DEF NewTimer, LuaGoesOn, Phase, TimerPhase
<1>3. Answered' = Answered /\ \A u \in Tasks \ {m} : Same(u)
  BY DEF NewTimer, LuaGoesOn, Answered, Same, Refusing
<1> QED BY <1>2, <1>3, OneMoves DEF Promise!Accept

\* EventStop drops what is pending, all of it at once.
LEMMA HandleStopMaps ==
  ASSUME IInv, ProcInv, HandleStop
  PROVE  Promise!Drop
<1>1. /\ loop.at = "recv" /\ loop'.at \in {"down", "panic"} /\ dropped = {}
      /\ dropped' = pendingTimers /\ pendingTimers' = {}
      /\ UNCHANGED <<status, caller, responseChan>>
  BY DEF HandleStop, Receive, Done, Down, Panic, At, ProcInv
<1>2. \A c \in Callers : Same(c)
  BY <1>1 DEF Same, Refusing, At
<1>3. \A m \in Timers :
        Phase(m)' = IF Phase(m) = "accepted" THEN "dropped" ELSE Phase(m)
  BY <1>1 DEF ProcInv, IInv, TypeOK, Phase, TimerPhase
<1>4. Answered' = Answered /\ \A c \in Callers : Phase(c)' = Phase(c)
  BY <1>1, <1>2, SameSeen DEF Answered
<1> QED BY <1>3, <1>4 DEF Promise!Drop, Promise!Tasks

\* A response is sent for a call that is over and has had none.
LEMMA ReplyMaps ==
  ASSUME IInv, Reply
  PROVE  \E c \in Callers : Promise!Answer(c)
<1>1. PICK c \in Callers : c = loop.task /\ Over(c)
  BY DEF Reply, IInv, Control
<1>2. caller[c] = "waiting" /\ responseChan[c] = 0 /\ c \notin Answered
  BY <1>1 DEF Reply, IInv, Owed, Owes, Answered
<1>3. status[c] = "none" => Refusing(c)
  BY <1>1 DEF Reply, IInv, TypeOK, Control, LoopStates, Refusing, Down, Idle, Panic, At
<1>4. Answered' = Answered \cup {c}
  BY <1>1 DEF Reply, IInv, TypeOK, Answered
<1>5. Phase(c) = "finished" /\ Phase(c)' = "finished"
  BY <1>1, <1>3, <1>4 DEF Reply, Over, Phase, CallPhase, Refused, Refusing
<1>6. \A u \in Tasks \ {c} : Same(u)
  BY <1>1 DEF Reply, IInv, TypeOK, Same, Refusing, Idle, At
<1>7. \A u \in Tasks : Phase(u)' = Phase(u)
  BY <1>5, <1>6, SameSeen
<1> QED BY <1>1, <1>2, <1>4, <1>5, <1>7 DEF Promise!Answer

\* What is left of a handler after the response, or before it.
LEMMA CloseThreadHidden ==
  ASSUME IInv, CloseThread
  PROVE  UNCHANGED Promise!vars
<1>1. loop.at = "close" /\ status[loop.task] \in {"dead", "exited"}
  BY DEF CloseThread, IInv, Control
<1>2. ASSUME NEW c \in Callers, status[c] = "none" PROVE ~Refusing(c) /\ ~Refusing(c)'
  BY <1>1, <1>2 DEF CloseThread, Done, Refusing, Idle, Panic, At
<1>3. UNCHANGED <<status, caller, responseChan, dropped, pendingTimers>>
  BY DEF CloseThread
<1>4. \A t \in Tasks : Phase(t)' = Phase(t)
  BY <1>2, <1>3 DEF Phase, CallPhase, TimerPhase, Refused, Refusing, Answered, InFlight
<1>5. Answered' = Answered
  BY <1>3 DEF Answered
<1> QED BY <1>4, <1>5 DEF Promise!vars

\* Sending a run event and receiving a response change nothing TaskService sees.
LEMMA CallerHidden ==
  ASSUME IInv, NEW c \in Callers, SendRun(c) \/ CallReturns(c)
  PROVE  UNCHANGED Promise!vars
<1>1. UNCHANGED <<loop, status, dropped, pendingTimers>>
  BY DEF SendRun, CallReturns
<1>2. Answered' = Answered
  BY DEF SendRun, CallReturns, IInv, TypeOK, Answered
<1>3. \A d \in Callers : d \notin Answered => (InFlight(d)' <=> InFlight(d))
  BY DEF SendRun, CallReturns, IInv, TypeOK, Answered, InFlight
<1>4. \A t \in Tasks : Phase(t)' = Phase(t)
  BY <1>1, <1>2, <1>3 DEF IInv, TypeOK, Phase, CallPhase, TimerPhase, Refused
<1> QED BY <1>2, <1>4 DEF Promise!vars

-----------------------------------------------------------------------------
(* The whole.                                                              *)

\* The loop starts as TaskService starts.
LEMMA InitMaps == Init => Promise!Init
<1> SUFFICES ASSUME Init PROVE Promise!Init
  OBVIOUS
<1>1. Answered = {} /\ \A c \in Callers : ~Refusing(c)
  BY DEF Init, Answered, Refusing, Down, At
<1>2. \A t \in Tasks : Phase(t) = "idle"
  BY <1>1 DEF Init, Phase, CallPhase, TimerPhase, Refused, Refusing, InFlight
<1> QED BY <1>1, <1>2 DEF Promise!Init, Promise!Tasks

\* Every step is a step of TaskService or changes nothing there.
LEMMA NextMaps ==
  ASSUME IInv, ProcInv, [ProcessNext]_vars
  PROVE  [Promise!Next]_(Promise!vars)
<1>1. CASE LuaStep
  <2>1. CASE CancelTimers
    BY <2>1, NothingSeen DEF CancelTimers, LuaGoesOn, Same, Refusing
  <2>2. CASE \E t \in Tasks : SleepZero(t) \/ StartAsync(t)
    BY <2>2, LuaYieldsMaps DEF SleepZero, StartAsync, Promise!Next, Promise!Tasks
  <2>3. CASE \E m \in Timers : TimerAtZero(m) \/ TimerAt(m)
    BY <2>3, NewTimerMaps DEF TimerAtZero, TimerAt, Promise!Next, Promise!Tasks
  <2>4. CASE \E t \in Tasks, how \in {"dead", "exited"} : LuaEnds(t, how)
    BY <2>4, LuaEndsMaps DEF Promise!Next, Promise!Tasks
  <2> QED BY <1>1, <2>1, <2>2, <2>3, <2>4 DEF LuaStep
<1>2. CASE LoopStep /\ ~LuaStep
  BY <1>2, HandleRunFailsMaps, HandleRunMaps, HandleResumeMaps, HandleTimerFireMaps,
     HandleStopMaps, CloseThreadHidden, ReplyMaps
     DEF LoopStep, Promise!Next, Promise!Tasks
<1>3. ASSUME NEW c \in Callers, CallerStep(c) PROVE [Promise!Next]_(Promise!vars)
  BY <1>3, CallMaps, CallerHidden DEF CallerStep, Promise!Next, Promise!Tasks
<1>4. CASE (\E m \in Timers : TimerStep(m)) \/ (\E ev \in posting : Post(ev))
  <2>1. UNCHANGED <<loop, status, caller, responseChan, dropped, pendingTimers>>
    BY <1>4 DEF TimerStep, TimerExpires, TimerCancelled, Post
  <2> QED BY <2>1, NothingSeen DEF Same, Refusing
<1>5. CASE OwnerStep
  <2>1. UNCHANGED <<status, caller, responseChan, dropped, pendingTimers>>
    BY <1>5 DEF OwnerStep, Start, Launch, WaitReturns, StopBegins, StopCancels,
                StopSends, StopReturns, Close
  <2>2. UNCHANGED loop \/ (loop = Down /\ loop' = Idle)
    BY <1>5 DEF OwnerStep, Start, Launch, WaitReturns, StopBegins, StopCancels,
                StopSends, StopReturns, Close, IInv, Control
  <2>3. \A c \in Callers : Refusing(c)' <=> Refusing(c)
    BY <2>2 DEF Refusing, Down, Idle, At
  <2> QED BY <2>1, <2>3, NothingSeen DEF Same
<1>6. CASE UNCHANGED vars
  BY <1>6, NothingSeen DEF vars, Same, Refusing
<1> QED BY <1>1, <1>2, <1>3, <1>4, <1>5, <1>6 DEF ProcessNext

\* A state that is started once keeps the promise of TaskService: one task at
\* a time, each from its beginning to its end, one answer to each call after
\* its end, and no timer after it was dropped.
THEOREM PromiseKept == ProcessSpec => KeepsPromise
<1>1. Init => Promise!Init
  BY InitMaps
<1>2. IInv /\ ProcInv /\ [ProcessNext]_vars => [Promise!Next]_(Promise!vars)
  BY NextMaps
<1> QED BY <1>1, <1>2, ProcessInvariance, PTL DEF ProcessSpec, KeepsPromise, Promise!Spec
=============================================================================
