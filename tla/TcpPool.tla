------------------------------ MODULE TcpPool ------------------------------
(***************************************************************************)
(* The pool of idle TCP connections of one key: src/golapis/tcp_pool.go,   *)
(* setkeepalive and the pool path of connect in tcp_socket.go, and         *)
(* drainTCPPools in golapis.go.                                            *)
(*                                                                         *)
(* Four parties compete for a pooled connection: the Lua thread, which     *)
(* takes it back (connect) or evicts it (setkeepalive of another one), the *)
(* entry's watcher goroutine, which waits in Read for the idle timeout or  *)
(* for anything the peer does, and Stop or Close, which drain the pool.    *)
(* Whoever swaps the entry's state from Available to Claimed owns it.      *)
(*                                                                         *)
(* The sections under tcpPoolsMu are atomic here.  A watcher swaps the     *)
(* state without the lock, but a scan of the list under the lock acts as   *)
(* if it happened at the moment of its swap: the entries it passed over    *)
(* were claimed and stay so.  A connection has one entry at a time (that   *)
(* is part of HandedOver), so the entry's fields are indexed by it.        *)
(*                                                                         *)
(* Just above some definitions stands a slip that the code could contain   *)
(* in its place (JoinedNot above Joined, ...).  The specification uses     *)
(* none of them: they are there to show that a property would notice.      *)
(***************************************************************************)
EXTENDS Integers, FiniteSets

CONSTANTS
  Conns,      \* connections to the key's peer
  NoConn,     \* names no connection
  PoolSizes   \* sizes that setkeepalive and connect may ask for

ASSUME ConnsAssumption == IsFiniteSet(Conns) /\ NoConn \notin Conns
ASSUME SizesAssumption == PoolSizes \subseteq Nat \ {0}

VARIABLES
  maxSize,      \* pool.maxSize, 0 before the pool exists
  listed,       \* connections with an element in pool.list
  newer,        \* the order of pool.list: <<c, d>> when c is nearer the front
  poolsClosed,  \* tcpPoolsClosed
  where,        \* who holds a connection: "none", "socket", "pool", "gone"
  claim,        \* entry.state: "available", or who claimed the entry
  deadline,     \* read deadline of a connection: "none", "idle", "past"
  watcher,      \* where an entry's watcher is, "off" once done is closed
  broken,       \* entry.broken
  aged,         \* expiresAt of a connection's entry has passed
  spoke,        \* the peer sent data or closed while the connection idled
  closes,       \* calls of conn.Close
  lua,          \* the Lua thread inside connect or setkeepalive
  phase,        \* what the owner of the state does: Start, Stop or Close
  toClose,      \* entries that drainTCPPools has claimed and will close
  unfit         \* history: a watcher saw data, an error or the idle expiry

listVars  == <<maxSize, listed, newer>>
connVars  == <<where, deadline, closes>>
entryVars == <<claim, watcher, broken, aged>>
stateVars == <<poolsClosed, phase, toClose>>
vars == <<listVars, connVars, entryVars, stateVars, spoke, lua, unfit>>

At(at, c, e) == [at |-> at, conn |-> c, evicted |-> e]
Idle == At("idle", NoConn, NoConn)

Init ==
  /\ maxSize = 0
  /\ listed = {}
  /\ newer = {}
  /\ poolsClosed = FALSE
  /\ where = [c \in Conns |-> "none"]
  /\ claim = [c \in Conns |-> "available"]
  /\ deadline = [c \in Conns |-> "none"]
  /\ watcher = [c \in Conns |-> "off"]
  /\ broken = {}
  /\ aged = {}
  /\ spoke = {}
  /\ closes = [c \in Conns |-> 0]
  /\ lua = Idle
  /\ phase = "up"
  /\ toClose = {}
  /\ unfit = {}

Available == {c \in listed : claim[c] = "available"}

Unlink(S) ==
  /\ listed' = listed \ S
  /\ newer' = {p \in newer : p[1] \notin S /\ p[2] \notin S}

\* the first available entry from the front, or from the back, of the list
MostRecent  == {c \in Available : \A d \in Available : <<d, c>> \notin newer}
LeastRecent == {c \in Available : \A d \in Available : <<c, d>> \notin newer}

\* conn.Close() by whoever owns the connections of S
CloseConns(S) ==
  /\ closes' = [c \in Conns |-> IF c \in S THEN closes[c] + 1 ELSE closes[c]]
  /\ where' = [c \in Conns |-> IF c \in S THEN "gone" ELSE where[c]]

-----------------------------------------------------------------------------
(* The Lua thread: one at a time runs, on the event loop.                  *)

LuaRuns(at) == phase \in {"up", "draining"} /\ lua.at \in at

\* connect found nothing in the pool; the dial ended with an event
Dialed(c) ==
  /\ LuaRuns({"idle"})
  /\ where[c] = "none"
  /\ where' = [where EXCEPT ![c] = "socket"]
  /\ UNCHANGED <<listVars, deadline, closes, entryVars, stateVars, spoke, lua, unfit>>

\* close, a second connect, or the finalizer (also when Close frees the state)
SocketCloses(c) ==
  /\ LuaRuns({"idle"}) \/ phase = "over"
  /\ where[c] = "socket"
  /\ CloseConns({c})
  /\ UNCHANGED <<listVars, deadline, entryVars, stateVars, spoke, lua, unfit>>

\* tryTakeFromPool: claim and unlink the most recently used entry
TakeClaims(c) ==
  /\ LuaRuns({"idle", "scan"})
  /\ c \in MostRecent
  /\ claim' = [claim EXCEPT ![c] = "taker"]
  /\ Unlink({c})
  /\ lua' = At("wake", c, NoConn)
  /\ UNCHANGED <<maxSize, connVars, watcher, broken, aged, stateVars, spoke, unfit>>

\* tryTakeFromPool found another entry unusable and nothing is left
TakeMisses ==
  /\ LuaRuns({"scan"})
  /\ Available = {}
  /\ lua' = Idle
  /\ UNCHANGED <<listVars, connVars, entryVars, stateVars, spoke, unfit>>

\* make the watcher's Read return
TakeWakes ==
  /\ LuaRuns({"wake"})
  /\ deadline' = [deadline EXCEPT ![lua.conn] = "past"]
  /\ lua' = At("wait", lua.conn, NoConn)
  /\ UNCHANGED <<listVars, where, closes, entryVars, stateVars, spoke, unfit>>

\* <-entry.done
JoinedNot(c) == TRUE
Joined(c) == watcher[c] = "off"

\* the watcher is gone, and what it saw decides
TakeEnds ==
  /\ LuaRuns({"wait"})
  /\ Joined(lua.conn)
  /\ IF lua.conn \in broken
     THEN /\ CloseConns({lua.conn})
          /\ lua' = At("scan", NoConn, NoConn)
          /\ UNCHANGED <<deadline, spoke>>
     ELSE /\ where' = [where EXCEPT ![lua.conn] = "socket"]
          /\ deadline' = [deadline EXCEPT ![lua.conn] = "none"]
          /\ spoke' = spoke \ {lua.conn}
          /\ lua' = Idle
          /\ UNCHANGED closes
  /\ UNCHANGED <<listVars, entryVars, stateVars, unfit>>

\* setkeepalive after drainTCPPools
KeepRejected(c) ==
  /\ LuaRuns({"idle"})
  /\ where[c] = "socket"
  /\ poolsClosed
  /\ CloseConns({c})
  /\ UNCHANGED <<listVars, deadline, entryVars, stateVars, spoke, lua, unfit>>

\* a pool only grows
GrownBySum(size) == maxSize + size
Grown(size) == IF size > maxSize THEN size ELSE maxSize

\* the entry that has to leave a pool of this size, if it can be claimed
VictimsOffByOne(size) ==
  IF Cardinality(listed) <= size \/ Available = {} THEN {NoConn} ELSE LeastRecent
Victims(size) ==
  IF Cardinality(listed) < size \/ Available = {} THEN {NoConn} ELSE LeastRecent

\* setkeepalive: d is what the last operation of the socket left as deadline
KeepLinks(c, size, d) ==
  /\ LuaRuns({"idle"})
  /\ where[c] = "socket"
  /\ ~poolsClosed
  /\ maxSize' = Grown(size)
  /\ \E e \in Victims(maxSize') :
       /\ listed' = (listed \ {e}) \cup {c}
       /\ newer' = {p \in newer : e \notin {p[1], p[2]}}
                     \cup {<<c, x>> : x \in listed \ {e}}
       /\ claim' = [x \in Conns |-> IF x = c THEN "available"
                                    ELSE IF x = e THEN "evictor" ELSE claim[x]]
       /\ lua' = At("spawn", c, e)
  /\ where' = [where EXCEPT ![c] = "pool"]
  /\ deadline' = [deadline EXCEPT ![c] = d]
  /\ broken' = broken \ {c}
  /\ aged' = aged \ {c}
  /\ UNCHANGED <<closes, watcher, stateVars, spoke, unfit>>

\* outside the lock: closePoolEntry(evicted), then go entry.watch()
KeepEnds ==
  /\ LuaRuns({"spawn"})
  /\ LET S == {lua.evicted} \cap Conns
     IN  /\ CloseConns(S)
         /\ deadline' = [c \in Conns |-> IF c \in S THEN "past" ELSE deadline[c]]
  /\ watcher' = [watcher EXCEPT ![lua.conn] = "start"]
  /\ lua' = Idle
  /\ UNCHANGED <<listVars, claim, broken, aged, stateVars, spoke, unfit>>

-----------------------------------------------------------------------------
(* The watcher goroutine of an entry, and what it waits for.               *)

Watch(c, from, to) ==
  /\ watcher[c] = from
  /\ watcher' = [watcher EXCEPT ![c] = to]

\* the peer sends something nobody asked for, or closes
PeerSpeaks(c) ==
  /\ where[c] = "pool"
  /\ c \notin spoke
  /\ spoke' = spoke \cup {c}
  /\ UNCHANGED <<listVars, connVars, entryVars, stateVars, lua, unfit>>

\* the clock passes the watcher's expiresAt
IdleExpires(c) ==
  /\ watcher[c] \in {"arm", "recheck", "read"}
  /\ c \notin aged
  /\ aged' = aged \cup {c}
  /\ UNCHANGED <<listVars, connVars, claim, watcher, broken, stateVars, spoke, lua, unfit>>

\* a look at entry.state, before and again after SetReadDeadline(expiresAt)
WatchLooksOnce(c) ==
  /\ \/ Watch(c, "start", IF claim[c] = "available" THEN "arm" ELSE "off")
     \/ Watch(c, "recheck", "read")
  /\ UNCHANGED <<listVars, connVars, claim, broken, aged, stateVars, spoke, lua, unfit>>
WatchLooks(c) ==
  /\ \E step \in {<<"start", "arm">>, <<"recheck", "read">>} :
       Watch(c, step[1], IF claim[c] = "available" THEN step[2] ELSE "off")
  /\ UNCHANGED <<listVars, connVars, claim, broken, aged, stateVars, spoke, lua, unfit>>

WatchArms(c) ==
  /\ Watch(c, "arm", "recheck")
  /\ deadline' = [deadline EXCEPT ![c] = "idle"]
  /\ UNCHANGED <<listVars, where, closes, claim, broken, aged, stateVars, spoke, lua, unfit>>

\* Read returns a byte, EOF, or the error of a closed connection
ReadFails(c) ==
  /\ c \in spoke \/ where[c] = "gone"
  /\ Watch(c, "read", "dirty")
  /\ unfit' = unfit \cup {c}
  /\ UNCHANGED <<listVars, connVars, claim, broken, aged, stateVars, spoke, lua>>

\* reclaimWake: a timeout while expiresAt is still ahead
ReclaimWakeAlways(c) == TRUE
ReclaimWake(c) == c \notin aged

\* Read times out
ReadTimesOut(c) ==
  /\ deadline[c] = "past" \/ (deadline[c] = "idle" /\ c \in aged)
  /\ Watch(c, "read", IF ReclaimWake(c) THEN "clean" ELSE "dirty")
  /\ unfit' = unfit \cup ({c} \cap aged)
  /\ UNCHANGED <<listVars, connVars, claim, broken, aged, stateVars, spoke, lua>>

WatchClaims(c) ==
  /\ watcher[c] \in {"clean", "dirty"}
  /\ IF claim[c] = "available"
     THEN /\ claim' = [claim EXCEPT ![c] = "watcher"]
          /\ watcher' = [watcher EXCEPT ![c] = "unlink"]
          /\ UNCHANGED broken
     ELSE /\ broken' = IF watcher[c] = "dirty" THEN broken \cup {c} ELSE broken
          /\ watcher' = [watcher EXCEPT ![c] = "off"]
          /\ UNCHANGED claim
  /\ UNCHANGED <<listVars, connVars, aged, stateVars, spoke, lua, unfit>>

WatchUnlinks(c) ==
  /\ Watch(c, "unlink", "close")
  /\ Unlink({c})
  /\ UNCHANGED <<maxSize, connVars, claim, broken, aged, stateVars, spoke, lua, unfit>>

WatchCloses(c) ==
  /\ Watch(c, "close", "off")
  /\ CloseConns({c})
  /\ UNCHANGED <<listVars, deadline, claim, broken, aged, stateVars, spoke, lua, unfit>>

-----------------------------------------------------------------------------
(* drainTCPPools, called by Stop while the event loop still runs and again *)
(* by Close after it.                                                      *)

Drainable == Available

DrainClaims(from, to) ==
  /\ phase = from
  /\ phase' = to
  /\ poolsClosed' = TRUE
  /\ toClose' = Drainable
  /\ claim' = [c \in Conns |-> IF c \in Drainable THEN "drainer" ELSE claim[c]]
  /\ Unlink(Drainable)
  /\ UNCHANGED <<maxSize, connVars, watcher, broken, aged, spoke, lua, unfit>>

Stop  == DrainClaims("up", "draining")
Close == DrainClaims("down", "over")

\* closePoolEntry, outside the lock
DrainCloses(c) ==
  /\ c \in toClose
  /\ toClose' = toClose \ {c}
  /\ CloseConns({c})
  /\ deadline' = [deadline EXCEPT ![c] = "past"]
  /\ UNCHANGED <<listVars, entryVars, poolsClosed, phase, spoke, lua, unfit>>

\* the event loop has received EventStop: no Lua thread runs any more
LoopStops ==
  /\ phase = "draining"
  /\ toClose = {}
  /\ lua.at = "idle"
  /\ phase' = "down"
  /\ UNCHANGED <<listVars, connVars, entryVars, poolsClosed, toClose, spoke, lua, unfit>>

Start ==
  /\ phase = "down"
  /\ phase' = "up"
  /\ poolsClosed' = FALSE
  /\ UNCHANGED <<listVars, connVars, entryVars, toClose, spoke, lua, unfit>>

-----------------------------------------------------------------------------
LuaGoesOn == TakeMisses \/ TakeWakes \/ TakeEnds \/ KeepEnds
               \/ (lua.at = "scan" /\ \E c \in Conns : TakeClaims(c))

WatcherStep(c) ==
  \/ WatchLooks(c) \/ WatchArms(c) \/ ReadFails(c) \/ ReadTimesOut(c)
  \/ WatchClaims(c) \/ WatchUnlinks(c) \/ WatchCloses(c)

LuaStep(c) ==
  \/ Dialed(c) \/ SocketCloses(c) \/ TakeClaims(c) \/ KeepRejected(c)
  \/ \E size \in PoolSizes, d \in {"none", "past"} : KeepLinks(c, size, d)

Next ==
  \/ LuaGoesOn
  \/ \E c \in Conns : \/ LuaStep(c) \/ WatcherStep(c) \/ DrainCloses(c)
                      \/ PeerSpeaks(c) \/ IdleExpires(c)
  \/ Stop \/ LoopStops \/ Start \/ Close

Spec == Init /\ [][Next]_vars

(* The Go scheduler runs every goroutine that can go on; a Read returns    *)
(* once its deadline has passed or there is something to read.  Nothing    *)
(* says that time passes, that the peer does anything, or that Lua code    *)
(* or the owner of the state makes a call.                                 *)
Fairness ==
  /\ WF_vars(LuaGoesOn)
  /\ \A c \in Conns : WF_vars(WatcherStep(c)) /\ WF_vars(DrainCloses(c))

FairSpec == Spec /\ Fairness

-----------------------------------------------------------------------------
(* Properties.                                                             *)

TypeOK ==
  /\ maxSize \in PoolSizes \cup {0}
  /\ listed \subseteq Conns
  /\ newer \subseteq Conns \X Conns
  /\ poolsClosed \in BOOLEAN
  /\ where \in [Conns -> {"none", "socket", "pool", "gone"}]
  /\ claim \in [Conns -> {"available", "taker", "evictor", "drainer", "watcher"}]
  /\ deadline \in [Conns -> {"none", "idle", "past"}]
  /\ watcher \in [Conns -> {"off", "start", "arm", "recheck", "read",
                            "clean", "dirty", "unlink", "close"}]
  /\ broken \subseteq Conns /\ aged \subseteq Conns /\ spoke \subseteq Conns
  /\ closes \in [Conns -> Nat]
  /\ lua \in [at : {"idle", "scan", "wake", "wait", "spawn"},
              conn : Conns \cup {NoConn}, evicted : Conns \cup {NoConn}]
  /\ phase \in {"up", "draining", "down", "over"}
  /\ toClose \subseteq Conns
  /\ unfit \subseteq Conns

\* What a socket got from the pool is its own: no watcher reads from it any
\* more (and could swallow a byte of the next response), it is in no list, it
\* is open, no watcher has seen data, an error or the idle expiry on it
\* (tryTakeFromPool: "the watcher has fully exited"), and its read deadline is
\* cleared, the one that woke the watcher as well as the one the watcher set.
HandedOver ==
  \A c \in Conns : where[c] = "socket" =>
    /\ watcher[c] = "off"
    /\ c \notin listed \cup toClose \cup unfit
    /\ closes[c] = 0
    /\ deadline[c] = "none"

\* Nothing that competes for an entry closes a connection another one has
\* closed or will close (evictLRUUnlocked, drainTCPPools, watch).
ClosedOnce == \A c \in Conns : closes[c] = (IF where[c] = "gone" THEN 1 ELSE 0)

\* A connection has one keeper at a time, who alone may close it.
KeptAlone == HandedOver /\ ClosedOnce

\* The list holds the entries one can claim and those a watcher has claimed
\* and is about to unlink, in one order: nobody leaves a dead entry behind, so
\* that removeFromList never unlinks what someone else has unlinked.
ListExact ==
  /\ \A c \in Conns :
       c \in listed <=> /\ where[c] = "pool"
                        /\ claim[c] = "available" \/ watcher[c] = "unlink"
  /\ newer \subseteq listed \X listed
  /\ \A c, d \in listed :
       c # d => (<<c, d>> \in newer <=> <<d, c>> \notin newer)
  /\ \A c, d, e \in listed :
       <<c, d>> \in newer /\ <<d, e>> \in newer => <<c, e>> \in newer

\* A pool never holds more connections that can be claimed than its size, in
\* spite of the over-capacity that setkeepalive accepts while watchers are
\* about to unlink theirs.
WithinSize == Cardinality(Available) <= maxSize

\* Stop and Close leave no idle connection behind: after them an entry is in
\* the hands of its own watcher at most, whatever setkeepalive was doing.
DrainedEmpty == poolsClosed => Available = {}

\* So Close finds nothing to drain after Stop, and what Stop claimed is closed
\* before the state is freed.
NothingLeft ==
  /\ DrainedEmpty
  /\ phase \in {"down", "over"} =>
       toClose = {} /\ \A c \in listed : watcher[c] = "unlink"

\* The pool's book-keeping is exact: the list, the size it was given, and nothing
\* once the state was stopped.
PoolExact == ListExact /\ WithinSize /\ NothingLeft

\* connect and setkeepalive return: the event loop never hangs on a watcher
\* that sleeps until the idle timeout because it set its own deadline over the
\* one that was to wake it.
PoolReturns == (lua.at # "idle") ~> (lua.at = "idle")

\* A connection that has idled too long, or whose peer did anything, does not
\* stay in the pool.
UnfitLeaves ==
  \A c \in Conns :
    (where[c] = "pool" /\ (c \in aged \/ c \in spoke)) ~> (where[c] # "pool")

\* Neither the caller nor an unfit connection waits on a watcher for ever.
PoolMoves == PoolReturns /\ UnfitLeaves

-----------------------------------------------------------------------------
(* The promise of ConnService.                                             *)

Life(c) ==
  CASE where[c] = "none" -> "new"
    [] where[c] = "socket" -> "used"
    [] where[c] = "gone" -> "closed"
    [] OTHER -> IF claim[c] = "available" THEN "idle" ELSE "leaving"

Promise == INSTANCE ConnService WITH
             life  <- [c \in Conns |-> Life(c)],
             limit <- maxSize

\* Every step of the pool is a step of ConnService or changes nothing there.
KeepsPromise == Promise!Spec
=============================================================================
