--------------------------- MODULE TcpPool_proofs ---------------------------
(***************************************************************************)
(* Proofs about TcpPool, for any finite set of connections and any pool    *)
(* sizes: its safety properties, and that it implements ConnService.  The  *)
(* inductive invariant says, for every entry that is claimed but not yet   *)
(* released, which party holds it and where that party is: the swap of     *)
(* entry.state gives it to exactly one.                                    *)
(***************************************************************************)
EXTENDS TcpPool, TLAPS, FiniteSetTheorems

-----------------------------------------------------------------------------
(* The inductive invariant.                                                *)

Watching == {"start", "arm", "recheck", "read", "clean", "dirty"}

\* Who holds a connection that is in the pool.
Holder(c) ==
  CASE claim[c] = "available" ->
         watcher[c] \in Watching \/ (lua.at = "spawn" /\ lua.conn = c)
    [] claim[c] = "taker"   -> lua.at \in {"wake", "wait"} /\ lua.conn = c
    [] claim[c] = "evictor" -> lua.at = "spawn" /\ lua.evicted = c
    [] claim[c] = "drainer" -> c \in toClose
    [] OTHER -> watcher[c] \in {"unlink", "close"}

Held == \A c \in Conns : where[c] = "pool" => Holder(c)

\* What the Lua thread holds while it is inside connect or setkeepalive.
LuaHolds ==
  /\ lua.at \in {"idle", "scan"} => lua.conn = NoConn
  /\ lua.at \in {"wake", "wait"} =>
       /\ lua.conn \in Conns
       /\ where[lua.conn] = "pool" /\ claim[lua.conn] = "taker"
  /\ lua.at = "spawn" =>
       /\ lua.conn \in Conns
       /\ watcher[lua.conn] = "off"
       /\ where[lua.conn] \in {"pool", "gone"}
       /\ claim[lua.conn] \in {"available", "drainer"}
       /\ where[lua.conn] = "gone" => claim[lua.conn] = "drainer"
       /\ lua.evicted \in Conns =>
            where[lua.evicted] = "pool" /\ claim[lua.evicted] = "evictor"

\* What the drain and the watchers hold.
OthersHold ==
  /\ \A c \in toClose : where[c] = "pool" /\ claim[c] = "drainer"
  /\ \A c \in Conns :
       watcher[c] \in {"unlink", "close"} =>
         where[c] = "pool" /\ claim[c] = "watcher"

Ownership == Held /\ LuaHolds /\ OthersHold

\* Nothing is left of the entry of a connection that a socket holds.  A watcher
\* may outlive its connection, but then it finds its entry claimed.
Released ==
  \A c \in Conns :
    /\ where[c] \in {"none", "socket"} =>
         watcher[c] = "off" /\ c \notin unfit /\ deadline[c] = "none"
    /\ where[c] = "gone" /\ claim[c] = "available" => watcher[c] = "off"

\* What a watcher has seen reaches the taker.
Reported ==
  \A c \in Conns :
    c \in unfit =>
      where[c] = "gone" \/ c \in broken \/ watcher[c] \in {"dirty", "unlink", "close"}

Remains == Released /\ Reported /\ ClosedOnce

\* A drained pool stays drained until the next Start.
Drained ==
  /\ phase = "up" => toClose = {}
  /\ phase # "up" => poolsClosed
  /\ poolsClosed => Available = {}
  /\ phase \in {"down", "over"} => toClose = {}

IInv == TypeOK /\ Ownership /\ Remains /\ ListExact /\ WithinSize /\ Drained

-----------------------------------------------------------------------------
(* Sizes of sets.                                                          *)

\* A part of a set that fits, fits.
LEMMA PartFits ==
  ASSUME NEW S, IsFiniteSet(S), NEW T, T \subseteq S, NEW n \in Nat, Cardinality(S) <= n
  PROVE  Cardinality(T) <= n
<1>1. Cardinality(T) <= Cardinality(S) /\ IsFiniteSet(T)
  BY FS_Subset
<1>2. Cardinality(S) \in Nat /\ Cardinality(T) \in Nat
  BY <1>1, FS_CardinalityType
<1> QED BY <1>1, <1>2

\* Whoever claims entries leaves the pool within its size.
LEMMA ClaimFits ==
  ASSUME IInv, Available' \subseteq Available, maxSize' = maxSize
  PROVE  WithinSize'
<1>1. IsFiniteSet(Available)
  BY ConnsAssumption, FS_Subset DEF IInv, TypeOK, Available
<1>2. maxSize \in Nat
  BY SizesAssumption DEF IInv, TypeOK
<1> QED BY <1>1, <1>2, PartFits DEF IInv, WithinSize

-----------------------------------------------------------------------------
(* Every action preserves the invariant: one lemma for each.               *)

USE DEF listVars, connVars, entryVars, stateVars, Unlink, CloseConns, LuaRuns,
        At, Idle, Watch, Available, Joined, Drainable, ReclaimWake
USE ConnsAssumption, SizesAssumption

\* A new connection touches nothing of the pool.
LEMMA DialedKeeps ==
  ASSUME NEW c \in Conns, IInv, Dialed(c)
  PROVE  IInv'
<1>1. TypeOK'
  BY DEF IInv, Dialed, TypeOK
<1>2. Ownership'
  BY DEF IInv, Dialed, Ownership, Held, Holder, LuaHolds, OthersHold
<1>3. Remains'
  BY DEF IInv, Dialed, Remains, Released, Reported, ClosedOnce
<1>4. ListExact'
  BY DEF IInv, Dialed, ListExact
<1>5. WithinSize'
  BY DEF IInv, Dialed, WithinSize
<1>6. Drained'
  BY DEF IInv, Dialed, Drained
<1> QED BY <1>1, <1>2, <1>3, <1>4, <1>5, <1>6 DEF IInv

\* A socket closes what it alone holds.
LEMMA SocketClosesKeeps ==
  ASSUME NEW c \in Conns, IInv, SocketCloses(c)
  PROVE  IInv'
<1>1. TypeOK'
  BY DEF IInv, SocketCloses, TypeOK
<1>2. Ownership'
  BY DEF IInv, SocketCloses, Ownership, TypeOK, Held, Holder, LuaHolds,
         OthersHold
<1>3. Remains'
  BY DEF IInv, SocketCloses, Remains, Released, Reported, ClosedOnce
<1>4. ListExact'
  BY DEF IInv, SocketCloses, ListExact
<1>5. WithinSize'
  BY DEF IInv, SocketCloses, WithinSize
<1>6. Drained'
  BY DEF IInv, SocketCloses, Drained
<1> QED BY <1>1, <1>2, <1>3, <1>4, <1>5, <1>6 DEF IInv

\* connect takes the front entry that it can claim out of the list.
LEMMA TakeClaimsKeeps ==
  ASSUME NEW c \in Conns, IInv, TakeClaims(c)
  PROVE  IInv'
<1>1. TypeOK'
  BY DEF IInv, TakeClaims, TypeOK
<1>2. Ownership'
  BY DEF IInv, TakeClaims, Ownership, TypeOK, Held, Holder, LuaHolds,
         OthersHold, ListExact, MostRecent
<1>3. Remains'
  BY DEF IInv, TakeClaims, Remains, Released, Reported, ClosedOnce
<1>4. ListExact'
  BY DEF IInv, TakeClaims, Ownership, TypeOK, OthersHold, ListExact, MostRecent
<1>5. WithinSize'
  <2>1. Available' \subseteq Available
    BY DEF IInv, TypeOK, TakeClaims
  <2> QED BY <2>1, ClaimFits DEF TakeClaims
<1>6. Drained'
  BY DEF IInv, TakeClaims, Drained
<1> QED BY <1>1, <1>2, <1>3, <1>4, <1>5, <1>6 DEF IInv

\* The retry of connect ends with nothing.
LEMMA TakeMissesKeeps ==
  ASSUME IInv, TakeMisses
  PROVE  IInv'
<1>1. TypeOK'
  BY DEF IInv, TakeMisses, TypeOK
<1>2. Ownership'
  BY DEF IInv, TakeMisses, Ownership, Held, Holder, LuaHolds, OthersHold
<1>3. Remains'
  BY DEF IInv, TakeMisses, Remains, Released, Reported, ClosedOnce
<1>4. ListExact'
  BY DEF IInv, TakeMisses, ListExact
<1>5. WithinSize'
  BY DEF IInv, TakeMisses, WithinSize
<1>6. Drained'
  BY DEF IInv, TakeMisses, Drained
<1> QED BY <1>1, <1>2, <1>3, <1>4, <1>5, <1>6 DEF IInv

\* The entry that connect has claimed stays its own while it wakes the watcher.
LEMMA TakeWakesKeeps ==
  ASSUME IInv, TakeWakes
  PROVE  IInv'
<1>1. TypeOK'
  BY DEF IInv, TakeWakes, TypeOK
<1>2. Ownership'
  BY DEF IInv, TakeWakes, Ownership, Held, Holder, LuaHolds, OthersHold
<1>3. Remains'
  BY DEF IInv, TakeWakes, Ownership, Remains, LuaHolds, Released, Reported,
         ClosedOnce
<1>4. ListExact'
  BY DEF IInv, TakeWakes, ListExact
<1>5. WithinSize'
  BY DEF IInv, TakeWakes, WithinSize
<1>6. Drained'
  BY DEF IInv, TakeWakes, Drained
<1> QED BY <1>1, <1>2, <1>3, <1>4, <1>5, <1>6 DEF IInv

\* The watcher is gone: the connection goes to the socket, or is closed.
LEMMA TakeEndsKeeps ==
  ASSUME IInv, TakeEnds
  PROVE  IInv'
<1>1. TypeOK'
  BY DEF IInv, TakeEnds, TypeOK
<1>2. Ownership'
  BY DEF IInv, TakeEnds, Ownership, TypeOK, Held, Holder, LuaHolds, OthersHold
<1>3. Remains'
  BY DEF IInv, TakeEnds, Ownership, Remains, TypeOK, LuaHolds, Released,
         Reported, ClosedOnce
<1>4. ListExact'
  BY DEF IInv, TakeEnds, Ownership, TypeOK, LuaHolds, ListExact
<1>5. WithinSize'
  BY DEF IInv, TakeEnds, WithinSize
<1>6. Drained'
  BY DEF IInv, TakeEnds, Drained
<1> QED BY <1>1, <1>2, <1>3, <1>4, <1>5, <1>6 DEF IInv

\* After a drain setkeepalive closes the connection of its own socket.
LEMMA KeepRejectedKeeps ==
  ASSUME NEW c \in Conns, IInv, KeepRejected(c)
  PROVE  IInv'
<1>1. TypeOK'
  BY DEF IInv, KeepRejected, TypeOK
<1>2. Ownership'
  BY DEF IInv, KeepRejected, Ownership, TypeOK, Held, Holder, LuaHolds,
         OthersHold
<1>3. Remains'
  BY DEF IInv, KeepRejected, Remains, Released, Reported, ClosedOnce
<1>4. ListExact'
  BY DEF IInv, KeepRejected, ListExact
<1>5. WithinSize'
  BY DEF IInv, KeepRejected, WithinSize
<1>6. Drained'
  BY DEF IInv, KeepRejected, Drained
<1> QED BY <1>1, <1>2, <1>3, <1>4, <1>5, <1>6 DEF IInv

\* A new entry is linked, and at most one other has to leave.
LEMMA KeepLinksKeeps ==
  ASSUME NEW c \in Conns, NEW size \in PoolSizes, NEW d \in {"none", "past"},
         IInv, KeepLinks(c, size, d)
  PROVE  IInv'
<1>1. TypeOK'
  BY DEF IInv, KeepLinks, TypeOK, Victims, Grown, LeastRecent
<1>2. Ownership'
  BY DEF IInv, KeepLinks, Remains, Ownership, TypeOK, Held, Holder, LuaHolds,
         OthersHold, Released, ListExact, Victims, LeastRecent
<1>3. Remains'
  BY DEF IInv, KeepLinks, Remains, TypeOK, Released, Reported, ClosedOnce
<1>4. ListExact'
  BY DEF IInv, KeepLinks, Ownership, TypeOK, OthersHold, ListExact, Victims,
         LeastRecent
<1>5. WithinSize'
  <2>1. IsFiniteSet(listed) /\ IsFiniteSet(Available)
    BY FS_Subset DEF IInv, TypeOK
  <2>2. maxSize \in Nat /\ maxSize' \in Nat /\ size \in Nat \ {0}
        /\ maxSize <= maxSize' /\ size <= maxSize'
    BY DEF IInv, TypeOK, KeepLinks, Grown
  <2>3. PICK e \in Victims(maxSize') :
          /\ listed' = (listed \ {e}) \cup {c}
          /\ claim' = [x \in Conns |-> IF x = c THEN "available"
                                       ELSE IF x = e THEN "evictor" ELSE claim[x]]
    BY DEF KeepLinks
  <2>4. c \notin listed
    BY DEF IInv, ListExact, KeepLinks
  <2>5. CASE Cardinality(listed) < maxSize'
    <3>1. Available' \subseteq listed \cup {c}
      BY <2>3
    <3>2. Cardinality(listed \cup {c}) = Cardinality(listed) + 1
      BY <2>1, <2>4, FS_AddElement
    <3>3. Cardinality(listed) \in Nat /\ IsFiniteSet(listed \cup {c})
      BY <2>1, FS_CardinalityType, FS_AddElement
    <3>4. Cardinality(listed \cup {c}) <= maxSize'
      BY <2>2, <2>5, <3>2, <3>3
    <3> QED BY <2>2, <3>1, <3>3, <3>4, PartFits DEF WithinSize
  <2>6. CASE ~(Cardinality(listed) < maxSize') /\ Available = {}
    <3>1. Available' \subseteq {c}
      BY <2>3, <2>6 DEF IInv, TypeOK
    <3>2. Cardinality({c}) = 1 /\ IsFiniteSet({c})
      BY FS_Singleton
    <3>3. 1 <= maxSize'
      BY <2>2
    <3> QED BY <2>2, <3>1, <3>2, <3>3, PartFits DEF WithinSize
  <2>7. CASE ~(Cardinality(listed) < maxSize') /\ Available # {}
    <3>1. e \in Available
      BY <2>3, <2>7 DEF Victims, LeastRecent
    <3>2. Available' \subseteq (Available \ {e}) \cup {c}
      BY <2>3 DEF IInv, TypeOK
    <3>3. /\ Cardinality(Available \ {e}) = Cardinality(Available) - 1
          /\ IsFiniteSet(Available \ {e})
      BY <2>1, <3>1, FS_RemoveElement
    <3>4. /\ Cardinality((Available \ {e}) \cup {c}) = Cardinality(Available \ {e}) + 1
          /\ IsFiniteSet((Available \ {e}) \cup {c})
      BY <2>4, <3>3, FS_AddElement
    <3>5. Cardinality(Available) \in Nat /\ Cardinality(Available) <= maxSize
      BY <2>1, FS_CardinalityType DEF IInv, WithinSize
    <3>6. Cardinality((Available \ {e}) \cup {c}) <= maxSize'
      BY <2>2, <3>3, <3>4, <3>5
    <3> QED BY <2>2, <3>2, <3>4, <3>6, PartFits DEF WithinSize
  <2> QED BY <2>5, <2>6, <2>7
<1>6. Drained'
  BY DEF IInv, KeepLinks, Drained
<1> QED BY <1>1, <1>2, <1>3, <1>4, <1>5, <1>6 DEF IInv

\* The evicted connection is closed, and a watcher is started.
LEMMA KeepEndsKeeps ==
  ASSUME IInv, KeepEnds
  PROVE  IInv'
<1>1. TypeOK'
  BY DEF IInv, KeepEnds, Ownership, TypeOK, LuaHolds
<1>2. Ownership'
  BY DEF IInv, KeepEnds, Ownership, TypeOK, Held, Holder, Watching, LuaHolds,
         OthersHold
<1>3. Remains'
  BY DEF IInv, KeepEnds, Ownership, Remains, LuaHolds, Released, Reported,
         ClosedOnce
<1>4. ListExact'
  BY DEF IInv, KeepEnds, Ownership, LuaHolds, OthersHold, ListExact
<1>5. WithinSize'
  BY DEF IInv, KeepEnds, WithinSize
<1>6. Drained'
  BY DEF IInv, KeepEnds, Drained
<1> QED BY <1>1, <1>2, <1>3, <1>4, <1>5, <1>6 DEF IInv

\* What the peer does is not yet seen.
LEMMA PeerSpeaksKeeps ==
  ASSUME NEW c \in Conns, IInv, PeerSpeaks(c)
  PROVE  IInv'
<1>1. TypeOK'
  BY DEF IInv, PeerSpeaks, TypeOK
<1>2. Ownership'
  BY DEF IInv, PeerSpeaks, Ownership, Held, Holder, LuaHolds, OthersHold
<1>3. Remains'
  BY DEF IInv, PeerSpeaks, Remains, Released, Reported, ClosedOnce
<1>4. ListExact'
  BY DEF IInv, PeerSpeaks, ListExact
<1>5. WithinSize'
  BY DEF IInv, PeerSpeaks, WithinSize
<1>6. Drained'
  BY DEF IInv, PeerSpeaks, Drained
<1> QED BY <1>1, <1>2, <1>3, <1>4, <1>5, <1>6 DEF IInv

\* The clock alone changes nothing else.
LEMMA IdleExpiresKeeps ==
  ASSUME NEW c \in Conns, IInv, IdleExpires(c)
  PROVE  IInv'
<1>1. TypeOK'
  BY DEF IInv, IdleExpires, TypeOK
<1>2. Ownership'
  BY DEF IInv, IdleExpires, Ownership, Held, Holder, LuaHolds, OthersHold
<1>3. Remains'
  BY DEF IInv, IdleExpires, Remains, Released, Reported, ClosedOnce
<1>4. ListExact'
  BY DEF IInv, IdleExpires, ListExact
<1>5. WithinSize'
  BY DEF IInv, IdleExpires, WithinSize
<1>6. Drained'
  BY DEF IInv, IdleExpires, Drained
<1> QED BY <1>1, <1>2, <1>3, <1>4, <1>5, <1>6 DEF IInv

\* A watcher that finds its entry claimed is gone.
LEMMA WatchLooksKeeps ==
  ASSUME NEW c \in Conns, IInv, WatchLooks(c)
  PROVE  IInv'
<1>1. TypeOK'
  BY DEF IInv, WatchLooks, TypeOK
<1>2. Ownership'
  BY DEF IInv, WatchLooks, Ownership, Held, Holder, Watching, LuaHolds,
         OthersHold
<1>3. Remains'
  BY DEF IInv, WatchLooks, Remains, Released, Reported, ClosedOnce
<1>4. ListExact'
  BY DEF IInv, WatchLooks, ListExact
<1>5. WithinSize'
  BY DEF IInv, WatchLooks, WithinSize
<1>6. Drained'
  BY DEF IInv, WatchLooks, Drained
<1> QED BY <1>1, <1>2, <1>3, <1>4, <1>5, <1>6 DEF IInv

\* The watcher sets its deadline.
LEMMA WatchArmsKeeps ==
  ASSUME NEW c \in Conns, IInv, WatchArms(c)
  PROVE  IInv'
<1>1. TypeOK'
  BY DEF IInv, WatchArms, TypeOK
<1>2. Ownership'
  BY DEF IInv, WatchArms, Ownership, Held, Holder, Watching, LuaHolds,
         OthersHold
<1>3. Remains'
  BY DEF IInv, WatchArms, Remains, Released, Reported, ClosedOnce
<1>4. ListExact'
  BY DEF IInv, WatchArms, ListExact
<1>5. WithinSize'
  BY DEF IInv, WatchArms, WithinSize
<1>6. Drained'
  BY DEF IInv, WatchArms, Drained
<1> QED BY <1>1, <1>2, <1>3, <1>4, <1>5, <1>6 DEF IInv

\* What Read saw is kept for whoever wins.
LEMMA ReadFailsKeeps ==
  ASSUME NEW c \in Conns, IInv, ReadFails(c)
  PROVE  IInv'
<1>1. TypeOK'
  BY DEF IInv, ReadFails, TypeOK
<1>2. Ownership'
  BY DEF IInv, ReadFails, Ownership, Held, Holder, Watching, LuaHolds,
         OthersHold
<1>3. Remains'
  BY DEF IInv, ReadFails, Remains, TypeOK, Released, Reported, ClosedOnce
<1>4. ListExact'
  BY DEF IInv, ReadFails, ListExact
<1>5. WithinSize'
  BY DEF IInv, ReadFails, WithinSize
<1>6. Drained'
  BY DEF IInv, ReadFails, Drained
<1> QED BY <1>1, <1>2, <1>3, <1>4, <1>5, <1>6 DEF IInv

\* A timeout is clean or an expiry, and both are kept.
LEMMA ReadTimesOutKeeps ==
  ASSUME NEW c \in Conns, IInv, ReadTimesOut(c)
  PROVE  IInv'
<1>1. TypeOK'
  BY DEF IInv, ReadTimesOut, TypeOK
<1>2. Ownership'
  BY DEF IInv, ReadTimesOut, Ownership, TypeOK, Held, Holder, Watching,
         LuaHolds, OthersHold
<1>3. Remains'
  BY DEF IInv, ReadTimesOut, Remains, TypeOK, Released, Reported, ClosedOnce
<1>4. ListExact'
  BY DEF IInv, ReadTimesOut, TypeOK, ListExact
<1>5. WithinSize'
  BY DEF IInv, ReadTimesOut, WithinSize
<1>6. Drained'
  BY DEF IInv, ReadTimesOut, Drained
<1> QED BY <1>1, <1>2, <1>3, <1>4, <1>5, <1>6 DEF IInv

\* The watcher wins its entry, or reports what it saw.
LEMMA WatchClaimsKeeps ==
  ASSUME NEW c \in Conns, IInv, WatchClaims(c)
  PROVE  IInv'
<1>1. TypeOK'
  BY DEF IInv, WatchClaims, TypeOK
<1>2. Ownership'
  BY DEF IInv, WatchClaims, Remains, Ownership, TypeOK, Held, Holder, LuaHolds,
         OthersHold, Released
<1>3. Remains'
  BY DEF IInv, WatchClaims, Remains, TypeOK, Released, Reported, ClosedOnce
<1>4. ListExact'
  BY DEF IInv, WatchClaims, TypeOK, ListExact
<1>5. WithinSize'
  <2>1. Available' \subseteq Available
    BY DEF IInv, TypeOK, WatchClaims
  <2> QED BY <2>1, ClaimFits DEF WatchClaims
<1>6. Drained'
  BY DEF IInv, WatchClaims, TypeOK, Drained
<1> QED BY <1>1, <1>2, <1>3, <1>4, <1>5, <1>6 DEF IInv

\* The watcher unlinks the entry that it has claimed.
LEMMA WatchUnlinksKeeps ==
  ASSUME NEW c \in Conns, IInv, WatchUnlinks(c)
  PROVE  IInv'
<1>1. TypeOK'
  BY DEF IInv, WatchUnlinks, TypeOK
<1>2. Ownership'
  BY DEF IInv, WatchUnlinks, Ownership, Held, Holder, LuaHolds, OthersHold
<1>3. Remains'
  BY DEF IInv, WatchUnlinks, Remains, Released, Reported, ClosedOnce
<1>4. ListExact'
  BY DEF IInv, WatchUnlinks, Ownership, TypeOK, OthersHold, ListExact
<1>5. WithinSize'
  <2>1. Available' \subseteq Available
    BY DEF IInv, TypeOK, WatchUnlinks
  <2> QED BY <2>1, ClaimFits DEF WatchUnlinks
<1>6. Drained'
  BY DEF IInv, WatchUnlinks, Drained
<1> QED BY <1>1, <1>2, <1>3, <1>4, <1>5, <1>6 DEF IInv

\* The watcher closes the connection that it has claimed.
LEMMA WatchClosesKeeps ==
  ASSUME NEW c \in Conns, IInv, WatchCloses(c)
  PROVE  IInv'
<1>1. TypeOK'
  BY DEF IInv, WatchCloses, TypeOK
<1>2. Ownership'
  BY DEF IInv, WatchCloses, Ownership, TypeOK, Held, Holder, LuaHolds,
         OthersHold
<1>3. Remains'
  BY DEF IInv, WatchCloses, Ownership, Remains, OthersHold, Released, Reported,
         ClosedOnce
<1>4. ListExact'
  BY DEF IInv, WatchCloses, Ownership, OthersHold, ListExact
<1>5. WithinSize'
  BY DEF IInv, WatchCloses, WithinSize
<1>6. Drained'
  BY DEF IInv, WatchCloses, Drained
<1> QED BY <1>1, <1>2, <1>3, <1>4, <1>5, <1>6 DEF IInv

\* A drain claims everything that can be claimed.
LEMMA DrainClaimsKeeps ==
  ASSUME NEW from \in {"up", "down"}, NEW to \in {"draining", "over"},
         (from = "up" /\ to = "draining") \/ (from = "down" /\ to = "over"),
         IInv, DrainClaims(from, to)
  PROVE  IInv'
<1>1. TypeOK'
  BY DEF IInv, DrainClaims, TypeOK
<1>2. Ownership'
  BY DEF IInv, DrainClaims, Ownership, TypeOK, Held, Holder, LuaHolds,
         OthersHold, ListExact, Drained
<1>3. Remains'
  BY DEF IInv, DrainClaims, Remains, Released, Reported, ClosedOnce
<1>4. ListExact'
  BY DEF IInv, DrainClaims, Ownership, OthersHold, ListExact
<1>5. WithinSize'
  <2>1. Available' \subseteq Available
    BY DEF IInv, TypeOK, DrainClaims
  <2> QED BY <2>1, ClaimFits DEF DrainClaims
<1>6. Drained'
  BY DEF IInv, DrainClaims, TypeOK, Drained
<1> QED BY <1>1, <1>2, <1>3, <1>4, <1>5, <1>6 DEF IInv

\* The drain closes what it has claimed.
LEMMA DrainClosesKeeps ==
  ASSUME NEW c \in Conns, IInv, DrainCloses(c)
  PROVE  IInv'
<1>1. TypeOK'
  BY DEF IInv, DrainCloses, TypeOK
<1>2. Ownership'
  BY DEF IInv, DrainCloses, Ownership, TypeOK, Held, Holder, LuaHolds,
         OthersHold
<1>3. Remains'
  BY DEF IInv, DrainCloses, Ownership, Remains, OthersHold, Released, Reported,
         ClosedOnce
<1>4. ListExact'
  BY DEF IInv, DrainCloses, Ownership, OthersHold, ListExact
<1>5. WithinSize'
  BY DEF IInv, DrainCloses, WithinSize
<1>6. Drained'
  BY DEF IInv, DrainCloses, Drained
<1> QED BY <1>1, <1>2, <1>3, <1>4, <1>5, <1>6 DEF IInv

\* The loop stops with nothing left to close.
LEMMA LoopStopsKeeps ==
  ASSUME IInv, LoopStops
  PROVE  IInv'
<1>1. TypeOK'
  BY DEF IInv, LoopStops, TypeOK
<1>2. Ownership'
  BY DEF IInv, LoopStops, Ownership, Held, Holder, LuaHolds, OthersHold
<1>3. Remains'
  BY DEF IInv, LoopStops, Remains, Released, Reported, ClosedOnce
<1>4. ListExact'
  BY DEF IInv, LoopStops, ListExact
<1>5. WithinSize'
  BY DEF IInv, LoopStops, WithinSize
<1>6. Drained'
  BY DEF IInv, LoopStops, Drained
<1> QED BY <1>1, <1>2, <1>3, <1>4, <1>5, <1>6 DEF IInv

\* Start opens the pools again.
LEMMA StartKeeps ==
  ASSUME IInv, Start
  PROVE  IInv'
<1>1. TypeOK'
  BY DEF IInv, Start, TypeOK
<1>2. Ownership'
  BY DEF IInv, Start, Ownership, Held, Holder, LuaHolds, OthersHold
<1>3. Remains'
  BY DEF IInv, Start, Remains, Released, Reported, ClosedOnce
<1>4. ListExact'
  BY DEF IInv, Start, ListExact
<1>5. WithinSize'
  BY DEF IInv, Start, WithinSize
<1>6. Drained'
  BY DEF IInv, Start, Drained
<1> QED BY <1>1, <1>2, <1>3, <1>4, <1>5, <1>6 DEF IInv

\* A step that changes nothing.
LEMMA StutterKeeps ==
  ASSUME IInv, UNCHANGED vars
  PROVE  IInv'
BY DEF IInv, vars, TypeOK, Ownership, Held, Holder, LuaHolds, OthersHold,
       Remains, Released, Reported, ClosedOnce, ListExact, WithinSize, Drained

LEMMA InitHolds == Init => IInv
<1> SUFFICES ASSUME Init PROVE IInv
  OBVIOUS
<1>1. TypeOK
  BY DEF Init, TypeOK
<1>2. Ownership /\ Remains /\ ListExact
  BY DEF Init, Ownership, Held, Holder, LuaHolds, OthersHold, Remains, Released,
         Reported, ClosedOnce, ListExact
<1>3. WithinSize
  BY FS_EmptySet DEF Init, WithinSize
<1>4. Drained
  BY DEF Init, Drained
<1> QED BY <1>1, <1>2, <1>3, <1>4 DEF IInv

\* Every step preserves the invariant.
LEMMA NextKeeps ==
  ASSUME IInv, [Next]_vars
  PROVE  IInv'
<1>1. CASE LuaGoesOn
  BY <1>1, TakeMissesKeeps, TakeWakesKeeps, TakeEndsKeeps, KeepEndsKeeps,
     TakeClaimsKeeps DEF LuaGoesOn
<1>2. ASSUME NEW c \in Conns, LuaStep(c) PROVE IInv'
  BY <1>2, DialedKeeps, SocketClosesKeeps, TakeClaimsKeeps, KeepRejectedKeeps,
     KeepLinksKeeps DEF LuaStep
<1>3. ASSUME NEW c \in Conns, WatcherStep(c) PROVE IInv'
  BY <1>3, WatchLooksKeeps, WatchArmsKeeps, ReadFailsKeeps, ReadTimesOutKeeps,
     WatchClaimsKeeps, WatchUnlinksKeeps, WatchClosesKeeps DEF WatcherStep
<1>4. ASSUME NEW c \in Conns, DrainCloses(c) \/ PeerSpeaks(c) \/ IdleExpires(c)
      PROVE  IInv'
  BY <1>4, DrainClosesKeeps, PeerSpeaksKeeps, IdleExpiresKeeps
<1>5. CASE Stop \/ Close
  BY <1>5, DrainClaimsKeeps DEF Stop, Close
<1>6. CASE LoopStops \/ Start
  BY <1>6, LoopStopsKeeps, StartKeeps
<1>7. CASE UNCHANGED vars
  BY <1>7, StutterKeeps
<1> QED BY <1>1, <1>2, <1>3, <1>4, <1>5, <1>6, <1>7 DEF Next

-----------------------------------------------------------------------------
(* Theorems.                                                               *)

\* The invariant holds in every reachable state.
THEOREM Invariance == Spec => []IInv
<1>1. Init => IInv
  BY InitHolds
<1>2. IInv /\ [Next]_vars => IInv'
  BY NextKeeps
<1> QED BY <1>1, <1>2, PTL DEF Spec

\* Every variable keeps its type, whatever the parties do.
THEOREM TypeCorrect == Spec => []TypeOK
<1>1. IInv => TypeOK
  BY DEF IInv
<1> QED BY <1>1, Invariance, PTL

\* What a socket got from tryTakeFromPool is its own and fit for use.
THEOREM HandsOverExactly == Spec => []HandedOver
<1>1. IInv => HandedOver
  BY DEF IInv, HandedOver, Ownership, OthersHold, Remains, Released, ClosedOnce,
         ListExact
<1> QED BY <1>1, Invariance, PTL

\* Watcher, taker, evictor and drain never close a connection twice.
THEOREM ClosesOnce == Spec => []ClosedOnce
<1>1. IInv => ClosedOnce
  BY DEF IInv, Remains
<1> QED BY <1>1, Invariance, PTL

\* The list is exact, so that removeFromList never touches a stale element.
THEOREM ListsExactly == Spec => []ListExact
<1>1. IInv => ListExact
  BY DEF IInv
<1> QED BY <1>1, Invariance, PTL

\* A pool never holds more claimable connections than its size.
THEOREM StaysWithinSize == Spec => []WithinSize
<1>1. IInv => WithinSize
  BY DEF IInv
<1> QED BY <1>1, Invariance, PTL

\* drainTCPPools leaves no idle connection, and nothing for Close to do.
THEOREM DrainsCompletely == Spec => []NothingLeft
<1>1. IInv => NothingLeft
  <2> SUFFICES ASSUME IInv PROVE NothingLeft
    OBVIOUS
  <2>1. DrainedEmpty
    BY DEF IInv, Drained, DrainedEmpty
  <2>2. ASSUME phase \in {"down", "over"}, NEW c \in listed
        PROVE  watcher[c] = "unlink"
    BY <2>2 DEF IInv, TypeOK, Drained, ListExact
  <2> QED BY <2>1, <2>2 DEF IInv, Drained, NothingLeft
<1> QED BY <1>1, Invariance, PTL

\* A connection has one keeper at a time, and is closed once.
THEOREM KeptAlways == Spec => []KeptAlone
<1>1. HandedOver /\ ClosedOnce => KeptAlone
  BY DEF KeptAlone
<1> QED BY <1>1, HandsOverExactly, ClosesOnce, PTL

\* List, size and what is left after Stop are exact.
THEOREM PoolStaysExact == Spec => []PoolExact
<1>1. ListExact /\ WithinSize /\ NothingLeft => PoolExact
  BY DEF PoolExact
<1> QED BY <1>1, ListsExactly, StaysWithinSize, DrainsCompletely, PTL

(***************************************************************************)
(* The refinement: every step that respects the invariant is a step of     *)
(* ConnService, or none that it can see.                                   *)
(***************************************************************************)

-----------------------------------------------------------------------------
(* What ConnService sees of the pool.                                      *)

Lives == [c \in Conns |-> Life(c)]

\* ConnService brings its own copy of a standard operator.
LEMMA SameCardinality == \A S : Promise!Cardinality(S) = Cardinality(S)
  BY DEF Promise!Cardinality, Cardinality

\* A connection's life says where it is and whether it can be claimed.
LEMMA LifeOf ==
  ASSUME TypeOK, NEW c \in Conns
  PROVE  /\ Life(c) = "new" <=> where[c] = "none"
         /\ Life(c) = "used" <=> where[c] = "socket"
         /\ Life(c) = "closed" <=> where[c] = "gone"
         /\ Life(c) = "idle" <=> where[c] = "pool" /\ claim[c] = "available"
         /\ Life(c) = "leaving" <=> where[c] = "pool" /\ claim[c] # "available"
  BY DEF Life, TypeOK

\* The idle connections of ConnService are those one can claim.
LEMMA IdleIsAvailable ==
  ASSUME TypeOK, ListExact
  PROVE  Promise!IdleIn(Lives) = Available
<1>1. \A c \in Conns : Lives[c] = "idle" <=> where[c] = "pool" /\ claim[c] = "available"
  BY LifeOf DEF Lives
<1>2. \A c \in Conns : c \in Available <=> where[c] = "pool" /\ claim[c] = "available"
  BY DEF ListExact, TypeOK
<1> QED BY <1>1, <1>2 DEF Promise!IdleIn, TypeOK

\* A step that moves no connection and claims none is invisible.
LEMMA NothingSeen ==
  ASSUME UNCHANGED <<where, claim, maxSize, unfit>>
  PROVE  UNCHANGED Promise!vars
<1>1. \A c \in Conns : Life(c)' = Life(c)
  BY DEF Life
<1> QED BY <1>1 DEF Promise!vars

\* A step that touches one connection moves it in ConnService.
LEMMA OneMoves ==
  ASSUME NEW c \in Conns, UNCHANGED <<maxSize, unfit>>,
         \A d \in Conns \ {c} : where'[d] = where[d] /\ claim'[d] = claim[d],
         NEW from, NEW to, Life(c) = from, Life(c)' = to
  PROVE  Promise!Move(c, from, to)
<1>1. \A d \in Conns \ {c} : Life(d)' = Life(d)
  BY DEF Life
<1>2. Lives' = [Lives EXCEPT ![c] = to]
  BY <1>1 DEF Lives
<1> QED BY <1>2 DEF Promise!Move, Lives

-----------------------------------------------------------------------------
(* One lemma for each action that ConnService sees.                        *)

\* A dial opens a connection.
LEMMA DialedMaps ==
  ASSUME IInv, NEW c \in Conns, Dialed(c)
  PROVE  Promise!Open(c)
<1>1. Life(c) = "new" /\ Life(c)' = "used"
  BY DEF IInv, TypeOK, Life, Dialed
<1> QED BY <1>1, OneMoves DEF Promise!Open, Dialed, IInv, TypeOK

\* A socket closes its own connection.
LEMMA SocketMaps ==
  ASSUME IInv, NEW c \in Conns, SocketCloses(c) \/ KeepRejected(c)
  PROVE  Promise!Hang(c)
<1>1. Life(c) = "used" /\ Life(c)' = "closed"
  BY DEF IInv, TypeOK, Life, SocketCloses, KeepRejected
<1> QED BY <1>1, OneMoves DEF Promise!Hang, SocketCloses, KeepRejected, IInv, TypeOK

\* A claim by connect takes the connection out of rest.
LEMMA TakeClaimsMaps ==
  ASSUME IInv, NEW c \in Conns, TakeClaims(c)
  PROVE  Promise!Leave(c)
<1>1. Life(c) = "idle" /\ Life(c)' = "leaving"
  BY DEF IInv, TypeOK, ListExact, Life, TakeClaims, MostRecent
<1> QED BY <1>1, OneMoves DEF Promise!Leave, TakeClaims, IInv, TypeOK

\* connect hands the connection out or discards it, by what the watcher saw.
LEMMA TakeEndsMaps ==
  ASSUME IInv, TakeEnds
  PROVE  \E c \in Conns : Promise!Reuse(c) \/ Promise!Discard(c)
<1>1. PICK c \in Conns : c = lua.conn /\ Life(c) = "leaving"
  BY DEF IInv, TypeOK, Ownership, LuaHolds, Life, TakeEnds
<1>2. CASE c \in broken
  <2>1. Life(c)' = "closed"
    BY <1>1, <1>2 DEF IInv, TypeOK, Life, TakeEnds
  <2> QED BY <1>1, <1>2, <2>1, OneMoves DEF Promise!Discard, TakeEnds, IInv, TypeOK
<1>3. CASE c \notin broken
  <2>1. Life(c)' = "used"
    BY <1>1, <1>3 DEF IInv, TypeOK, Life, TakeEnds
  <2>2. c \notin unfit
    BY <1>1, <1>3 DEF TypeOK, IInv, Remains, Reported, Ownership, LuaHolds, TakeEnds
  <2> QED BY <1>1, <1>3, <2>1, <2>2, OneMoves DEF Promise!Reuse, TakeEnds, IInv, TypeOK
<1> QED BY <1>2, <1>3

\* setkeepalive puts a connection to rest and evicts one at most.
LEMMA KeepLinksMaps ==
  ASSUME IInv, IInv', NEW c \in Conns, NEW size \in PoolSizes, NEW d, KeepLinks(c, size, d)
  PROVE  \E out \in SUBSET Conns : Promise!Park(c, out)
<1>0. where[c] = "socket" /\ where' = [where EXCEPT ![c] = "pool"]
  BY DEF KeepLinks
<1>1. PICK e \in Victims(maxSize') :
        claim' = [x \in Conns |-> IF x = c THEN "available"
                                  ELSE IF x = e THEN "evictor" ELSE claim[x]]
  BY DEF KeepLinks
<1>2. e = NoConn \/ e \in Available
  BY DEF Victims, LeastRecent
<1> DEFINE out == {e} \cap Conns
<1>3. out \subseteq Promise!IdleIn(Lives)
  <2>1. Promise!IdleIn(Lives) = Available
    BY IdleIsAvailable DEF IInv
  <2>2. out \subseteq Available
    BY <1>2, ConnsAssumption
  <2> QED BY <2>1, <2>2
<1>4. Cardinality(out) <= 1
  <2>1. out = {} \/ out = {e}
    OBVIOUS
  <2>2. Cardinality({}) = 0 /\ Cardinality({e}) = 1
    BY FS_EmptySet, FS_Singleton
  <2> HIDE DEF out
  <2> QED BY <2>1, <2>2
<1>5. Life(c) = "used" /\ Life(c)' = "idle"
  BY <1>0, <1>1 DEF IInv, TypeOK, Life
<1>6. ASSUME NEW x \in Conns \ {c}
      PROVE  Life(x)' = IF x \in out THEN "leaving" ELSE Life(x)
  <2>1. CASE x \in out
    BY <1>0, <1>1, <1>2, <2>1, ConnsAssumption DEF IInv, TypeOK, ListExact, Life
  <2>2. CASE x \notin out
    BY <1>0, <1>1, <2>2 DEF IInv, TypeOK, Life
  <2> QED BY <2>1, <2>2
<1>7. Lives' = [x \in Conns |-> IF x = c THEN "idle"
                                ELSE IF x \in out THEN "leaving" ELSE Lives[x]]
  BY <1>5, <1>6 DEF Lives
<1>8. maxSize' >= maxSize /\ UNCHANGED unfit
  <2>1. maxSize' = Grown(size) /\ UNCHANGED unfit
    BY DEF KeepLinks
  <2> QED BY <2>1, SizesAssumption DEF IInv, TypeOK, Grown
<1>9. Cardinality(Promise!IdleIn(Lives)') <= maxSize'
  <2>1. (IInv => Promise!IdleIn(Lives) = Available)'
    BY IdleIsAvailable, PTL DEF IInv
  <2>2. Promise!IdleIn(Lives)' = Available'
    BY <2>1
  <2>3. Cardinality(Available') <= maxSize'
    BY DEF IInv, WithinSize
  <2> QED BY <2>2, <2>3
<1> QED BY <1>3, <1>4, <1>5, <1>7, <1>8, <1>9, SameCardinality
        DEF Promise!Park, Lives

\* setkeepalive closes what it has evicted.
LEMMA KeepEndsMaps ==
  ASSUME IInv, KeepEnds
  PROVE  UNCHANGED Promise!vars \/ \E c \in Conns : Promise!Discard(c)
<1>1. CASE lua.evicted \notin Conns
  BY <1>1, NothingSeen DEF IInv, TypeOK, KeepEnds
<1>2. CASE lua.evicted \in Conns
  <2>1. PICK e \in Conns : e = lua.evicted
    BY <1>2
  <2>2. Life(e) = "leaving" /\ Life(e)' = "closed"
    BY <2>1 DEF IInv, TypeOK, Ownership, LuaHolds, Life, KeepEnds
  <2> QED BY <2>1, <2>2, OneMoves DEF Promise!Discard, KeepEnds, IInv, TypeOK
<1> QED BY <1>1, <1>2

\* A watcher learns that its connection is of no use, if it still has one.
LEMMA ReadMaps ==
  ASSUME IInv, NEW c \in Conns, ReadFails(c) \/ ReadTimesOut(c)
  PROVE  UNCHANGED Promise!vars \/ Promise!Spoil(c)
<1>1. Life(c) \in {"idle", "leaving", "closed"}
  BY DEF IInv, TypeOK, Remains, Released, Life, ReadFails, ReadTimesOut
<1>2. UNCHANGED <<where, claim, maxSize>> /\ unfit' \in {unfit, unfit \cup {c}}
  BY DEF ReadFails, ReadTimesOut
<1>3. \A d \in Conns : Life(d)' = Life(d)
  BY <1>2 DEF Life
<1> QED BY <1>1, <1>2, <1>3, NothingSeen DEF Promise!Spoil

\* A watcher that claims its own entry takes it out of rest.
LEMMA WatchClaimsMaps ==
  ASSUME IInv, NEW c \in Conns, WatchClaims(c)
  PROVE  UNCHANGED Promise!vars \/ Promise!Leave(c)
<1>1. CASE claim[c] = "available"
  <2>1. Life(c) = "idle" /\ Life(c)' = "leaving"
    BY <1>1 DEF IInv, TypeOK, Remains, Released, Life, WatchClaims
  <2> QED BY <1>1, <2>1, OneMoves DEF Promise!Leave, WatchClaims, IInv, TypeOK
<1>2. CASE claim[c] # "available"
  BY <1>2, NothingSeen DEF WatchClaims
<1> QED BY <1>1, <1>2

\* Watcher and drain close what they have claimed.
LEMMA ClosesMap ==
  ASSUME IInv, NEW c \in Conns, WatchCloses(c) \/ DrainCloses(c)
  PROVE  Promise!Discard(c)
<1>1. Life(c) = "leaving" /\ Life(c)' = "closed"
  BY DEF IInv, TypeOK, Ownership, OthersHold, Life, WatchCloses, DrainCloses
<1> QED BY <1>1, OneMoves DEF Promise!Discard, WatchCloses, DrainCloses, IInv, TypeOK

\* Stop and Close take everything out of rest.
LEMMA DrainClaimsMaps ==
  ASSUME IInv, NEW from, NEW to, DrainClaims(from, to)
  PROVE  Promise!Drain
<1>1. \A c \in Conns : Life(c)' = IF Life(c) = "idle" THEN "leaving" ELSE Life(c)
  BY DEF IInv, TypeOK, ListExact, Life, DrainClaims
<1> QED BY <1>1 DEF Promise!Drain, DrainClaims

-----------------------------------------------------------------------------
(* The whole.                                                              *)

\* The pool starts as ConnService starts.
LEMMA InitMaps == Init => Promise!Init
  BY DEF Init, Promise!Init, Life

\* Every step is a step of ConnService or changes nothing there.
LEMMA NextMaps ==
  ASSUME IInv, IInv', [Next]_vars
  PROVE  [Promise!Next]_(Promise!vars)
<1>1. CASE LuaGoesOn
  <2>1. CASE TakeMisses \/ TakeWakes
    BY <2>1, NothingSeen DEF TakeMisses, TakeWakes
  <2> QED BY <1>1, <2>1, TakeEndsMaps, KeepEndsMaps, TakeClaimsMaps
          DEF LuaGoesOn, Promise!Next
<1>2. ASSUME NEW c \in Conns, LuaStep(c) PROVE Promise!Next
  BY <1>2, DialedMaps, SocketMaps, TakeClaimsMaps, KeepLinksMaps
     DEF LuaStep, Promise!Next
<1>3. ASSUME NEW c \in Conns, WatcherStep(c) PROVE [Promise!Next]_(Promise!vars)
  <2>1. CASE WatchLooks(c) \/ WatchArms(c) \/ WatchUnlinks(c)
    BY <2>1, NothingSeen DEF WatchLooks, WatchArms, WatchUnlinks
  <2> QED BY <1>3, <2>1, ReadMaps, WatchClaimsMaps, ClosesMap
          DEF WatcherStep, Promise!Next
<1>4. ASSUME NEW c \in Conns, DrainCloses(c) \/ PeerSpeaks(c) \/ IdleExpires(c)
      PROVE  [Promise!Next]_(Promise!vars)
  <2>1. CASE PeerSpeaks(c) \/ IdleExpires(c)
    BY <2>1, NothingSeen DEF PeerSpeaks, IdleExpires
  <2> QED BY <1>4, <2>1, ClosesMap DEF Promise!Next
<1>5. CASE Stop \/ Close
  BY <1>5, DrainClaimsMaps DEF Stop, Close, Promise!Next
<1>6. CASE LoopStops \/ Start \/ UNCHANGED vars
  BY <1>6, NothingSeen DEF LoopStops, Start, vars
<1> QED BY <1>1, <1>2, <1>3, <1>4, <1>5, <1>6 DEF Next

\* The pool keeps the promise of ConnService: a connection reaches a socket
\* only from rest and never when it is known to be unfit, it is closed for
\* good, and no more connections rest than the size asked for.
THEOREM PromiseKept == Spec => KeepsPromise
<1>1. Init => Promise!Init
  BY InitMaps
<1>2. IInv /\ IInv' /\ [Next]_vars => [Promise!Next]_(Promise!vars)
  BY NextMaps
<1> QED BY <1>1, <1>2, Invariance, PTL DEF Spec, KeepsPromise, Promise!Spec
=============================================================================
