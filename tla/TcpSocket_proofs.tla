-------------------------- MODULE TcpSocket_proofs --------------------------
(***************************************************************************)
(* Proofs about TcpSocket, for any sets of sockets and connections, and    *)
(* streams, sizes and modes of any kind: its safety properties, and that   *)
(* it implements ByteStream.  The inductive invariant says what the flags  *)
(* of a socket, its generation, its buffer and the operation under way     *)
(* have to do with each other, also after the finalizer came.              *)
(***************************************************************************)
EXTENDS TcpSocket, TLAPS, WellFoundedInduction

-----------------------------------------------------------------------------
(* The inductive invariant.                                                *)

HasConn(s) == conn[s] # NoConn
Dials(s)   == op[s].at \in {"dial", "dialed"}
Reads(s)   == op[s].at \in {"read", "got"}

\* The flags of a socket say what is under way, unless it was finalized; and a
\* socket without a connection keeps nothing.
FlagsFit(s) ==
  /\ connecting[s] <=> Dials(s) /\ ~closed[s]
  /\ reading[s] <=> Reads(s) /\ ~closed[s]
  /\ connected[s] <=> HasConn(s)
  /\ closed[s] => ~HasConn(s)
  /\ ~HasConn(s) => ~Unread(s)

\* Nothing was read from the connection, and it was never parked.
Unused(c) == readPos[c] = 0 /\ taken[c] = 0 /\ takes[c] = 0

\* A connect is for its socket as it is, unless the finalizer came first.
DialFits(s) ==
  /\ Dials(s) => ~HasConn(s) /\ (~closed[s] => op[s].gen = gen[s])
  /\ op[s].at = "dialed" /\ op[s].conn # NoConn => Unused(op[s].conn)

\* Other receives write only behind the line.
Spoilt(o) == o.foreign \subseteq o.hi + 1 .. o.rest.hi /\ o.strays \subseteq o.foreign

\* A receive reads from the connection of its socket, or from one that the
\* finalizer has closed; what it has read and what Lua code has not received is
\* the same.
ReadFits(s) ==
  LET o == op[s] IN
  Reads(s) =>
    /\ ~Unread(s)
    /\ life[o.conn] # "fresh"
    /\ closed[s] => life[o.conn] = "closed"
    /\ ~closed[s] => conn[s] = o.conn /\ o.gen = gen[s]
    /\ o.lo = taken[o.conn] /\ o.lo <= o.hi
    /\ o.at = "read" => o.hi = readPos[o.conn]
    /\ o.at = "got" =>
         \/ o.rest = NoBytes /\ o.hi = readPos[o.conn]
         \/ /\ o.ok /\ o.mode = "line"
            /\ o.hi < readPos[o.conn] /\ o.rest = Interval(o.hi, readPos[o.conn])
    /\ o.at = "got" => Spoilt(o)

\* When no receive is under way, the buffer of the socket has what was read.
BufFits(s) ==
  HasConn(s) =>
    /\ reusedTimes[s] = takes[conn[s]]
    /\ ~Reads(s) => \/ ~Unread(s) /\ taken[conn[s]] = readPos[conn[s]]
                    \/ Unread(s) /\ readBuf[s] = Interval(taken[conn[s]], readPos[conn[s]])

\* The bytes lo+1..hi are less, or just, what was asked for.
Lacks(r, c) ==
  /\ r.mode = "line" => LineFeeds(c, r.lo, r.hi) = {}
  /\ r.mode = "size" => r.hi - r.lo < r.size
  /\ r.mode = "any" => r.hi = r.lo

Fills(r, c) ==
  /\ r.mode = "line" => r.lo < r.hi /\ r.hi \in Feeds(c) /\ LineFeeds(c, r.lo, r.hi - 1) = {}
  /\ r.mode = "size" => r.hi - r.lo = r.size
  /\ r.mode = "any" => r.hi - r.lo \in 1..r.size
  /\ r.mode = "all" => peer[c] # "up" /\ r.hi = arrived[c]

AnswerFits(s) ==
  LET o == op[s] IN
  /\ o.at = "read" => Lacks(o, o.conn)
  /\ o.at = "got" => IF o.ok THEN Fills(o, o.conn) ELSE Lacks(o, o.conn)

Fits(s) == FlagsFit(s) /\ DialFits(s) /\ ReadFits(s) /\ BufFits(s) /\ AnswerFits(s)

\* A connection that is new was never used; one in the pool was read to the end.
ConnFits(c) ==
  /\ readPos[c] <= arrived[c]
  /\ foreign[c] \subseteq 1..readPos[c]
  /\ life[c] = "fresh" => arrived[c] = 0 /\ Unused(c) /\ reused[c] = 0
  /\ c \in pool => taken[c] = readPos[c] /\ reused[c] = takes[c]

\* OwnedOnce, owner by owner.
Holds(s, c) == conn[s] = c \/ Carries(s, c)

Owned ==
  /\ \A s \in Socks, c \in Conns : Holds(s, c) => life[c] = "open" /\ c \notin pool
  /\ \A c \in pool : life[c] = "open"
  /\ \A c \in Conns : life[c] = "open" /\ c \notin pool => \E s \in Socks : Holds(s, c)
  /\ \A s, t \in Socks, c \in Conns : Holds(s, c) /\ Holds(t, c) => s = t

Draws(s, c) == Reads(s) /\ op[s].conn = c

\* No two receives read from the same connection.
ReadersApart == \A s, t \in Socks, c \in Conns : Draws(s, c) /\ Draws(t, c) => s = t

IInv ==
  /\ TypeOK
  /\ \A s \in Socks : Fits(s)
  /\ \A c \in Conns : ConnFits(c)
  /\ Owned
  /\ ReadersApart

-----------------------------------------------------------------------------
(* Facts about the parts.                                                  *)

USE SocketsAssumption, BytesAssumption, ModesAssumption
USE DEF HasConn, Dials, Reads, Unread, Interval, NoBytes, NoOp, Post, Busy, CloseConn,
        poolVars, connVars, flags, bond, sockVars, bytes, history

Ops == {NoOp} \cup Dialing \cup Dialled \cup Reading \cup GotBytes

\* The shape of an operation follows from where it is.
LEMMA OpShapes ==
  ASSUME TypeOK, NEW s \in Socks
  PROVE  /\ op[s].at \in {"none", "dial", "dialed", "read", "got"}
         /\ op[s].at = "none" => op[s] = NoOp
         /\ op[s].at = "dial" => op[s] \in Dialing /\ op[s].gen \in Nat
         /\ op[s].at = "dialed" => op[s].gen \in Nat /\ op[s].conn \in Conns \cup {NoConn}
         /\ op[s].at = "read" => op[s] \in Reading
         /\ op[s].at = "got" => op[s] \in GotBytes
         /\ Reads(s) => /\ op[s].conn \in Conns /\ op[s].gen \in Nat /\ op[s].mode \in Modes
                        /\ op[s].size \in Sizes \cup {0}
                        /\ op[s].lo \in Positions /\ op[s].hi \in Positions
BY DEF TypeOK, Dialing, Dialled, Reading, GotBytes

\* A set of numbers has a least one, so that there is a first line feed.
LEMMA LeastNumber ==
  ASSUME NEW T, T \subseteq Nat, T # {}
  PROVE  \E x \in T : \A y \in T : x <= y
<1> DEFINE R == OpToRel(<, Nat)
<1>1. IsWellFoundedOn(R, Nat)
  BY NatLessThanWellFounded
<1>2. PICK x \in T : \A y \in T : ~ (<<y, x>> \in R)
  BY <1>1, WFMin
<1>3. \A y \in T : y < x => <<y, x>> \in R
  <2> SUFFICES ASSUME NEW y \in T, y < x PROVE <<y, x>> \in R
    OBVIOUS
  <2>1. <<y, x>> \in Nat \X Nat /\ <<y, x>>[1] < <<y, x>>[2]
    OBVIOUS
  <2> QED BY <2>1 DEF OpToRel
<1> HIDE DEF R
<1>4. \A y \in T : ~(y < x)
  BY <1>2, <1>3
<1> QED BY <1>4

LEMMA FirstLFIs ==
  ASSUME NEW c, NEW lo \in Nat, NEW hi \in Nat, LineFeeds(c, lo, hi) # {}
  PROVE  LET n == FirstLF(c, lo, hi) IN
         n \in Feeds(c) /\ n \in lo + 1 .. hi /\ LineFeeds(c, lo, n - 1) = {}
<1> DEFINE T == LineFeeds(c, lo, hi)
<1>1. T \subseteq Nat /\ T # {}
  BY DEF LineFeeds
<1>2. \E x \in T : \A y \in T : x <= y
  <2> HIDE DEF T
  <2> QED BY <1>1, LeastNumber
<1>3. FirstLF(c, lo, hi) \in T /\ \A m \in T : FirstLF(c, lo, hi) <= m
  BY <1>2 DEF FirstLF
<1> QED BY <1>3 DEF LineFeeds

\* Owners are sets of one or none.
LEMMA OwnedIs == Owned => OwnedOnce
<1> SUFFICES ASSUME Owned, NEW c \in Conns
             PROVE  /\ life[c] # "open" => c \notin pool /\ Owners(c) = {}
                    /\ life[c] = "open" /\ c \in pool => Owners(c) = {}
                    /\ life[c] = "open" /\ c \notin pool => \E s \in Socks : Owners(c) = {s}
  BY DEF OwnedOnce
<1>1. Owners(c) = {s \in Socks : Holds(s, c)}
  BY DEF Owners, Holds
<1>2. life[c] # "open" \/ c \in pool => Owners(c) = {}
  BY <1>1 DEF Owned
<1>3. ASSUME life[c] = "open", c \notin pool PROVE \E s \in Socks : Owners(c) = {s}
  <2>1. PICK s \in Socks : Holds(s, c)
    BY <1>3 DEF Owned
  <2>2. Owners(c) = {s}
    BY <1>1, <2>1 DEF Owned
  <2> QED BY <2>2
<1> QED BY <1>2, <1>3 DEF Owned

-----------------------------------------------------------------------------
(* Steps of one socket leave the others alone.                             *)

SameSock(t) ==
  /\ conn'[t] = conn[t] /\ connected'[t] = connected[t] /\ closed'[t] = closed[t]
  /\ gen'[t] = gen[t] /\ connecting'[t] = connecting[t] /\ reading'[t] = reading[t]
  /\ readBuf'[t] = readBuf[t] /\ reusedTimes'[t] = reusedTimes[t] /\ op'[t] = op[t]

Others(s) == \A t \in Socks \ {s} : SameSock(t)

\* What the invariant looks at, of a connection that is in use.
SameConn(c) ==
  /\ life'[c] = life[c] /\ readPos'[c] = readPos[c] /\ taken'[c] = taken[c]
  /\ takes'[c] = takes[c] /\ foreign'[c] = foreign[c] /\ strays'[c] = strays[c]
  /\ peer[c] # "up" => peer'[c] # "up" /\ arrived'[c] = arrived[c]

\* A socket fits as before when it and its connections stay.
LEMMA StaysFit ==
  ASSUME TypeOK, lineEnds' = lineEnds, NEW t \in Socks, Fits(t), SameSock(t),
         \A c \in Conns : Holds(t, c) \/ Draws(t, c) => SameConn(c)
  PROVE  Fits(t)'
<1>1. FlagsFit(t)'
  BY DEF Fits, FlagsFit, SameSock
<1>2. DialFits(t)'
  BY OpShapes DEF Fits, DialFits, SameSock, SameConn, Holds, Carries, Unused
<1>3. Reads(t) => SameConn(op[t].conn) /\ op[t].conn \in Conns
  BY OpShapes DEF Draws
<1>4. ReadFits(t)'
  BY <1>3 DEF Fits, ReadFits, SameSock, SameConn, Spoilt
<1>5. BufFits(t)'
  <2>1. HasConn(t) => SameConn(conn[t])
    BY DEF TypeOK, Holds
  <2> QED BY <2>1 DEF Fits, BufFits, SameSock, SameConn
<1>6. AnswerFits(t)'
  BY <1>3 DEF Fits, AnswerFits, SameSock, SameConn, Lacks, Fills, LineFeeds, Feeds
<1> QED BY <1>1, <1>2, <1>4, <1>5, <1>6 DEF Fits

\* A connection that is new or parked is not in use.
LEMMA NotInUse ==
  ASSUME IInv, NEW t \in Socks, NEW c \in Conns, Holds(t, c) \/ Draws(t, c)
  PROVE  /\ life[c] # "fresh" /\ c \notin pool
         /\ life[c] = "open" => Holds(t, c)
<1>1. Fits(t) /\ Owned
  BY DEF IInv
<1> QED BY <1>1 DEF Fits, ReadFits, Draws, Owned, Holds

\* The connections of s are not used by others.
LEMMA OthersFit ==
  ASSUME IInv, lineEnds' = lineEnds, NEW s \in Socks, Others(s),
         \A c \in Conns : \/ SameConn(c) \/ life[c] = "fresh" \/ c \in pool
                          \/ Holds(s, c) \/ Draws(s, c),
         NEW t \in Socks \ {s}
  PROVE  Fits(t)'
<1>1. Fits(t) /\ TypeOK /\ SameSock(t)
  BY DEF IInv, Others
<1>2. ASSUME NEW c \in Conns, Holds(t, c) \/ Draws(t, c) PROVE SameConn(c)
  <2>1. life[c] # "fresh" /\ c \notin pool
    BY <1>2, NotInUse
  <2>2. CASE life[c] = "open"
    <3>1. Holds(t, c) /\ ~Holds(s, c)
      BY <1>2, <2>2, NotInUse DEF IInv, Owned
    <3>2. ~Draws(s, c)
      BY <2>2, <3>1, NotInUse
    <3> QED BY <2>1, <3>1, <3>2
  <2>3. CASE life[c] # "open"
    <3>1. ~Holds(s, c) /\ ~Holds(t, c)
      BY <2>3 DEF IInv, Owned
    <3>2. ~Draws(s, c)
      BY <1>2, <3>1 DEF IInv, ReadersApart
    <3> QED BY <2>1, <3>1, <3>2
  <2> QED BY <2>2, <2>3
<1> QED BY <1>1, <1>2, StaysFit

\* What s does with a connection: nothing, or it takes, parks or closes one that
\* is its own or nobody's.
InPool(c)    == life[c] = "open" /\ c \in pool
Free(s, c)   == Holds(s, c) \/ life[c] # "open" \/ c \in pool
Keeps(s, c)  == /\ (life[c] = "open")' <=> life[c] = "open"
                /\ (c \in pool)' <=> c \in pool
                /\ Holds(s, c)' <=> Holds(s, c)
Gets(s, c)   == Free(s, c) /\ Holds(s, c)' /\ (life[c] = "open" /\ c \notin pool)'
Parks(s, c)  == Free(s, c) /\ ~Holds(s, c)' /\ InPool(c)'
Shuts(s, c)  == Free(s, c) /\ ~Holds(s, c)' /\ (life[c] # "open" /\ c \notin pool)'

LEMMA StaysOwned ==
  ASSUME TypeOK', Owned, NEW s \in Socks, Others(s),
         \A c \in Conns : Keeps(s, c) \/ Gets(s, c) \/ Parks(s, c) \/ Shuts(s, c)
  PROVE  Owned'
<1>1. \A t \in Socks \ {s}, c \in Conns : Holds(t, c)' <=> Holds(t, c)
  BY DEF Others, SameSock, Holds, Carries
<1>2. ASSUME NEW t \in Socks, NEW c \in Conns, Holds(t, c)'
      PROVE  (life[c] = "open" /\ c \notin pool)'
  BY <1>1, <1>2 DEF Owned, Keeps, Gets, Parks, Shuts, Free
<1>3. ASSUME NEW c \in Conns, c \in pool' PROVE life'[c] = "open"
  BY <1>3 DEF Owned, Keeps, Gets, Parks, Shuts, InPool
<1>4. ASSUME NEW c \in Conns, life'[c] = "open", c \notin pool' PROVE \E t \in Socks : Holds(t, c)'
  <2>1. CASE Keeps(s, c)
    <3>1. PICK t \in Socks : Holds(t, c)
      BY <1>4, <2>1 DEF Owned, Keeps
    <3>2. Holds(t, c)'
      BY <1>1, <2>1, <3>1 DEF Keeps
    <3> QED BY <3>2
  <2> QED BY <1>4, <2>1 DEF Gets, Parks, Shuts, InPool
<1>5. ASSUME NEW t \in Socks, NEW u \in Socks, NEW c \in Conns, Holds(t, c)', Holds(u, c)'
      PROVE  t = u
  BY <1>1, <1>5 DEF Owned, Keeps, Gets, Parks, Shuts, Free
<1>6. pool' \subseteq Conns
  BY DEF TypeOK
<1> QED BY <1>2, <1>3, <1>4, <1>5, <1>6 DEF Owned

-----------------------------------------------------------------------------
(* Each action preserves the invariant.                                    *)

\* A step of one socket, that starts no receive.
LEMMA StepKeeps ==
  ASSUME IInv, TypeOK', lineEnds' = lineEnds, NEW s \in Socks, Others(s), Fits(s)',
         \A c \in Conns : \/ SameConn(c) \/ life[c] = "fresh" \/ c \in pool
                          \/ Holds(s, c) \/ Draws(s, c),
         \A c \in Conns : Keeps(s, c) \/ Gets(s, c) \/ Parks(s, c) \/ Shuts(s, c),
         \A c \in Conns : ConnFits(c)',
         \A c \in Conns : Draws(s, c)' => Draws(s, c)
  PROVE  IInv'
<1>1. \A t \in Socks : Fits(t)'
  BY OthersFit
<1>2. Owned'
  BY StaysOwned DEF IInv
<1>3. \A t \in Socks, c \in Conns : Draws(t, c)' => Draws(t, c)
  BY DEF Others, SameSock, Draws
<1>4. ReadersApart'
  BY <1>3 DEF IInv, ReadersApart
<1> QED BY <1>1, <1>2, <1>4 DEF IInv

\* A step of the peers or the pool, on connections that nobody uses.
LEMMA OutsideKeeps ==
  ASSUME IInv, TypeOK', lineEnds' = lineEnds, \A t \in Socks : SameSock(t),
         \A c \in Conns : \/ SameConn(c) /\ ((c \in pool)' <=> c \in pool)
                          \/ /\ life[c] = "fresh" \/ c \in pool
                             /\ (life[c] = "open" <=> c \in pool)',
         \A c \in Conns : ConnFits(c)'
  PROVE  IInv'
<1>1. ASSUME NEW t \in Socks PROVE Fits(t)'
  <2>1. \A c \in Conns : Holds(t, c) \/ Draws(t, c) => SameConn(c)
    BY NotInUse
  <2> QED BY <2>1, StaysFit DEF IInv
<1>2. \A t \in Socks, c \in Conns : (Holds(t, c)' <=> Holds(t, c)) /\ (Draws(t, c)' <=> Draws(t, c))
  BY DEF SameSock, Holds, Carries, Draws
<1>3. ReadersApart'
  BY <1>2 DEF IInv, ReadersApart
<1>4. pool' \subseteq Conns
  BY DEF TypeOK
<1>5. Owned'
  <2>1. ASSUME NEW c \in Conns, NEW t \in Socks, Holds(t, c)' PROVE life'[c] = "open" /\ c \notin pool'
    BY <1>2, <2>1, NotInUse DEF IInv, Owned, SameConn
  <2>2. ASSUME NEW c \in pool' PROVE life'[c] = "open"
    BY <1>4 DEF IInv, Owned, SameConn
  <2>3. ASSUME NEW c \in Conns, life'[c] = "open", c \notin pool' PROVE \E t \in Socks : Holds(t, c)'
    BY <1>2, <2>3 DEF IInv, Owned, SameConn
  <2>4. \A t, u \in Socks, c \in Conns : Holds(t, c)' /\ Holds(u, c)' => t = u
    BY <1>2 DEF IInv, Owned
  <2> QED BY <2>1, <2>2, <2>3, <2>4 DEF Owned
<1> QED BY <1>1, <1>3, <1>5 DEF IInv

LEMMA ArriveKeeps ==
  ASSUME IInv, NEW c \in Conns, Arrive(c)
  PROVE  IInv'
<1>1. TypeOK /\ ConnFits(c)
  BY DEF IInv
<1>2. TypeOK'
  BY <1>1 DEF Arrive, TypeOK, Positions
<1>3. /\ \A t \in Socks : SameSock(t)
      /\ \A d \in Conns : SameConn(d) /\ ((d \in pool)' <=> d \in pool)
  BY <1>1 DEF Arrive, TypeOK, SameSock, SameConn
<1>4. ASSUME NEW d \in Conns PROVE ConnFits(d)'
  <2>1. arrived'[d] \in Nat /\ arrived[d] \in Nat /\ readPos[d] \in Nat /\ arrived'[d] >= arrived[d]
    BY <1>1 DEF Arrive, TypeOK, Positions
  <2> QED BY <1>1, <2>1 DEF IInv, Arrive, TypeOK, ConnFits, Unused
<1>5. lineEnds' = lineEnds
  BY DEF Arrive
<1> QED BY <1>2, <1>3, <1>4, <1>5, OutsideKeeps

LEMMA PeerEndsKeeps ==
  ASSUME IInv, NEW c \in Conns, PeerEnds(c)
  PROVE  IInv'
<1>1. TypeOK' /\ lineEnds' = lineEnds
  BY DEF IInv, PeerEnds, TypeOK
<1>2. /\ \A t \in Socks : SameSock(t)
      /\ \A d \in Conns : SameConn(d) /\ ((d \in pool)' <=> d \in pool)
  BY DEF IInv, PeerEnds, TypeOK, SameSock, SameConn
<1>3. \A d \in Conns : ConnFits(d)'
  BY DEF IInv, PeerEnds, ConnFits, Unused
<1> QED BY <1>1, <1>2, <1>3, OutsideKeeps

LEMMA OtherParksKeeps ==
  ASSUME IInv, NEW c \in Conns, OtherParks(c)
  PROVE  IInv'
<1>1. TypeOK' /\ lineEnds' = lineEnds
  BY DEF IInv, OtherParks, TypeOK
<1>2. \A t \in Socks : SameSock(t)
  BY DEF OtherParks, SameSock
<1>3. \A d \in Conns \ {c} : SameConn(d) /\ ((d \in pool)' <=> d \in pool)
  BY DEF IInv, TypeOK, OtherParks, SameConn
<1>4. life[c] = "fresh" /\ life'[c] = "open" /\ c \in pool'
  BY DEF IInv, TypeOK, OtherParks
<1>5. \A d \in Conns : ConnFits(d)'
  BY DEF IInv, TypeOK, OtherParks, ConnFits, Unused
<1> QED BY <1>1, <1>2, <1>3, <1>4, <1>5, OutsideKeeps

LEMMA PoolClosesKeeps ==
  ASSUME IInv, NEW c \in Conns, PoolCloses(c)
  PROVE  IInv'
<1>1. TypeOK' /\ lineEnds' = lineEnds
  BY DEF IInv, PoolCloses, TypeOK
<1>2. \A t \in Socks : SameSock(t)
  BY DEF PoolCloses, SameSock
<1>3. \A d \in Conns \ {c} : SameConn(d) /\ ((d \in pool)' <=> d \in pool)
  BY DEF IInv, TypeOK, PoolCloses, SameConn
<1>4. c \in pool /\ life'[c] = "closed" /\ c \notin pool'
  BY DEF IInv, TypeOK, PoolCloses
<1>5. \A d \in Conns : ConnFits(d)'
  BY DEF IInv, TypeOK, PoolCloses, ConnFits, Unused
<1> QED BY <1>1, <1>2, <1>3, <1>4, <1>5, OutsideKeeps

LEMMA DrainKeeps ==
  ASSUME IInv, Drain
  PROVE  IInv'
<1>1. TypeOK' /\ lineEnds' = lineEnds
  BY DEF IInv, Drain, TypeOK
<1>2. \A t \in Socks : SameSock(t)
  BY DEF Drain, SameSock
<1>3. \A d \in Conns \ pool : SameConn(d) /\ ((d \in pool)' <=> d \in pool)
  BY DEF Drain, SameConn
<1>4. \A c \in pool : c \in Conns /\ life'[c] = "closed" /\ c \notin pool'
  BY DEF IInv, TypeOK, Drain
<1>5. \A d \in Conns : ConnFits(d)'
  BY DEF IInv, TypeOK, Drain, ConnFits, Unused
<1> QED BY <1>1, <1>2, <1>3, <1>4, <1>5, OutsideKeeps

\* A socket that is called or resumed.
LEMMA OfSock ==
  ASSUME IInv, NEW s \in Socks
  PROVE  /\ TypeOK /\ Fits(s) /\ Owned
         /\ conn[s] \in Conns \cup {NoConn}
         /\ HasConn(s) => /\ conn[s] \in Conns /\ Holds(s, conn[s])
                          /\ life[conn[s]] = "open" /\ conn[s] \notin pool
BY DEF IInv, TypeOK, Owned, Holds

LEMMA ForgetKeeps ==
  ASSUME IInv, NEW s \in Socks, Forget(s)
  PROVE  IInv'
<1>1. TypeOK' /\ lineEnds' = lineEnds
  BY DEF IInv, Forget, TypeOK
<1>2. /\ \A t \in Socks : SameSock(t)
      /\ \A d \in Conns : SameConn(d) /\ ((d \in pool)' <=> d \in pool)
  BY DEF Forget, SameSock, SameConn
<1>3. \A d \in Conns : ConnFits(d)'
  BY DEF IInv, Forget, ConnFits, Unused
<1> QED BY <1>1, <1>2, <1>3, OutsideKeeps

\* Between calls a socket has no receive and no dial that could not fit.
LEMMA IdleFits ==
  ASSUME NEW s \in Socks, op'[s].at = "none"
  PROVE  /\ DialFits(s)' /\ ReadFits(s)' /\ AnswerFits(s)'
         /\ \A c \in Conns : (Draws(s, c)' => Draws(s, c)) /\ (Holds(s, c)' <=> conn'[s] = c)
BY DEF DialFits, ReadFits, AnswerFits, Draws, Holds, Carries

\* connect first closes the connection that the socket has.
LEMMA LeavesOldIs ==
  ASSUME IInv, NEW s \in Socks, CanCall(s), LeavesOld(s)
  PROVE  /\ life' \in [Conns -> {"fresh", "open", "closed"}]
         /\ \A c \in Conns : life'[c] = IF c = conn[s] THEN "closed" ELSE life[c]
         /\ gen' \in [Socks -> Nat] /\ readBuf' \in [Socks -> Intervals]
         /\ \A t \in Socks \ {s} : gen'[t] = gen[t] /\ readBuf'[t] = readBuf[t]
         /\ ~(readBuf'[s].lo < readBuf'[s].hi)
         /\ op[s] = NoOp /\ ~closed[s] /\ ~connecting[s] /\ ~reading[s]
<1>1. TypeOK /\ Fits(s)
  BY DEF IInv
<1>2. 0 \in Positions
  BY DEF Positions
<1>3. op[s] = NoOp /\ ~closed[s] /\ ~connecting[s] /\ ~reading[s]
  BY <1>1, OpShapes DEF CanCall
<1>4. life' \in [Conns -> {"fresh", "open", "closed"}]
  BY <1>1 DEF LeavesOld, TypeOK
<1>5. gen' \in [Socks -> Nat] /\ \A t \in Socks \ {s} : gen'[t] = gen[t]
  BY <1>1 DEF LeavesOld, TypeOK
<1>6. readBuf' \in [Socks -> Intervals] /\ \A t \in Socks \ {s} : readBuf'[t] = readBuf[t]
  BY <1>1, <1>2 DEF LeavesOld, TypeOK, Intervals
<1>7. ~(readBuf'[s].lo < readBuf'[s].hi)
  BY <1>1 DEF LeavesOld, TypeOK, Fits, FlagsFit
<1>8. \A c \in Conns : life'[c] = IF c = conn[s] THEN "closed" ELSE life[c]
  BY DEF LeavesOld
<1> QED BY <1>3, <1>4, <1>5, <1>6, <1>7, <1>8

LEMMA ConnectRefusedKeeps ==
  ASSUME IInv, NEW s \in Socks, ConnectRefused(s)
  PROVE  IInv'
<1>1. TypeOK /\ Fits(s) /\ CanCall(s) /\ LeavesOld(s)
  BY DEF IInv, ConnectRefused
<1>2. /\ op' = op /\ conn'[s] = NoConn /\ connected'[s] = FALSE
      /\ UNCHANGED <<arrived, readPos, peer, poolVars, closed, reusedTimes, flags, ref, history>>
      /\ conn' \in [Socks -> Conns \cup {NoConn}] /\ connected' \in [Socks -> BOOLEAN]
      /\ \A t \in Socks \ {s} : conn'[t] = conn[t] /\ connected'[t] = connected[t]
  BY <1>1 DEF ConnectRefused, TypeOK
<1>3. TypeOK'
  BY <1>1, <1>2, LeavesOldIs DEF TypeOK
<1>4. Others(s)
  BY <1>1, <1>2, LeavesOldIs DEF Others, SameSock
<1>5. FlagsFit(s)' /\ BufFits(s)'
  BY <1>1, <1>2, LeavesOldIs DEF FlagsFit, BufFits
<1>6. op'[s].at = "none"
  BY <1>1, <1>2, LeavesOldIs
<1>7. \A c \in Conns : SameConn(c) \/ Holds(s, c)
  BY <1>1, <1>2, LeavesOldIs DEF SameConn, Holds
<1>8. \A c \in Conns : Keeps(s, c) \/ Shuts(s, c)
  BY <1>1, <1>2, <1>6, OfSock, LeavesOldIs, IdleFits DEF Keeps, Shuts, Free, Holds, Carries
<1>9. \A c \in Conns : ConnFits(c)'
  BY <1>1, <1>2, LeavesOldIs DEF IInv, ConnFits, Unused
<1> QED BY <1>2, <1>3, <1>4, <1>5, <1>6, <1>7, <1>8, <1>9, IdleFits, StepKeeps DEF Fits

LEMMA ConnectPooledKeeps ==
  ASSUME IInv, NEW s \in Socks, NEW c \in Conns, ConnectPooled(s, c)
  PROVE  IInv'
<1>1. /\ TypeOK /\ Fits(s) /\ CanCall(s) /\ LeavesOld(s) /\ c \in pool /\ ConnFits(c)
      /\ life[c] = "open" /\ c # conn[s]
  BY OfSock DEF IInv, Owned, ConnectPooled
<1>2. /\ op' = op /\ pool' = pool \ {c}
      /\ UNCHANGED <<arrived, readPos, peer, reused, tcpPoolsClosed, closed, flags, ref,
                     bytes, taken, result>>
      /\ conn'[s] = c /\ connected'[s] = TRUE /\ reusedTimes'[s] = takes[c] + 1
      /\ takes'[c] = takes[c] + 1 /\ \A d \in Conns \ {c} : takes'[d] = takes[d]
      /\ \A t \in Socks \ {s} : /\ conn'[t] = conn[t] /\ connected'[t] = connected[t]
                                /\ reusedTimes'[t] = reusedTimes[t]
  BY <1>1 DEF ConnectPooled, TypeOK, ConnFits
<1>3. TypeOK'
  <2>1. /\ conn' \in [Socks -> Conns \cup {NoConn}] /\ connected' \in [Socks -> BOOLEAN]
        /\ reusedTimes' \in [Socks -> Nat] /\ takes' \in [Conns -> Nat]
    BY <1>1 DEF ConnectPooled, TypeOK
  <2> QED BY <1>1, <1>2, <2>1, LeavesOldIs DEF TypeOK
<1>4. Others(s)
  BY <1>1, <1>2, LeavesOldIs DEF Others, SameSock
<1>5. FlagsFit(s)' /\ BufFits(s)'
  BY <1>1, <1>2, LeavesOldIs DEF FlagsFit, BufFits, ConnFits
<1>6. op'[s].at = "none"
  BY <1>1, <1>2, LeavesOldIs
<1>7. \A d \in Conns : SameConn(d) \/ d \in pool \/ Holds(s, d)
  BY <1>1, <1>2, LeavesOldIs DEF SameConn, Holds
<1>8. \A d \in Conns : Keeps(s, d) \/ Gets(s, d) \/ Shuts(s, d)
  BY <1>1, <1>2, <1>6, OfSock, LeavesOldIs, IdleFits DEF Keeps, Gets, Shuts, Free, Holds, Carries
<1>9. \A d \in Conns : ConnFits(d)'
  BY <1>1, <1>2, LeavesOldIs DEF IInv, ConnFits, Unused
<1> QED BY <1>2, <1>3, <1>4, <1>5, <1>6, <1>7, <1>8, <1>9, IdleFits, StepKeeps DEF Fits

LEMMA ConnectDialsKeeps ==
  ASSUME IInv, NEW s \in Socks, ConnectDials(s)
  PROVE  IInv'
<1>1. TypeOK /\ Fits(s) /\ CanCall(s) /\ LeavesOld(s)
  BY DEF IInv, ConnectDials
<1>2. /\ op'[s] = [at |-> "dial", gen |-> gen'[s]] /\ \A t \in Socks \ {s} : op'[t] = op[t]
      /\ conn'[s] = NoConn /\ connected'[s] = FALSE /\ connecting'[s] = TRUE
      /\ UNCHANGED <<arrived, readPos, peer, poolVars, closed, reusedTimes, reading, history>>
      /\ \A t \in Socks \ {s} : /\ conn'[t] = conn[t] /\ connected'[t] = connected[t]
                                /\ connecting'[t] = connecting[t]
  BY <1>1 DEF ConnectDials, TypeOK
<1>3. op' \in [Socks -> Ops]
  <2>1. op'[s] \in Dialing
    BY <1>1, <1>2, LeavesOldIs DEF Dialing
  <2> QED BY <1>1, <1>2, <2>1 DEF ConnectDials, TypeOK, Ops
<1>4. TypeOK'
  <2>1. /\ conn' \in [Socks -> Conns \cup {NoConn}] /\ connected' \in [Socks -> BOOLEAN]
        /\ connecting' \in [Socks -> BOOLEAN] /\ ref' \in [Socks -> {"held", "dropped", "collected"}]
    BY <1>1 DEF ConnectDials, MayForget, TypeOK
  <2> QED BY <1>1, <1>2, <1>3, <2>1, LeavesOldIs DEF TypeOK, Ops
<1>5. Others(s)
  BY <1>1, <1>2, LeavesOldIs DEF Others, SameSock
<1>6. Fits(s)'
  BY <1>1, <1>2, LeavesOldIs DEF Fits, FlagsFit, DialFits, ReadFits, BufFits, AnswerFits
<1>7. \A c \in Conns : SameConn(c) \/ Holds(s, c)
  BY <1>1, <1>2, LeavesOldIs DEF SameConn, Holds
<1>8. \A c \in Conns : Keeps(s, c) \/ Shuts(s, c)
  BY <1>1, <1>2, OfSock, LeavesOldIs DEF Keeps, Shuts, Free, Holds, Carries
<1>9. \A c \in Conns : ConnFits(c)' /\ ~Draws(s, c)'
  BY <1>1, <1>2, LeavesOldIs DEF IInv, ConnFits, Unused, Draws
<1> QED BY <1>2, <1>4, <1>5, <1>6, <1>7, <1>8, <1>9, StepKeeps

\* The sizes that a receive is given.
SizesOf(mode) == IF mode \in {"size", "any"} THEN Sizes ELSE {0}

\* What a buffer has, and what is taken of it.
LEMMA BufferedIs ==
  ASSUME IInv, NEW s \in Socks, Usable(s), NEW mode \in Modes, NEW size \in SizesOf(mode),
         Buffered(s, mode, size)
  PROVE  LET c == conn[s]
             b == readBuf[s]
             end == BufferedEnd(s, mode, size) IN
         /\ c \in Conns /\ b = Interval(taken[c], readPos[c]) /\ b.lo < b.hi
         /\ end \in b.lo + 1 .. b.hi
         /\ Fills([mode |-> mode, size |-> size, ok |-> TRUE, lo |-> b.lo, hi |-> end], c)
<1> DEFINE c == conn[s]
           b == readBuf[s]
           end == BufferedEnd(s, mode, size)
<1>1. /\ TypeOK /\ Fits(s) /\ c \in Conns /\ ~Reads(s) /\ mode \in {"line", "size", "all", "any"}
      /\ b \in Intervals /\ b.lo \in Nat /\ b.hi \in Nat
  BY OfSock DEF Usable, CanCall, Fits, FlagsFit, TypeOK, Intervals, Positions
<1>2. size \in Nat /\ (mode \in {"size", "any"} => size > 0)
  BY DEF SizesOf
<1>3. mode # "all"
  BY DEF Buffered
<1>4. CASE mode = "line"
  <2>1. LineFeeds(c, b.lo, b.hi) # {} /\ end = FirstLF(c, b.lo, b.hi)
    BY <1>4 DEF Buffered, BufferedEnd
  <2>4. PICK d : d = c
    OBVIOUS
  <2>5. PICK lo \in Nat, hi \in Nat : lo = b.lo /\ hi = b.hi
    BY <1>1
  <2>6. PICK n : n = FirstLF(d, lo, hi)
    OBVIOUS
  <2>7. n \in Feeds(d) /\ n \in lo + 1 .. hi /\ LineFeeds(d, lo, n - 1) = {}
    BY <2>1, <2>4, <2>5, <2>6, FirstLFIs
  <2>2. end \in Feeds(c) /\ end \in b.lo + 1 .. b.hi /\ LineFeeds(c, b.lo, end - 1) = {}
    BY <2>1, <2>4, <2>5, <2>6, <2>7
  <2>3. b.lo < b.hi
    BY <1>1, <2>2
  <2> QED BY <1>1, <1>4, <2>2, <2>3 DEF Fits, BufFits, Fills
<1>5. CASE mode = "size"
  <2>1. b.hi - b.lo >= size /\ end = b.lo + size
    BY <1>1, <1>2, <1>5 DEF Buffered, BufferedEnd, Least
  <2> QED BY <1>1, <1>2, <1>5, <2>1 DEF Fits, BufFits, Fills
<1>6. CASE mode = "any"
  <2>1. b.lo < b.hi /\ end = Least(b.lo + size, b.hi)
    BY <1>6 DEF Buffered, BufferedEnd
  <2>2. end \in b.lo + 1 .. b.hi /\ end - b.lo \in 1..size
    BY <1>1, <1>2, <1>6, <2>1 DEF Least
  <2> QED BY <1>1, <1>6, <2>1, <2>2 DEF Fits, BufFits, Fills
<1> QED BY <1>1, <1>3, <1>4, <1>5, <1>6

LEMMA ReceiveBufferedKeeps ==
  ASSUME IInv, NEW s \in Socks, NEW mode \in Modes, NEW size \in SizesOf(mode),
         ReceiveBuffered(s, mode, size)
  PROVE  IInv'
<1> DEFINE b == readBuf[s]
           end == BufferedEnd(s, mode, size)
<1>1. PICK c \in Conns : c = conn[s]
  BY BufferedIs DEF ReceiveBuffered
<1>2. /\ TypeOK /\ Fits(s) /\ op[s].at = "none" /\ life[c] = "open" /\ c \notin pool
      /\ b = Interval(taken[c], readPos[c]) /\ end \in b.lo + 1 .. b.hi
      /\ taken[c] \in Positions /\ readPos[c] \in Positions
  BY <1>1, OfSock, BufferedIs DEF ReceiveBuffered, Usable, CanCall, TypeOK
<1>3. end \in Positions /\ end <= readPos[c]
  BY <1>2 DEF Positions
<1>4. /\ taken' = [taken EXCEPT ![c] = end]
      /\ result' = [result EXCEPT ![c] = [mode |-> mode, size |-> size, ok |-> TRUE,
                                          lo |-> b.lo, hi |-> end]]
      /\ readBuf' = [readBuf EXCEPT ![s] = Rest(end, b.hi)]
      /\ UNCHANGED <<connVars, bond, closed, gen, flags, ref, op, bytes, takes>>
  BY <1>1 DEF ReceiveBuffered, Gives
<1>5. Rest(end, b.hi) \in Intervals
  BY <1>2, <1>3 DEF Rest, Intervals, Positions
<1>6. [mode |-> mode, size |-> size, ok |-> TRUE, lo |-> b.lo, hi |-> end] \in Results
  BY <1>2, <1>3 DEF Results, SizesOf
<1>7. TypeOK'
  BY <1>2, <1>3, <1>4, <1>5, <1>6 DEF TypeOK
<1>8. Others(s)
  BY <1>2, <1>4 DEF TypeOK, Others, SameSock
<1>9. readBuf'[s] = Rest(end, b.hi) /\ taken'[c] = end
  BY <1>2, <1>4 DEF TypeOK
<1>10. FlagsFit(s)' /\ BufFits(s)'
  BY <1>1, <1>2, <1>3, <1>4, <1>9 DEF Fits, FlagsFit, BufFits, Rest, Positions
<1>11. \A d \in Conns : SameConn(d) \/ Holds(s, d)
  BY <1>1, <1>4 DEF SameConn, Holds
<1>12. \A d \in Conns : Keeps(s, d)
  BY <1>4 DEF Keeps, Holds, Carries
<1>13. \A d \in Conns : ConnFits(d)'
  BY <1>2, <1>4 DEF IInv, ConnFits, Unused
<1> QED BY <1>2, <1>4, <1>7, <1>8, <1>10, <1>11, <1>12, <1>13, IdleFits, StepKeeps DEF Fits

\* The bytes that a goroutine starts with are not what was asked for.
LEMMA ExistingIs ==
  ASSUME IInv, NEW s \in Socks, Usable(s), NEW mode \in Modes, NEW size \in SizesOf(mode),
         ~Buffered(s, mode, size)
  PROVE  LET c == conn[s]
             e == ExistingData(s) IN
         /\ c \in Conns /\ e.lo = taken[c] /\ e.hi = readPos[c] /\ e.lo <= e.hi
         /\ \A r : r.mode = mode /\ r.size = size /\ r.lo = e.lo /\ r.hi = e.hi => Lacks(r, c)
<1> DEFINE c == conn[s]
           b == readBuf[s]
           e == ExistingData(s)
<1>1. /\ TypeOK /\ Fits(s) /\ c \in Conns /\ ~Reads(s) /\ b \in Intervals
      /\ b.lo \in Nat /\ b.hi \in Nat /\ readPos[c] \in Nat
  BY OfSock DEF Usable, CanCall, Fits, FlagsFit, TypeOK, Intervals, Positions
<1>2. mode \in {"size", "any"} => size \in Nat \ {0}
  BY DEF SizesOf
<1>3. CASE b.lo < b.hi
  <2>1. e = b /\ b = Interval(taken[c], readPos[c])
    BY <1>1, <1>3 DEF ExistingData, Fits, BufFits
  <2>2. /\ mode = "line" => LineFeeds(c, b.lo, b.hi) = {}
        /\ mode = "size" => b.hi - b.lo < size
        /\ mode # "any"
    BY <1>1, <1>2, <1>3 DEF Buffered
  <2> QED BY <1>1, <1>3, <2>1, <2>2 DEF Lacks
<1>4. CASE ~(b.lo < b.hi)
  <2>1. e = Interval(readPos[c], readPos[c]) /\ taken[c] = readPos[c]
    BY <1>1, <1>4 DEF ExistingData, Fits, BufFits
  <2>2. LineFeeds(c, readPos[c], readPos[c]) = {}
    BY <1>1 DEF LineFeeds
  <2> QED BY <1>1, <1>2, <2>1, <2>2 DEF Lacks
<1> QED BY <1>3, <1>4

LEMMA ReceiveReadsKeeps ==
  ASSUME IInv, NEW s \in Socks, NEW mode \in Modes, NEW size \in SizesOf(mode),
         ReceiveReads(s, mode, size)
  PROVE  IInv'
<1> DEFINE e == ExistingData(s)
           o == [at |-> "read", conn |-> conn[s], gen |-> gen[s], mode |-> mode, size |-> size,
                 lo |-> e.lo, hi |-> e.hi]
<1>1. PICK c \in Conns : c = conn[s]
  BY ExistingIs DEF ReceiveReads
<1>2. /\ TypeOK /\ Fits(s) /\ op[s].at = "none" /\ ~closed[s] /\ life[c] = "open" /\ c \notin pool
      /\ e.lo = taken[c] /\ e.hi = readPos[c] /\ e.lo <= e.hi /\ Lacks(o, c)
      /\ taken[c] \in Positions /\ readPos[c] \in Positions
  BY <1>1, OfSock, ExistingIs DEF ReceiveReads, Usable, CanCall, TypeOK
<1>3. /\ op'[s] = o /\ readBuf'[s] = NoBytes /\ reading'[s] = TRUE
      /\ UNCHANGED <<connVars, bond, closed, gen, connecting, history>>
      /\ \A t \in Socks \ {s} : /\ op'[t] = op[t] /\ readBuf'[t] = readBuf[t]
                                /\ reading'[t] = reading[t]
  BY <1>2 DEF ReceiveReads, TypeOK
<1>4. o \in Reading
  BY <1>1, <1>2 DEF Reading, SizesOf, TypeOK
<1>5. TypeOK'
  <2>1. op' \in [Socks -> Ops]
    BY <1>2, <1>4 DEF ReceiveReads, TypeOK, Ops
  <2>2. readBuf' \in [Socks -> Intervals]
    BY <1>2 DEF ReceiveReads, TypeOK, Intervals, Positions
  <2>3. reading' \in [Socks -> BOOLEAN] /\ ref' \in [Socks -> {"held", "dropped", "collected"}]
    BY <1>2 DEF ReceiveReads, MayForget, TypeOK
  <2> QED BY <1>2, <1>3, <2>1, <2>2, <2>3 DEF TypeOK, Ops
<1>6. Others(s)
  BY <1>3 DEF Others, SameSock
<1>7. Fits(s)'
  <2>1. FlagsFit(s)' /\ DialFits(s)' /\ BufFits(s)'
    BY <1>2, <1>3 DEF Fits, FlagsFit, DialFits, BufFits
  <2>2. ReadFits(s)'
    BY <1>1, <1>2, <1>3 DEF ReadFits
  <2>3. AnswerFits(s)'
    BY <1>1, <1>2, <1>3 DEF AnswerFits, Lacks, LineFeeds, Feeds
  <2> QED BY <2>1, <2>2, <2>3 DEF Fits
<1>8. \A t \in Socks : Fits(t)'
  BY <1>3, <1>6, <1>7, OthersFit DEF SameConn
<1>9. Owned'
  <2>1. \A d \in Conns : Keeps(s, d)
    BY <1>2, <1>3 DEF Keeps, Holds, Carries
  <2> QED BY <1>5, <1>6, <2>1, StaysOwned DEF IInv
<1>10. \A d \in Conns : ConnFits(d)'
  BY <1>3 DEF IInv, ConnFits, Unused
<1>11. \A t \in Socks \ {s}, d \in Conns : Draws(t, d)' => Draws(t, d)
  BY <1>3 DEF Draws
<1>12. \A t \in Socks \ {s} : ~Draws(t, c)'
  <2> SUFFICES ASSUME NEW t \in Socks \ {s}, Draws(t, c) PROVE FALSE
    BY <1>11
  <2>1. Holds(t, c)
    BY <1>2, NotInUse
  <2> QED BY <1>1, <2>1 DEF IInv, Owned, Holds
<1>13. \A d \in Conns : Draws(s, d)' => d = c
  BY <1>1, <1>3 DEF Draws
<1>14. ReadersApart'
  <2> SUFFICES ASSUME NEW t \in Socks, NEW u \in Socks, NEW d \in Conns, Draws(t, d)', Draws(u, d)'
               PROVE  t = u
    BY DEF ReadersApart
  <2>1. CASE d = c
    BY <1>12, <2>1
  <2>2. CASE d # c
    BY <1>11, <1>13, <2>2 DEF IInv, ReadersApart
  <2> QED BY <2>1, <2>2
<1> QED BY <1>5, <1>8, <1>9, <1>10, <1>14 DEF IInv

\* What letting go of a connection for good makes of a socket.
LEMMA RetireIs ==
  ASSUME IInv, NEW s \in Socks, Retire(s)
  PROVE  /\ conn' \in [Socks -> Conns \cup {NoConn}] /\ connected' \in [Socks -> BOOLEAN]
         /\ closed' \in [Socks -> BOOLEAN] /\ gen' \in [Socks -> Nat]
         /\ readBuf' \in [Socks -> Intervals]
         /\ connecting' \in [Socks -> BOOLEAN] /\ reading' \in [Socks -> BOOLEAN]
         /\ conn'[s] = NoConn /\ connected'[s] = FALSE /\ closed'[s] = TRUE
         /\ readBuf'[s] = NoBytes /\ connecting'[s] = FALSE /\ reading'[s] = FALSE
         /\ FlagsFit(s)' /\ BufFits(s)' /\ reusedTimes' = reusedTimes
         /\ op' = op => Others(s)
<1>1. TypeOK /\ NoBytes \in Intervals
  BY DEF IInv, Intervals, Positions
<1>2. /\ conn'[s] = NoConn /\ connected'[s] = FALSE /\ closed'[s] = TRUE
      /\ readBuf'[s] = NoBytes /\ connecting'[s] = FALSE /\ reading'[s] = FALSE
  BY <1>1 DEF Retire, TypeOK
<1>3. FlagsFit(s)' /\ BufFits(s)'
  BY <1>2 DEF FlagsFit, BufFits
<1>4. op' = op => Others(s)
  BY <1>1 DEF Retire, TypeOK, Others, SameSock
<1> QED BY <1>1, <1>2, <1>3, <1>4 DEF Retire, TypeOK

LEMMA ClosesOwnIs ==
  ASSUME IInv, NEW s \in Socks, ClosesOwn(s)
  PROVE  /\ life' \in [Conns -> {"fresh", "open", "closed"}]
         /\ \A c \in Conns : life'[c] = IF c = conn[s] THEN "closed" ELSE life[c]
BY DEF ClosesOwn, IInv, TypeOK

\* close and the finalizer.
LEMMA EndKeeps ==
  ASSUME IInv, NEW s \in Socks, ClosesOwn(s), Retire(s),
         ref' \in [Socks -> {"held", "dropped", "collected"}],
         UNCHANGED <<arrived, readPos, peer, poolVars, op, history>>
  PROVE  IInv'
<1>1. TypeOK /\ Fits(s)
  BY DEF IInv
<1>2. TypeOK'
  <2>1. /\ conn' \in [Socks -> Conns \cup {NoConn}] /\ connected' \in [Socks -> BOOLEAN]
        /\ closed' \in [Socks -> BOOLEAN] /\ gen' \in [Socks -> Nat]
        /\ readBuf' \in [Socks -> Intervals] /\ reusedTimes' = reusedTimes
        /\ connecting' \in [Socks -> BOOLEAN] /\ reading' \in [Socks -> BOOLEAN]
    BY RetireIs
  <2>2. life' \in [Conns -> {"fresh", "open", "closed"}]
    BY ClosesOwnIs
  <2> QED BY <1>1, <2>1, <2>2 DEF TypeOK
<1>3. Others(s) /\ FlagsFit(s)' /\ BufFits(s)' /\ conn'[s] = NoConn /\ closed'[s] = TRUE
      /\ readBuf'[s] = NoBytes
  BY RetireIs
<1>4. DialFits(s)'
  BY <1>1, <1>3 DEF Fits, DialFits, Unused
<1>5. Reads(s) => op[s].conn \in Conns
  BY <1>1, OpShapes
<1>6. ReadFits(s)'
  BY <1>1, <1>3, <1>5, ClosesOwnIs DEF Fits, ReadFits
<1>7. AnswerFits(s)'
  BY <1>1, <1>5 DEF Fits, AnswerFits, Lacks, Fills, LineFeeds, Feeds
<1>8. \A c \in Conns : SameConn(c) \/ Holds(s, c)
  BY ClosesOwnIs DEF SameConn, Holds
<1>9. \A c \in Conns : Keeps(s, c) \/ Shuts(s, c)
  BY <1>1, <1>3, OfSock, ClosesOwnIs DEF Keeps, Shuts, Free, Holds, Carries, Fits, DialFits
<1>10. \A c \in Conns : ConnFits(c)' /\ (Draws(s, c)' => Draws(s, c))
  BY <1>1, ClosesOwnIs DEF IInv, ConnFits, Unused, Draws
<1> QED BY <1>2, <1>3, <1>4, <1>6, <1>7, <1>8, <1>9, <1>10, StepKeeps DEF Fits

LEMMA CloseKeeps ==
  ASSUME IInv, NEW s \in Socks, Close(s)
  PROVE  IInv'
BY EndKeeps DEF Close, IInv, TypeOK

LEMMA GcKeeps ==
  ASSUME IInv, NEW s \in Socks, Gc(s)
  PROVE  IInv'
<1>1. ref' \in [Socks -> {"held", "dropped", "collected"}]
  BY DEF IInv, TypeOK, Gc
<1> QED BY <1>1, EndKeeps DEF Gc

\* What is parked was read to the end, and its count goes with it.
LEMMA SetKeepaliveKeeps ==
  ASSUME IInv, NEW s \in Socks, SetKeepalive(s)
  PROVE  IInv'
<1>1. CASE tcpPoolsClosed
  <2>1. ClosesOwn(s) /\ Retire(s) /\ UNCHANGED <<arrived, readPos, peer, poolVars, ref, op, history>>
    BY <1>1 DEF SetKeepalive
  <2> QED BY <2>1, EndKeeps DEF IInv, TypeOK
<1>2. CASE ~tcpPoolsClosed
  <2>1. PICK c \in Conns : c = conn[s]
    BY OfSock DEF SetKeepalive, Parkable
  <2>2. /\ TypeOK /\ Fits(s) /\ op[s].at = "none" /\ life[c] = "open" /\ c \notin pool
        /\ taken[c] = readPos[c] /\ reusedTimes[s] = takes[c]
    BY <2>1, OfSock DEF SetKeepalive, Parkable, Usable, CanCall, Fits, BufFits
  <2>3. /\ pool' = pool \cup {c} /\ reused' = [reused EXCEPT ![c] = takes[c]]
        /\ Retire(s)
        /\ UNCHANGED <<life, arrived, readPos, peer, tcpPoolsClosed, ref, op, history>>
    BY <1>2, <2>1, <2>2 DEF SetKeepalive
  <2>4. reused' \in [Conns -> Nat] /\ reused'[c] = takes[c] /\ \A d \in Conns \ {c} : reused'[d] = reused[d]
    BY <2>2, <2>3 DEF TypeOK
  <2>5. TypeOK'
    BY <2>2, <2>3, <2>4, RetireIs DEF TypeOK
  <2>6. Others(s) /\ FlagsFit(s)' /\ BufFits(s)' /\ conn'[s] = NoConn
    BY <2>3, RetireIs
  <2>7. op'[s].at = "none"
    BY <2>2, <2>3
  <2>8. \A d \in Conns : SameConn(d)
    BY <2>3 DEF SameConn
  <2>9. \A d \in Conns : Keeps(s, d) \/ Parks(s, d)
    BY <2>1, <2>2, <2>3, <2>6, <2>7, IdleFits DEF Keeps, Parks, Free, InPool, Holds, Carries
  <2>10. \A d \in Conns : ConnFits(d)'
    BY <2>2, <2>3, <2>4 DEF IInv, ConnFits, Unused
  <2>11. lineEnds' = lineEnds
    BY <2>3
  <2> QED BY <2>5, <2>6, <2>7, <2>8, <2>9, <2>10, <2>11, IdleFits, StepKeeps DEF Fits
<1> QED BY <1>1, <1>2

LEMMA DialedKeeps ==
  ASSUME IInv, NEW s \in Socks, NEW c \in Conns, Dialed(s, c)
  PROVE  IInv'
<1>1. /\ TypeOK /\ Fits(s) /\ op[s].at = "dial" /\ op[s].gen \in Nat
      /\ life[c] = "fresh" /\ ConnFits(c) /\ c \notin pool
  BY OpShapes DEF IInv, Owned, Dialed
<1>2. /\ life'[c] = "open" /\ \A d \in Conns \ {c} : life'[d] = life[d]
      /\ op'[s] = [at |-> "dialed", gen |-> op[s].gen, conn |-> c]
      /\ \A t \in Socks \ {s} : op'[t] = op[t]
      /\ UNCHANGED <<arrived, readPos, peer, poolVars, bond, closed, gen, flags, readBuf, ref, history>>
  BY <1>1 DEF Dialed, TypeOK
<1>3. op' \in [Socks -> Ops]
  <2>1. op'[s] \in Dialled
    BY <1>1, <1>2 DEF Dialled
  <2> QED BY <1>1, <1>2, <2>1 DEF Dialed, TypeOK, Ops
<1>4. TypeOK'
  <2>1. life' \in [Conns -> {"fresh", "open", "closed"}]
    BY <1>1 DEF Dialed, TypeOK
  <2> QED BY <1>1, <1>2, <1>3, <2>1 DEF TypeOK, Ops
<1>5. Others(s)
  BY <1>2 DEF Others, SameSock
<1>6. Fits(s)'
  BY <1>1, <1>2 DEF Fits, FlagsFit, DialFits, ReadFits, BufFits, AnswerFits, ConnFits, Unused
<1>7. \A d \in Conns : SameConn(d) \/ life[d] = "fresh"
  BY <1>1, <1>2 DEF SameConn
<1>8. ~HasConn(s)
  BY <1>1 DEF Fits, DialFits
<1>9. \A d \in Conns : Keeps(s, d) \/ Gets(s, d)
  BY <1>1, <1>2, <1>8 DEF Keeps, Gets, Free, Holds, Carries
<1>10. \A d \in Conns : ConnFits(d)' /\ ~Draws(s, d)'
  BY <1>2 DEF IInv, ConnFits, Unused, Draws
<1> QED BY <1>2, <1>4, <1>5, <1>6, <1>7, <1>9, <1>10, StepKeeps

LEMMA DialFailsKeeps ==
  ASSUME IInv, NEW s \in Socks, DialFails(s)
  PROVE  IInv'
<1>1. TypeOK /\ Fits(s) /\ op[s].at = "dial" /\ op[s].gen \in Nat
  BY OpShapes DEF IInv, DialFails
<1>2. /\ op'[s] = [at |-> "dialed", gen |-> op[s].gen, conn |-> NoConn]
      /\ \A t \in Socks \ {s} : op'[t] = op[t]
      /\ UNCHANGED <<connVars, bond, closed, gen, flags, readBuf, ref, history>>
  BY <1>1 DEF DialFails, TypeOK
<1>3. op' \in [Socks -> Ops]
  <2>1. op'[s] \in Dialled
    BY <1>1, <1>2 DEF Dialled
  <2> QED BY <1>1, <1>2, <2>1 DEF DialFails, TypeOK, Ops
<1>4. TypeOK'
  BY <1>1, <1>2, <1>3 DEF TypeOK, Ops
<1>5. Others(s)
  BY <1>2 DEF Others, SameSock
<1>6. Fits(s)'
  BY <1>1, <1>2 DEF Fits, FlagsFit, DialFits, ReadFits, BufFits, AnswerFits
<1>7. \A d \in Conns : SameConn(d) /\ Keeps(s, d)
  BY <1>1, <1>2 DEF SameConn, Keeps, Holds, Carries
<1>8. \A d \in Conns : ConnFits(d)' /\ ~Draws(s, d)'
  BY <1>2 DEF IInv, ConnFits, Unused, Draws
<1> QED BY <1>2, <1>4, <1>5, <1>6, <1>7, <1>8, StepKeeps

\* The receive that a goroutine goes on with.
LEMMA ReadingIs ==
  ASSUME IInv, NEW s \in Socks, op[s].at = "read"
  PROVE  LET o == op[s] IN
         /\ TypeOK /\ Fits(s) /\ o \in Reading /\ o.conn \in Conns
         /\ o.lo \in Positions /\ o.hi \in Positions /\ o.size \in Sizes \cup {0} /\ o.size \in Nat
         /\ o.mode \in {"line", "size", "all", "any"}
         /\ o.lo = taken[o.conn] /\ o.lo <= o.hi /\ o.hi = readPos[o.conn] /\ Lacks(o, o.conn)
         /\ readPos[o.conn] <= arrived[o.conn] /\ arrived[o.conn] \in Positions
         /\ life[o.conn] # "fresh" /\ o.conn \notin pool
<1>1. TypeOK /\ Fits(s) /\ op[s] \in Reading /\ op[s].conn \in Conns
  BY OpShapes DEF IInv
<1>2. op[s].conn \notin pool
  BY <1>1, NotInUse DEF Draws
<1>3. ReadFits(s) /\ AnswerFits(s) /\ ConnFits(op[s].conn)
  BY <1>1 DEF IInv, Fits
<1>4. arrived[op[s].conn] \in Positions
  BY <1>1 DEF TypeOK
<1>5. LET o == op[s] IN
      /\ o.lo \in Positions /\ o.hi \in Positions /\ o.size \in Sizes \cup {0} /\ o.size \in Nat
      /\ o.mode \in {"line", "size", "all", "any"}
  <2>1. /\ op[s].lo \in Positions /\ op[s].hi \in Positions /\ op[s].size \in Sizes \cup {0}
        /\ op[s].mode \in Modes
    BY <1>1 DEF Reading
  <2>2. op[s].size \in Nat
    <3>1. Sizes \cup {0} \subseteq Nat
      BY BytesAssumption
    <3>2. op[s].size \in Sizes \cup {0}
      BY <2>1
    <3> QED BY <3>1, <3>2, Zenon
  <2>3. op[s].mode \in {"line", "size", "all", "any"}
    BY <2>1, ModesAssumption, Zenon
  <2> QED BY <2>1, <2>2, <2>3
<1>6. LET o == op[s] IN
      /\ o.lo = taken[o.conn] /\ o.lo <= o.hi /\ o.hi = readPos[o.conn] /\ Lacks(o, o.conn)
      /\ life[o.conn] # "fresh"
  BY <1>3 DEF ReadFits, AnswerFits
<1>7. readPos[op[s].conn] <= arrived[op[s].conn]
  BY <1>3 DEF ConnFits
<1> QED BY <1>1, <1>2, <1>4, <1>5, <1>6, <1>7

\* A step of a receive: the goroutine has read on, and posts or goes on.
LEMMA ReadStepKeeps ==
  ASSUME IInv, NEW s \in Socks, op[s].at = "read",
         op'[s].at \in {"read", "got"}, op'[s] \in Ops,
         op'[s].conn = op[s].conn, op'[s].gen = op[s].gen,
         \A t \in Socks \ {s} : op'[t] = op[t],
         op' = [op EXCEPT ![s] = op'[s]],
         readPos' \in [Conns -> Positions], readPos'[op[s].conn] >= readPos[op[s].conn],
         readPos'[op[s].conn] <= arrived[op[s].conn],
         \A c \in Conns : c # op[s].conn => readPos'[c] = readPos[c],
         UNCHANGED <<life, arrived, peer, poolVars, bond, closed, gen, flags, readBuf, ref, history>>,
         op'[s].lo = op[s].lo, op'[s].lo <= op'[s].hi,
         op'[s].at = "read" => op'[s].hi = readPos'[op[s].conn],
         op'[s].at = "got" =>
           \/ op'[s].rest = NoBytes /\ op'[s].hi = readPos'[op[s].conn]
           \/ /\ op'[s].ok /\ op'[s].mode = "line" /\ op'[s].hi < readPos'[op[s].conn]
              /\ op'[s].rest = Interval(op'[s].hi, readPos'[op[s].conn]),
         op'[s].at = "got" => op'[s].foreign = {} /\ op'[s].strays = {},
         AnswerFits(s)'
  PROVE  IInv'
<1> DEFINE o == op[s]
<1>1. /\ TypeOK /\ Fits(s) /\ o.conn \in Conns /\ life[o.conn] # "fresh" /\ o.conn \notin pool
      /\ o.lo = taken[o.conn]
  BY ReadingIs
<1>2. TypeOK'
  <2>1. op' \in [Socks -> Ops]
    BY <1>1 DEF TypeOK, Ops
  <2> QED BY <1>1, <2>1 DEF TypeOK, Ops
<1>3. Others(s)
  BY DEF Others, SameSock
<1>4. Fits(s)'
  <2>1. FlagsFit(s)' /\ DialFits(s)' /\ BufFits(s)'
    BY <1>1 DEF Fits, FlagsFit, DialFits, BufFits
  <2>2. ReadFits(s)'
    BY <1>1 DEF Fits, ReadFits, Spoilt
  <2> QED BY <2>1, <2>2 DEF Fits
<1>5. \A c \in Conns : SameConn(c) \/ Draws(s, c)
  BY DEF SameConn, Draws
<1>6. \A c \in Conns : Keeps(s, c)
  BY DEF Keeps, Holds, Carries
<1>7. ASSUME NEW c \in Conns PROVE ConnFits(c)'
  <2>3. readPos[c] \in Nat /\ readPos'[c] \in Nat /\ ConnFits(c)
    BY <1>1 DEF IInv, TypeOK, Positions
  <2>1. /\ readPos[c] \in Nat /\ readPos'[c] \in Nat /\ readPos'[c] >= readPos[c]
        /\ foreign[c] \subseteq 1..readPos[c] /\ ConnFits(c)
    BY <2>3 DEF ConnFits
  <2>2. foreign'[c] \subseteq 1..readPos'[c]
    BY <2>1
  <2> QED BY <1>1, <2>1, <2>2 DEF ConnFits, Unused
<1>8. \A c \in Conns : Draws(s, c)' => Draws(s, c)
  BY DEF Draws
<1> QED BY <1>2, <1>3, <1>4, <1>5, <1>6, <1>7, <1>8, StepKeeps

LEMMA ReadFailsKeeps ==
  ASSUME IInv, NEW s \in Socks, NEW why \in {"eof", "timeout", "error"}, ReadFails(s, why)
  PROVE  IInv'
<1> DEFINE o == op[s]
           ok == o.mode = "all" /\ why = "eof"
           e == [Got(o, ok, o.hi, NoBytes) EXCEPT !.shuts = (o.mode = "any" /\ why = "error")]
<1>1. /\ TypeOK /\ o.at = "read" /\ o \in Reading /\ o.conn \in Conns /\ o.size \in Nat
      /\ o.lo = taken[o.conn] /\ o.lo <= o.hi /\ o.hi = readPos[o.conn] /\ Lacks(o, o.conn)
      /\ readPos[o.conn] <= arrived[o.conn] /\ arrived[o.conn] \in Positions
      /\ o.mode \in {"line", "size", "all", "any"}
  BY ReadingIs DEF ReadFails
<1>2. /\ Post(s, e)
      /\ UNCHANGED <<connVars, bond, closed, gen, flags, readBuf, ref, history>>
  BY DEF ReadFails
<1>3. /\ op'[s] = e /\ \A t \in Socks \ {s} : op'[t] = op[t]
  BY <1>1, <1>2 DEF TypeOK
<1>4. /\ e.at = "got" /\ e.conn = o.conn /\ e.gen = o.gen /\ e.lo = o.lo /\ e.hi = o.hi
      /\ e.ok = ok /\ e.mode = o.mode /\ e.size = o.size /\ e.rest = NoBytes
      /\ e.foreign = {} /\ e.strays = {}
  BY DEF Got
<1>5. e \in GotBytes
  <2>1. ok \in BOOLEAN /\ (o.mode = "any" /\ why = "error") \in BOOLEAN /\ NoBytes \in Intervals
    BY DEF Intervals, Positions
  <2>2. /\ o.conn \in Conns /\ o.gen \in Nat /\ o.mode \in Modes /\ o.size \in Sizes \cup {0}
        /\ o.lo \in Positions /\ o.hi \in Positions
    BY <1>1 DEF Reading
  <2>3. Got(o, ok, o.hi, NoBytes) \in GotBytes
    BY <2>1, <2>2 DEF Got, GotBytes
  <2> HIDE DEF ok
  <2> QED BY <2>1, <2>3 DEF GotBytes
<1>6. ok => peer[o.conn] # "up" /\ o.hi = arrived[o.conn]
  <2>1. ok => AtEOF(o.conn)
    BY DEF ReadFails
  <2> QED BY <1>1, <2>1 DEF AtEOF
<1>7. AnswerFits(s)'
  <2>1. lineEnds' = lineEnds /\ peer' = peer /\ arrived' = arrived
    BY <1>2
  <2>2. CASE ok
    <3> HIDE DEF e
    <3>1. Fills(op[s], op[s].conn)'
      BY <1>3, <1>4, <1>6, <2>1, <2>2 DEF Fills
    <3> QED BY <1>3, <1>4, <2>2, <3>1 DEF AnswerFits
  <2>3. CASE ~ok
    <3> HIDE DEF e, ok
    <3>1. Lacks(op[s], op[s].conn)'
      BY <1>1, <1>2, <1>3, <1>4, <2>1 DEF Lacks, LineFeeds, Feeds
    <3> QED BY <1>3, <1>4, <2>3, <3>1 DEF AnswerFits
  <2> QED BY <2>2, <2>3
<1>8. readPos' = readPos /\ readPos \in [Conns -> Positions] /\ readPos[o.conn] \in Int
  BY <1>1, <1>2 DEF TypeOK, Positions
<1> HIDE DEF e, ok
<1>9. op' = [op EXCEPT ![s] = op'[s]] /\ op'[s] \in Ops
  BY <1>2, <1>3, <1>5 DEF Ops
<1>10. UNCHANGED <<life, arrived, peer, poolVars, bond, closed, gen, flags, readBuf, ref, history>>
  BY <1>2
<1>11. /\ op'[s].at = "got" /\ op'[s].conn = o.conn /\ op'[s].gen = o.gen /\ op'[s].lo = o.lo
       /\ op'[s].hi = o.hi /\ op'[s].rest = NoBytes /\ op'[s].foreign = {} /\ op'[s].strays = {}
  BY <1>3, <1>4
<1>12. /\ readPos' \in [Conns -> Positions] /\ readPos'[o.conn] >= readPos[o.conn]
       /\ readPos'[o.conn] <= arrived[o.conn] /\ op'[s].hi = readPos'[o.conn]
       /\ \A c \in Conns : c # o.conn => readPos'[c] = readPos[c]
       /\ op'[s].lo <= op'[s].hi
  BY <1>1, <1>8, <1>11
<1>13. op[s].at = "read" /\ \A t \in Socks \ {s} : op'[t] = op[t]
  BY <1>1, <1>3
<1> QED BY <1>7, <1>9, <1>10, <1>11, <1>12, <1>13, ReadStepKeeps


\* How much a Read may return.
LEMMA WantedIs ==
  ASSUME NEW o \in Reading, o.mode \in {"line", "size", "all", "any"}
  PROVE  /\ o.mode = "size" => Wanted(o) = o.size - (o.hi - o.lo)
         /\ o.mode = "any" => Wanted(o) = o.size
BY DEF Wanted

\* A Read that returns n bytes: the line ends in them, or they are what was
\* asked for, or the goroutine goes on.
LEMMA ReadChunkKeeps ==
  ASSUME IInv, NEW s \in Socks, NEW n \in 1..Len, ReadChunk(s, n)
  PROVE  IInv'
<1>1. PICK o : o = op[s]
  OBVIOUS
<1>2. PICK c : c = o.conn
  OBVIOUS
<1>3. PICK from : from = readPos[c]
  OBVIOUS
<1>4. PICK end : end = o.hi + n
  OBVIOUS
<1>5. /\ o.at = "read" /\ n <= arrived[c] - from /\ n <= Wanted(o)
      /\ readPos' = [readPos EXCEPT ![c] = from + n]
      /\ UNCHANGED <<life, arrived, peer, poolVars, bond, closed, gen, flags, readBuf, ref, history>>
  BY <1>1, <1>2, <1>3 DEF ReadChunk
<1>6. \/ /\ o.mode = "line" /\ LineFeeds(c, from, end) # {}
         /\ Post(s, Got(o, TRUE, FirstLF(c, from, end), Rest(FirstLF(c, from, end), end)))
      \/ /\ o.mode = "any" \/ (o.mode = "size" /\ n = Wanted(o))
         /\ Post(s, Got(o, TRUE, end, NoBytes))
      \/ /\ \/ o.mode = "line" /\ LineFeeds(c, from, end) = {}
            \/ o.mode = "size" /\ n < Wanted(o)
            \/ o.mode = "all"
         /\ Post(s, [o EXCEPT !.hi = end])
  <2>1. from + n = end
    BY <1>1, <1>2, <1>3, <1>4, <1>5, ReadingIs
  <2> QED BY <1>1, <1>2, <1>3, <1>4, <2>1 DEF ReadChunk
<1>7. /\ TypeOK /\ o \in Reading /\ c \in Conns /\ o.lo \in Nat /\ o.hi \in Nat /\ o.size \in Nat
      /\ o.mode \in {"line", "size", "all", "any"}
      /\ o.lo = taken[c] /\ o.lo <= o.hi /\ o.hi = from /\ Lacks(o, c)
      /\ arrived[c] \in Positions
  BY <1>1, <1>2, <1>3, <1>5, ReadingIs DEF Positions, TypeOK
<1>8. end \in Positions /\ end = from + n /\ end <= arrived[c] /\ from < end /\ o.lo < end
  BY <1>4, <1>5, <1>7 DEF Positions
<1>9. /\ readPos' \in [Conns -> Positions] /\ readPos'[c] = end
      /\ \A d \in Conns : d # c => readPos'[d] = readPos[d]
  BY <1>5, <1>7, <1>8 DEF TypeOK
<1>10. lineEnds' = lineEnds /\ peer' = peer /\ arrived' = arrived
  BY <1>5
<1>11. ASSUME NEW e, op' = [op EXCEPT ![s] = e], e \in Ops, e.at \in {"read", "got"},
              e.conn = c, e.gen = o.gen, e.lo = o.lo, e.lo <= e.hi,
              e.at = "read" => e.hi = end /\ Lacks(e, c),
              e.at = "got" => /\ e.ok /\ Fills(e, c) /\ e.foreign = {} /\ e.strays = {}
                              /\ \/ e.rest = NoBytes /\ e.hi = end
                                 \/ /\ e.mode = "line" /\ e.hi < end
                                    /\ e.rest = Interval(e.hi, end)
       PROVE  IInv'
  <2>1. op'[s] = e /\ \A t \in Socks \ {s} : op'[t] = op[t]
    BY <1>7, <1>11 DEF TypeOK
  <2>2. AnswerFits(s)'
    BY <1>5, <1>10, <1>11, <2>1 DEF AnswerFits, Lacks, Fills, LineFeeds, Feeds
  <2>3. /\ op'[s].at \in {"read", "got"} /\ op'[s] \in Ops /\ op'[s].conn = op[s].conn
        /\ op'[s].gen = op[s].gen /\ op'[s].lo = op[s].lo /\ op'[s].lo <= op'[s].hi
        /\ op' = [op EXCEPT ![s] = op'[s]]
    BY <1>1, <1>2, <1>11, <2>1
  <2>4. /\ op'[s].at = "read" => op'[s].hi = readPos'[op[s].conn]
        /\ op'[s].at = "got" =>
             \/ op'[s].rest = NoBytes /\ op'[s].hi = readPos'[op[s].conn]
             \/ /\ op'[s].ok /\ op'[s].mode = "line" /\ op'[s].hi < readPos'[op[s].conn]
                /\ op'[s].rest = Interval(op'[s].hi, readPos'[op[s].conn])
        /\ op'[s].at = "got" => op'[s].foreign = {} /\ op'[s].strays = {}
    BY <1>1, <1>2, <1>9, <1>11, <2>1
  <2>5. /\ op[s].at = "read" /\ readPos'[op[s].conn] >= readPos[op[s].conn]
        /\ readPos'[op[s].conn] <= arrived[op[s].conn]
        /\ \A d \in Conns : d # op[s].conn => readPos'[d] = readPos[d]
    BY <1>1, <1>2, <1>3, <1>5, <1>7, <1>8, <1>9
  <2> QED BY <1>5, <1>9, <2>1, <2>2, <2>3, <2>4, <2>5, ReadStepKeeps
<1> DEFINE G(hi, rest) == Got(o, TRUE, hi, rest)
<1>12. ASSUME NEW hi \in Positions, NEW rest \in Intervals
       PROVE  LET e == G(hi, rest) IN
              /\ e \in Ops /\ e.at = "got" /\ e.conn = c /\ e.gen = o.gen /\ e.mode = o.mode
              /\ e.size = o.size /\ e.ok /\ e.lo = o.lo /\ e.hi = hi /\ e.rest = rest
              /\ e.foreign = {} /\ e.strays = {}
  <2>1. LET e == G(hi, rest) IN
        /\ e.at = "got" /\ e.conn = c /\ e.gen = o.gen /\ e.mode = o.mode
        /\ e.size = o.size /\ e.ok /\ e.lo = o.lo /\ e.hi = hi /\ e.rest = rest
              /\ e.foreign = {} /\ e.strays = {}
    BY <1>2 DEF Got
  <2>2. /\ o.conn \in Conns /\ o.gen \in Nat /\ o.mode \in Modes /\ o.size \in Sizes \cup {0}
        /\ o.lo \in Positions
    BY <1>7 DEF Reading
  <2>3. G(hi, rest) \in GotBytes
    BY <2>2 DEF Got, GotBytes
  <2> HIDE DEF G
  <2> QED BY <2>1, <2>3 DEF Ops
<1>13. CASE o.mode = "line" /\ LineFeeds(c, from, end) # {}
            /\ Post(s, Got(o, TRUE, FirstLF(c, from, end), Rest(FirstLF(c, from, end), end)))
  <2>1. PICK lf : lf = FirstLF(c, from, end)
    OBVIOUS
  <2>2. lf \in Feeds(c) /\ lf \in from + 1 .. end /\ LineFeeds(c, from, lf - 1) = {}
    BY <1>7, <1>8, <1>13, <2>1, FirstLFIs DEF Positions
  <2>3. LineFeeds(c, o.lo, lf - 1) = {}
    BY <1>7, <1>13, <2>2 DEF Lacks, LineFeeds
  <2>4. PICK e : e = G(lf, Rest(lf, end))
    OBVIOUS
  <2>5. lf \in Positions /\ Rest(lf, end) \in Intervals
    BY <1>7, <1>8, <2>2 DEF Positions, Rest, Intervals
  <2>6. /\ e \in Ops /\ e.at = "got" /\ e.conn = c /\ e.gen = o.gen /\ e.mode = o.mode
        /\ e.size = o.size /\ e.ok /\ e.lo = o.lo /\ e.hi = lf /\ e.rest = Rest(lf, end)
        /\ e.foreign = {} /\ e.strays = {}
    <3> HIDE DEF G
    <3> QED BY <1>12, <2>4, <2>5
  <2>7. \/ e.rest = NoBytes /\ e.hi = end
        \/ e.mode = "line" /\ e.hi < end /\ e.rest = Interval(e.hi, end)
    BY <1>7, <1>8, <1>13, <2>2, <2>6 DEF Rest, Positions
  <2>9. e.lo < e.hi /\ e.lo <= e.hi
    BY <1>7, <1>8, <2>2, <2>6 DEF Positions
  <2>8. Fills(e, c)
    BY <1>13, <2>2, <2>3, <2>6, <2>9 DEF Fills
  <2>10. op' = [op EXCEPT ![s] = e]
    BY <1>13, <2>1, <2>4
  <2> QED BY <1>11, <2>6, <2>7, <2>8, <2>9, <2>10
<1>14. CASE (o.mode = "any" \/ (o.mode = "size" /\ n = Wanted(o))) /\ Post(s, Got(o, TRUE, end, NoBytes))
  <2>1. PICK e : e = G(end, NoBytes)
    OBVIOUS
  <2>2. NoBytes \in Intervals
    BY DEF Intervals, Positions
  <2>3. /\ e \in Ops /\ e.at = "got" /\ e.conn = c /\ e.gen = o.gen /\ e.mode = o.mode
        /\ e.size = o.size /\ e.ok /\ e.lo = o.lo /\ e.hi = end /\ e.rest = NoBytes
        /\ e.foreign = {} /\ e.strays = {}
    <3> HIDE DEF G
    <3> QED BY <1>8, <1>12, <2>1, <2>2
  <2>4. /\ o.mode = "any" => end - o.lo \in 1..o.size
        /\ o.mode = "size" => end - o.lo = o.size
    BY <1>4, <1>5, <1>7, <1>8, <1>14, WantedIs DEF Lacks
  <2>5. Fills(e, c)
    BY <1>14, <2>3, <2>4 DEF Fills
  <2>6. op' = [op EXCEPT ![s] = e]
    BY <1>14, <2>1
  <2>7. e.lo <= e.hi
    BY <1>7, <1>8, <2>3 DEF Positions
  <2> QED BY <1>11, <2>3, <2>5, <2>6, <2>7
<1>15. CASE /\ \/ o.mode = "line" /\ LineFeeds(c, from, end) = {}
               \/ o.mode = "size" /\ n < Wanted(o)
               \/ o.mode = "all"
            /\ Post(s, [o EXCEPT !.hi = end])
  <2>1. PICK e : e = [o EXCEPT !.hi = end]
    OBVIOUS
  <2>2. /\ e \in Reading /\ e.at = "read" /\ e.conn = c /\ e.gen = o.gen /\ e.mode = o.mode
        /\ e.size = o.size /\ e.lo = o.lo /\ e.hi = end
    BY <1>2, <1>5, <1>7, <1>8, <2>1 DEF Reading
  <2>3. /\ o.mode = "line" => LineFeeds(c, o.lo, end) = {}
        /\ o.mode = "size" => end - o.lo < o.size
    BY <1>4, <1>7, <1>8, <1>15, WantedIs DEF Lacks, LineFeeds
  <2>4. Lacks(e, c)
    BY <1>15, <2>2, <2>3 DEF Lacks
  <2>5. op' = [op EXCEPT ![s] = e] /\ e.lo <= e.hi /\ e \in Ops
    BY <1>7, <1>8, <1>15, <2>1, <2>2 DEF Positions, Ops
  <2> QED BY <1>11, <2>2, <2>4, <2>5
<1> QED BY <1>6, <1>13, <1>14, <1>15

\* A connect whose socket was finalized closes its connection, another one
\* gives it to the socket.
LEMMA ConnectResumesKeeps ==
  ASSUME IInv, NEW s \in Socks, ConnectResumes(s)
  PROVE  IInv'
<1> DEFINE c == op[s].conn
<1>1. /\ TypeOK /\ Fits(s) /\ op[s].at = "dialed" /\ c \in Conns \cup {NoConn} /\ ~HasConn(s)
      /\ op[s].gen \in Nat
  BY OpShapes DEF IInv, ConnectResumes, Fits, DialFits
<1>2. c \in Conns => Holds(s, c) /\ life[c] = "open" /\ c \notin pool /\ Unused(c)
  BY <1>1 DEF IInv, Owned, Holds, Carries, Fits, DialFits
<1>3. /\ op'[s] = NoOp /\ op' \in [Socks -> Ops] /\ \A t \in Socks \ {s} : op'[t] = op[t]
      /\ connecting'[s] = FALSE /\ connecting' \in [Socks -> BOOLEAN]
      /\ \A t \in Socks \ {s} : connecting'[t] = connecting[t]
      /\ UNCHANGED <<arrived, readPos, peer, poolVars, closed, gen, reading, readBuf, ref, history>>
  BY <1>1 DEF ConnectResumes, TypeOK, Ops
<1>4. op'[s].at = "none" /\ ~reading[s]
  BY <1>1, <1>3 DEF Fits, FlagsFit, TypeOK
<1>5. CASE c = NoConn
  <2>1. life' = life /\ UNCHANGED bond
    BY <1>5 DEF ConnectResumes
  <2>2. TypeOK'
    BY <1>1, <1>3, <2>1 DEF TypeOK, Ops
  <2>3. Others(s)
    BY <1>3, <2>1 DEF Others, SameSock
  <2>4. FlagsFit(s)' /\ BufFits(s)'
    BY <1>1, <1>3, <1>4, <2>1 DEF Fits, FlagsFit, BufFits
  <2>5. \A d \in Conns : SameConn(d) /\ Keeps(s, d)
    BY <1>1, <1>3, <1>5, <2>1 DEF SameConn, Keeps, Holds, Carries
  <2>6. \A d \in Conns : ConnFits(d)'
    BY <1>3, <2>1 DEF IInv, ConnFits, Unused
  <2> QED BY <1>3, <1>4, <2>2, <2>3, <2>4, <2>5, <2>6, IdleFits, StepKeeps DEF Fits
<1>6. CASE c # NoConn /\ Stale(s)
  <2>1. life' = [life EXCEPT ![c] = "closed"] /\ UNCHANGED bond
    BY <1>6 DEF ConnectResumes
  <2>2. /\ life' \in [Conns -> {"fresh", "open", "closed"}]
        /\ \A d \in Conns : life'[d] = IF d = c THEN "closed" ELSE life[d]
    BY <1>1, <2>1 DEF TypeOK
  <2>3. TypeOK'
    BY <1>1, <1>3, <2>1, <2>2 DEF TypeOK, Ops
  <2>4. Others(s)
    BY <1>3, <2>1 DEF Others, SameSock
  <2>5. FlagsFit(s)' /\ BufFits(s)'
    BY <1>1, <1>3, <1>4, <2>1 DEF Fits, FlagsFit, BufFits
  <2>6. \A d \in Conns : SameConn(d) \/ Holds(s, d)
    BY <1>1, <1>2, <1>3, <1>6, <2>2 DEF SameConn
  <2>7. \A d \in Conns : Keeps(s, d) \/ Shuts(s, d)
    BY <1>1, <1>2, <1>3, <1>6, <2>1, <2>2 DEF Keeps, Shuts, Free, Holds, Carries
  <2>8. \A d \in Conns : ConnFits(d)'
    BY <1>3, <2>2 DEF IInv, ConnFits, Unused
  <2> QED BY <1>3, <1>4, <2>3, <2>4, <2>5, <2>6, <2>7, <2>8, IdleFits, StepKeeps DEF Fits
<1>7. CASE c # NoConn /\ ~Stale(s)
  <2>1. /\ life' = life /\ reusedTimes' = [reusedTimes EXCEPT ![s] = 0]
        /\ conn' = [conn EXCEPT ![s] = c] /\ connected' = [connected EXCEPT ![s] = TRUE]
    BY <1>7 DEF ConnectResumes
  <2>2. /\ reusedTimes'[s] = 0 /\ reusedTimes' \in [Socks -> Nat]
        /\ conn'[s] = c /\ conn' \in [Socks -> Conns \cup {NoConn}]
        /\ connected'[s] = TRUE /\ connected' \in [Socks -> BOOLEAN]
        /\ \A t \in Socks \ {s} : /\ reusedTimes'[t] = reusedTimes[t] /\ conn'[t] = conn[t]
                                  /\ connected'[t] = connected[t]
    BY <1>1, <2>1 DEF TypeOK
  <2>3. TypeOK'
    BY <1>1, <1>3, <2>1, <2>2 DEF TypeOK, Ops
  <2>4. Others(s)
    BY <1>3, <2>2 DEF Others, SameSock
  <2>5. ~closed[s] /\ ~Unread(s)
    BY <1>1, <1>7 DEF Stale, Fits, FlagsFit
  <2>6. FlagsFit(s)'
    BY <1>1, <1>3, <1>4, <1>7, <2>2, <2>5 DEF FlagsFit
  <2>7. BufFits(s)'
    BY <1>1, <1>2, <1>3, <1>7, <2>2, <2>5 DEF BufFits, Unused
  <2>8. \A d \in Conns : SameConn(d) /\ Keeps(s, d)
    BY <1>1, <1>3, <1>7, <2>1, <2>2 DEF SameConn, Keeps, Holds, Carries
  <2>9. \A d \in Conns : ConnFits(d)'
    BY <1>3, <2>1 DEF IInv, ConnFits, Unused
  <2> QED BY <1>3, <1>4, <2>3, <2>4, <2>6, <2>7, <2>8, <2>9, IdleFits, StepKeeps DEF Fits
<1> QED BY <1>5, <1>6, <1>7

\* The receive that an event has the answer of.
LEMMA GotIs ==
  ASSUME IInv, NEW s \in Socks, op[s].at = "got"
  PROVE  LET o == op[s] IN
         /\ TypeOK /\ Fits(s) /\ o \in GotBytes /\ o.conn \in Conns /\ Draws(s, o.conn)
         /\ o.lo \in Positions /\ o.hi \in Positions /\ o.rest \in Intervals /\ Spoilt(o)
         /\ [mode |-> o.mode, size |-> o.size, ok |-> o.ok, lo |-> o.lo, hi |-> o.hi] \in Results
         /\ o.lo = taken[o.conn] /\ o.lo <= o.hi /\ o.hi <= readPos[o.conn]
         /\ readPos[o.conn] <= arrived[o.conn]
         /\ readPos[o.conn] \in Positions /\ arrived[o.conn] \in Positions
         /\ life[o.conn] # "fresh" /\ o.conn \notin pool /\ ~Unread(s)
         /\ closed[s] => ~HasConn(s) /\ life[o.conn] = "closed"
         /\ ~closed[s] => conn[s] = o.conn /\ o.gen = gen[s]
         /\ ~connecting[s]
<1> DEFINE o == op[s]
<1>1. /\ TypeOK /\ Fits(s) /\ o \in GotBytes /\ o.conn \in Conns /\ Draws(s, o.conn)
      /\ ConnFits(o.conn)
  BY OpShapes DEF IInv, Draws
<1>2. o.conn \notin pool
  BY <1>1, NotInUse
<1>3. /\ o.lo \in Positions /\ o.hi \in Positions /\ o.rest \in Intervals
      /\ o.mode \in Modes /\ o.size \in Sizes \cup {0} /\ o.ok \in BOOLEAN
  BY <1>1 DEF GotBytes
<1>4. [mode |-> o.mode, size |-> o.size, ok |-> o.ok, lo |-> o.lo, hi |-> o.hi] \in Results
  BY <1>3 DEF Results
<1>5. readPos[o.conn] \in Positions /\ arrived[o.conn] \in Positions
  BY <1>1 DEF TypeOK
<1>6. /\ o.lo = taken[o.conn] /\ o.lo <= o.hi
      /\ o.hi = readPos[o.conn] \/ o.hi < readPos[o.conn]
      /\ life[o.conn] # "fresh" /\ ~Unread(s)
      /\ closed[s] => life[o.conn] = "closed"
      /\ ~closed[s] => conn[s] = o.conn /\ o.gen = gen[s]
      /\ Spoilt(o)
  BY <1>1 DEF Fits, ReadFits
<1>7. (closed[s] => ~HasConn(s)) /\ ~connecting[s]
  BY <1>1 DEF Fits, FlagsFit
<1>8. readPos[o.conn] <= arrived[o.conn]
  BY <1>1 DEF ConnFits
<1>9. o.hi <= readPos[o.conn]
  BY <1>3, <1>5, <1>6 DEF Positions
<1> QED BY <1>1, <1>2, <1>3, <1>4, <1>5, <1>6, <1>7, <1>8, <1>9

\* What the end of a receive changes in any case.
LEMMA DoneIs ==
  ASSUME IInv, NEW s \in Socks, op[s].at = "got", DoneReading(s), op' = [op EXCEPT ![s] = NoOp]
  PROVE  /\ op'[s] = NoOp /\ op'[s].at = "none" /\ op' \in [Socks -> Ops]
         /\ reading'[s] = FALSE /\ reading' \in [Socks -> BOOLEAN]
         /\ \A t \in Socks \ {s} : op'[t] = op[t] /\ reading'[t] = reading[t]
         /\ \A c \in Conns : (Holds(s, c) <=> conn[s] = c) /\ (Holds(s, c)' <=> conn'[s] = c)
<1>1. TypeOK
  BY DEF IInv
<1>2. /\ op'[s] = NoOp /\ op'[s].at = "none" /\ op' \in [Socks -> Ops]
      /\ \A t \in Socks \ {s} : op'[t] = op[t]
  BY <1>1 DEF TypeOK, Ops
<1>3. /\ reading'[s] = FALSE /\ reading' \in [Socks -> BOOLEAN]
      /\ \A t \in Socks \ {s} : reading'[t] = reading[t]
  BY <1>1 DEF TypeOK, DoneReading
<1>4. \A c \in Conns : (Holds(s, c) <=> conn[s] = c) /\ (Holds(s, c)' <=> conn'[s] = c)
  BY <1>2 DEF Holds, Carries
<1> QED BY <1>2, <1>3, <1>4

\* What Lua code receives was read; nothing else of the connections changes.
LEMMA DeliversIs ==
  ASSUME IInv, NEW s \in Socks, op[s].at = "got", Delivers(op[s])
  PROVE  /\ taken' \in [Conns -> Positions] /\ result' \in [Conns -> Results]
         /\ taken'[op[s].conn] = op[s].hi
         /\ \A d \in Conns \ {op[s].conn} : taken'[d] = taken[d]
<1> DEFINE o == op[s]
           r == [mode |-> o.mode, size |-> o.size, ok |-> o.ok, lo |-> o.lo, hi |-> o.hi]
<1>1. TypeOK /\ o.conn \in Conns /\ o.hi \in Positions /\ r \in Results
  BY GotIs
<1>2. result' = [result EXCEPT ![o.conn] = r] /\ taken' = [taken EXCEPT ![o.conn] = o.hi]
  BY DEF Delivers
<1> HIDE DEF r
<1> QED BY <1>1, <1>2 DEF TypeOK

\* What was written over the rest of a line lies behind the line, in what was read.
LEMMA SpoiltIs ==
  ASSUME IInv, NEW s \in Socks, op[s].at = "got"
  PROVE  LET o == op[s]
             c == op[s].conn IN
         /\ o.foreign \subseteq o.hi + 1 .. readPos[c] /\ o.foreign \subseteq 1..readPos[c]
         /\ o.strays \subseteq o.foreign
         /\ readPos[c] \in 0..Len /\ foreign[c] \subseteq 1..readPos[c]
<1> DEFINE o == op[s]
           c == op[s].conn
<1>4. /\ TypeOK /\ Fits(s) /\ c \in Conns /\ Spoilt(o)
      /\ o.hi \in Positions /\ readPos[c] \in Positions
  BY GotIs
<1>1. /\ TypeOK /\ Fits(s) /\ c \in Conns /\ Spoilt(o) /\ o.hi \in Nat
      /\ readPos[c] \in 0..Len /\ ConnFits(c)
  BY <1>4 DEF IInv, Positions
<1>2. \/ o.rest = NoBytes /\ o.hi = readPos[c]
      \/ o.hi < readPos[c] /\ o.rest = Interval(o.hi, readPos[c])
  BY <1>1 DEF Fits, ReadFits
<1>3. o.foreign \subseteq o.hi + 1 .. readPos[c]
  BY <1>1, <1>2 DEF Spoilt
<1>5. o.foreign \subseteq 1..readPos[c]
  BY <1>1, <1>3
<1> QED BY <1>1, <1>3, <1>5 DEF Spoilt, ConnFits

\* The socket has what was read and not received, also the rest of a line mode
\* receive; one that was finalized has nothing.
LEMMA ReceiveSucceedsKeeps ==
  ASSUME IInv, NEW s \in Socks, ReceiveSucceeds(s)
  PROVE  IInv'
<1> DEFINE o == op[s]
           c == op[s].conn
<1>1. op[s].at = "got" /\ o.ok /\ DoneReading(s) /\ op' = [op EXCEPT ![s] = NoOp]
      /\ UNCHANGED <<connVars, bond, closed, gen, connecting, ref, lineEnds, takes>>
  BY DEF ReceiveSucceeds
<1>2. /\ TypeOK /\ Fits(s) /\ c \in Conns /\ c \notin pool /\ life[c] # "fresh" /\ ~Unread(s)
      /\ closed[s] => ~HasConn(s)
      /\ ~closed[s] => conn[s] = c /\ o.gen = gen[s]
      /\ ~connecting[s] /\ Draws(s, c) /\ o.rest \in Intervals
  BY <1>1, GotIs
<1>3. /\ op'[s] = NoOp /\ op'[s].at = "none" /\ op' \in [Socks -> Ops]
      /\ reading'[s] = FALSE /\ reading' \in [Socks -> BOOLEAN]
      /\ \A t \in Socks \ {s} : op'[t] = op[t] /\ reading'[t] = reading[t]
      /\ \A d \in Conns : (Holds(s, d) <=> conn[s] = d) /\ (Holds(s, d)' <=> conn'[s] = d)
  BY <1>1, DoneIs
<1>4. \A d \in Conns : Keeps(s, d)
  BY <1>1, <1>3 DEF Keeps
<1>5. CASE Stale(s)
  <2>1. UNCHANGED <<readBuf, foreign, strays, taken, result>> /\ closed[s]
    BY <1>2, <1>5 DEF ReceiveSucceeds, Stale
  <2>2. TypeOK'
    BY <1>1, <1>2, <1>3, <2>1 DEF TypeOK, Ops
  <2>3. Others(s)
    BY <1>1, <1>3, <2>1 DEF Others, SameSock
  <2>4. FlagsFit(s)' /\ BufFits(s)'
    BY <1>1, <1>2, <1>3, <2>1 DEF Fits, FlagsFit, BufFits
  <2>5. \A d \in Conns : SameConn(d) /\ ConnFits(d)'
    BY <1>1, <2>1 DEF IInv, SameConn, ConnFits, Unused
  <2> QED BY <1>1, <1>3, <1>4, <2>2, <2>3, <2>4, <2>5, IdleFits, StepKeeps DEF Fits
<1>6. CASE ~Stale(s)
  <2>1. /\ Delivers(o) /\ ~closed[s] /\ conn[s] = c
        /\ readBuf' = [readBuf EXCEPT ![s] = IF o.mode = "line" THEN o.rest ELSE @]
        /\ \/ UNCHANGED <<foreign, strays>>
           \/ /\ foreign' = [foreign EXCEPT ![c] = @ \cup o.foreign]
              /\ strays' = [strays EXCEPT ![c] = @ \cup o.strays]
    <3>1. Delivers(o) /\ ~closed[s] /\ conn[s] = c
      BY <1>2, <1>6 DEF ReceiveSucceeds, Stale
    <3>2. CASE o.mode = "line"
      BY <1>6, <3>1, <3>2 DEF ReceiveSucceeds, PutsBack
    <3>3. CASE o.mode # "line"
      BY <1>2, <1>6, <3>1, <3>3 DEF ReceiveSucceeds, TypeOK
    <3> QED BY <3>1, <3>2, <3>3
  <2>2. /\ taken' \in [Conns -> Positions] /\ result' \in [Conns -> Results] /\ taken'[c] = o.hi
        /\ \A d \in Conns \ {c} : taken'[d] = taken[d]
    BY <1>1, <2>1, DeliversIs
  <2>3. /\ readBuf' \in [Socks -> Intervals]
        /\ readBuf'[s] = IF o.mode = "line" THEN o.rest ELSE readBuf[s]
        /\ \A t \in Socks \ {s} : readBuf'[t] = readBuf[t]
    BY <1>2, <2>1 DEF TypeOK
  <2>12. /\ foreign' \in [Conns -> SUBSET (1..Len)] /\ strays' \in [Conns -> SUBSET (1..Len)]
         /\ \A d \in Conns \ {c} : foreign'[d] = foreign[d] /\ strays'[d] = strays[d]
         /\ foreign'[c] \subseteq 1..readPos[c]
    <3>1. /\ o.foreign \subseteq 1..readPos[c] /\ o.strays \subseteq o.foreign
          /\ readPos[c] \in 0..Len /\ foreign[c] \subseteq 1..readPos[c]
      BY <1>1, SpoiltIs
    <3>2. o.foreign \in SUBSET (1..Len) /\ o.strays \in SUBSET (1..Len)
      BY <3>1
    <3>3. CASE UNCHANGED <<foreign, strays>>
      BY <1>2, <3>1, <3>3 DEF TypeOK
    <3>4. CASE /\ foreign' = [foreign EXCEPT ![c] = @ \cup o.foreign]
               /\ strays' = [strays EXCEPT ![c] = @ \cup o.strays]
      <4>1. /\ foreign[c] \cup o.foreign \in SUBSET (1..Len)
            /\ strays[c] \cup o.strays \in SUBSET (1..Len)
            /\ foreign[c] \cup o.foreign \subseteq 1..readPos[c]
        BY <1>2, <3>1, <3>2 DEF TypeOK
      <4> HIDE DEF c, o
      <4> QED BY <1>2, <3>4, <4>1 DEF TypeOK
    <3> QED BY <2>1, <3>3, <3>4
  <2>4. TypeOK'
    BY <1>1, <1>2, <1>3, <2>2, <2>3, <2>12 DEF TypeOK, Ops
  <2>5. Others(s)
    BY <1>1, <1>3, <2>3 DEF Others, SameSock
  <2>6. FlagsFit(s)'
    BY <1>1, <1>2, <1>3, <2>1 DEF Fits, FlagsFit
  <2>7. \/ o.rest = NoBytes /\ o.hi = readPos[c]
        \/ o.mode = "line" /\ o.hi < readPos[c] /\ o.rest = Interval(o.hi, readPos[c])
    BY <1>1, <1>2 DEF Fits, ReadFits
  <2>8. \/ ~Unread(s)' /\ o.hi = readPos[c]
        \/ Unread(s)' /\ readBuf'[s] = Interval(o.hi, readPos[c])
    BY <1>2, <2>3, <2>7
  <2>9. BufFits(s)'
    <3>1. reusedTimes[s] = takes[c]
      BY <1>2, <2>1 DEF Fits, BufFits
    <3> QED BY <1>1, <1>2, <1>3, <2>1, <2>2, <2>8, <3>1 DEF BufFits
  <2>10. \A d \in Conns : SameConn(d) \/ Draws(s, d)
    BY <1>1, <1>2, <2>2, <2>12 DEF SameConn
  <2>11. \A d \in Conns : ConnFits(d)'
    BY <1>1, <1>2, <2>2, <2>12 DEF IInv, ConnFits, Unused
  <2> QED BY <1>1, <1>3, <1>4, <2>4, <2>5, <2>6, <2>9, <2>10, <2>11, IdleFits, StepKeeps DEF Fits
<1> QED BY <1>5, <1>6

\* A receive that failed delivers what it had read; in receiveany, an error of
\* the connection closes it.
LEMMA ReceiveFailsKeeps ==
  ASSUME IInv, NEW s \in Socks, ReceiveFails(s)
  PROVE  IInv'
<1> DEFINE o == op[s]
           c == op[s].conn
           shut == o.shuts /\ ~closed[s]
<1>1. /\ op[s].at = "got" /\ ~o.ok /\ DoneReading(s) /\ op' = [op EXCEPT ![s] = NoOp]
      /\ Delivers(o)
      /\ UNCHANGED <<arrived, readPos, peer, poolVars, closed, reusedTimes, connecting, ref,
                     bytes, takes>>
  BY DEF ReceiveFails
<1>2. /\ TypeOK /\ Fits(s) /\ c \in Conns /\ c \notin pool /\ life[c] # "fresh" /\ ~Unread(s)
      /\ closed[s] => ~HasConn(s)
      /\ ~closed[s] => conn[s] = c /\ o.gen = gen[s]
      /\ ~connecting[s] /\ Draws(s, c) /\ o.rest \in Intervals
  BY <1>1, GotIs
<1>3. /\ op'[s] = NoOp /\ op'[s].at = "none" /\ op' \in [Socks -> Ops]
      /\ reading'[s] = FALSE /\ reading' \in [Socks -> BOOLEAN]
      /\ \A t \in Socks \ {s} : op'[t] = op[t] /\ reading'[t] = reading[t]
      /\ \A d \in Conns : (Holds(s, d) <=> conn[s] = d) /\ (Holds(s, d)' <=> conn'[s] = d)
  BY <1>1, DoneIs
<1>4. /\ taken' \in [Conns -> Positions] /\ result' \in [Conns -> Results] /\ taken'[c] = readPos[c]
      /\ \A d \in Conns \ {c} : taken'[d] = taken[d]
  BY <1>1, <1>2, DeliversIs DEF Fits, ReadFits
<1>5. CASE shut
  <2>1. /\ ClosesOwn(s) /\ conn' = [conn EXCEPT ![s] = NoConn]
        /\ connected' = [connected EXCEPT ![s] = FALSE]
        /\ readBuf' = [readBuf EXCEPT ![s] = NoBytes]
        /\ gen' = [gen EXCEPT ![s] = @ + 1]
    BY <1>5 DEF ReceiveFails
  <2>2. /\ life' \in [Conns -> {"fresh", "open", "closed"}]
        /\ \A d \in Conns : life'[d] = IF d = c THEN "closed" ELSE life[d]
    BY <1>2, <1>5, <2>1, ClosesOwnIs
  <2>3. /\ conn'[s] = NoConn /\ conn' \in [Socks -> Conns \cup {NoConn}]
        /\ connected'[s] = FALSE /\ connected' \in [Socks -> BOOLEAN]
        /\ readBuf'[s] = NoBytes /\ gen' \in [Socks -> Nat]
        /\ \A t \in Socks \ {s} : /\ conn'[t] = conn[t] /\ connected'[t] = connected[t]
                                  /\ readBuf'[t] = readBuf[t] /\ gen'[t] = gen[t]
    BY <1>2, <2>1 DEF TypeOK
  <2>4. readBuf' \in [Socks -> Intervals]
    <3>1. NoBytes \in Intervals
      BY DEF Intervals, Positions
    <3> QED BY <1>2, <2>1, <3>1 DEF TypeOK
  <2>5. TypeOK'
    BY <1>1, <1>2, <1>3, <1>4, <2>2, <2>3, <2>4 DEF TypeOK, Ops
  <2>6. Others(s)
    BY <1>1, <1>3, <2>3 DEF Others, SameSock
  <2>7. FlagsFit(s)' /\ BufFits(s)'
    BY <1>1, <1>2, <1>3, <1>5, <2>3 DEF FlagsFit, BufFits
  <2>8. \A d \in Conns : SameConn(d) \/ Draws(s, d)
    BY <1>1, <1>2, <1>4, <2>2 DEF SameConn
  <2>9. \A d \in Conns : Keeps(s, d) \/ Shuts(s, d)
    BY <1>1, <1>2, <1>3, <1>5, <2>2, <2>3 DEF Keeps, Shuts, Free
  <2>10. \A d \in Conns : ConnFits(d)'
    BY <1>1, <1>2, <1>4, <2>2 DEF IInv, ConnFits, Unused
  <2> QED BY <1>1, <1>3, <2>5, <2>6, <2>7, <2>8, <2>9, <2>10, IdleFits, StepKeeps DEF Fits
<1>6. CASE ~shut
  <2>1. UNCHANGED <<life, conn, connected, readBuf, gen>>
    BY <1>6 DEF ReceiveFails
  <2>2. TypeOK'
    BY <1>1, <1>2, <1>3, <1>4, <2>1 DEF TypeOK, Ops
  <2>3. Others(s)
    BY <1>1, <1>3, <2>1 DEF Others, SameSock
  <2>4. FlagsFit(s)'
    BY <1>1, <1>2, <1>3, <2>1 DEF Fits, FlagsFit
  <2>5. BufFits(s)'
    BY <1>1, <1>2, <1>3, <1>4, <2>1 DEF Fits, BufFits
  <2>6. \A d \in Conns : SameConn(d) \/ Draws(s, d)
    BY <1>1, <1>2, <1>4, <2>1 DEF SameConn
  <2>7. \A d \in Conns : Keeps(s, d)
    BY <1>1, <1>3, <2>1 DEF Keeps
  <2>8. \A d \in Conns : ConnFits(d)'
    BY <1>1, <1>2, <1>4, <2>1 DEF IInv, ConnFits, Unused
  <2> QED BY <1>1, <1>3, <2>2, <2>3, <2>4, <2>5, <2>6, <2>7, <2>8, IdleFits, StepKeeps DEF Fits
<1> QED BY <1>5, <1>6

\* Another receive writes into the buffer behind the line of an event.
LEMMA BufferReusedKeeps ==
  ASSUME IInv, NEW s \in Socks, BufferReused(s)
  PROVE  IInv'
<1>1. PICK o : o = op[s]
  OBVIOUS
<1>2. PICK there \in SUBSET (o.rest.lo + 1 .. o.rest.hi) \ {{}} : \E lfs \in SUBSET there :
        Post(s, [o EXCEPT !.foreign = @ \cup there, !.strays = (@ \ there) \cup lfs])
  BY <1>1 DEF BufferReused
<1>3. PICK lfs \in SUBSET there :
        Post(s, [o EXCEPT !.foreign = @ \cup there, !.strays = (@ \ there) \cup lfs])
  BY <1>2
<1>4. PICK e : e = [o EXCEPT !.foreign = @ \cup there, !.strays = (@ \ there) \cup lfs]
  OBVIOUS
<1>5. /\ TypeOK /\ Fits(s) /\ o \in GotBytes /\ o.at = "got" /\ o.conn \in Conns /\ Draws(s, o.conn)
      /\ o.hi \in Nat /\ readPos[o.conn] \in 0..Len /\ Spoilt(o)
      /\ o.foreign \subseteq o.hi + 1 .. readPos[o.conn] /\ o.strays \subseteq o.foreign
  <2>1. op[s].at = "got"
    BY DEF BufferReused
  <2>2. /\ TypeOK /\ Fits(s) /\ o \in GotBytes /\ o.at = "got" /\ o.conn \in Conns
        /\ Draws(s, o.conn) /\ o.hi \in Positions /\ Spoilt(o)
    BY <1>1, <2>1, GotIs
  <2>3. /\ readPos[o.conn] \in 0..Len
        /\ o.foreign \subseteq o.hi + 1 .. readPos[o.conn] /\ o.strays \subseteq o.foreign
    BY <1>1, <2>1, SpoiltIs
  <2> QED BY <2>2, <2>3 DEF Positions
<1>6. \/ o.rest = NoBytes
      \/ o.rest = Interval(o.hi, readPos[o.conn])
  BY <1>1, <1>5 DEF Fits, ReadFits
<1>7. /\ e.at = "got" /\ e.conn = o.conn /\ e.gen = o.gen /\ e.mode = o.mode /\ e.size = o.size
      /\ e.ok = o.ok /\ e.lo = o.lo /\ e.hi = o.hi /\ e.rest = o.rest /\ e.shuts = o.shuts
      /\ e.foreign = o.foreign \cup there /\ e.strays = (o.strays \ there) \cup lfs
  BY <1>4, <1>5 DEF GotBytes
<1>8. there \subseteq o.hi + 1 .. o.rest.hi
  BY <1>2, <1>5, <1>6
<1>9. Spoilt(e)
  BY <1>3, <1>5, <1>7, <1>8 DEF Spoilt
<1>10. e \in GotBytes
  <2>1. there \subseteq 1..Len
    BY <1>2, <1>5, <1>6
  <2>2. o.foreign \cup there \in SUBSET (1..Len) /\ (o.strays \ there) \cup lfs \in SUBSET (1..Len)
    BY <1>3, <1>5, <2>1 DEF GotBytes
  <2> QED BY <1>4, <1>5, <2>2 DEF GotBytes
<1>11. /\ op'[s] = e /\ \A t \in Socks \ {s} : op'[t] = op[t]
       /\ op' \in [Socks -> Ops]
       /\ UNCHANGED <<connVars, bond, closed, gen, flags, readBuf, ref, history>>
  BY <1>3, <1>4, <1>5, <1>10 DEF BufferReused, TypeOK, Ops
<1>12. TypeOK'
  BY <1>5, <1>11 DEF TypeOK, Ops
<1>13. Others(s)
  BY <1>11 DEF Others, SameSock
<1>14. Fits(s)'
  <2>1. FlagsFit(s)' /\ DialFits(s)' /\ BufFits(s)'
    BY <1>1, <1>5, <1>7, <1>11 DEF Fits, FlagsFit, DialFits, BufFits
  <2>2. ReadFits(s)'
    BY <1>1, <1>5, <1>7, <1>9, <1>11 DEF Fits, ReadFits, Spoilt
  <2>3. AnswerFits(s)'
    BY <1>1, <1>5, <1>7, <1>11 DEF Fits, AnswerFits, Lacks, Fills, LineFeeds, Feeds
  <2> QED BY <2>1, <2>2, <2>3 DEF Fits
<1>15. \A d \in Conns : SameConn(d) /\ Keeps(s, d)
  BY <1>1, <1>5, <1>7, <1>11 DEF SameConn, Keeps, Holds, Carries
<1>16. \A d \in Conns : ConnFits(d)' /\ (Draws(s, d)' => Draws(s, d))
  BY <1>1, <1>5, <1>7, <1>11 DEF IInv, ConnFits, Unused, Draws
<1>17. lineEnds' = lineEnds
  BY <1>11
<1> QED BY <1>12, <1>13, <1>14, <1>15, <1>16, <1>17, StepKeeps

LEMMA StutterKeeps ==
  ASSUME IInv, UNCHANGED vars
  PROVE  IInv'
<1> USE DEF vars
<1>1. TypeOK' /\ lineEnds' = lineEnds
  BY DEF IInv, TypeOK
<1>2. /\ \A t \in Socks : SameSock(t)
      /\ \A c \in Conns : SameConn(c) /\ ((c \in pool)' <=> c \in pool)
  BY DEF SameSock, SameConn
<1>3. \A c \in Conns : ConnFits(c)'
  BY DEF IInv, ConnFits, Unused
<1> QED BY <1>1, <1>2, <1>3, OutsideKeeps

LEMMA InitHolds == Init => IInv
<1> SUFFICES ASSUME Init PROVE IInv
  OBVIOUS
<1> USE DEF Init
<1>1. TypeOK
  <2>1. Nothing \in Results /\ NoBytes \in Intervals
    BY DEF Nothing, Results, Intervals, Positions
  <2>2. 0 \in Positions
    BY DEF Positions
  <2>3. /\ readBuf \in [Socks -> Intervals] /\ result \in [Conns -> Results]
        /\ op \in [Socks -> Ops]
    BY <2>1 DEF Ops
  <2> QED BY <2>2, <2>3 DEF TypeOK, Ops
<1>2. \A s \in Socks : Fits(s)
  BY DEF Fits, FlagsFit, DialFits, ReadFits, BufFits, AnswerFits
<1>3. \A c \in Conns : ConnFits(c)
  BY DEF ConnFits, Unused
<1>4. Owned
  BY DEF Owned, Holds, Carries
<1>5. ReadersApart
  BY DEF ReadersApart, Draws
<1> QED BY <1>1, <1>2, <1>3, <1>4, <1>5 DEF IInv

LEMMA NextKeeps == IInv /\ [Next]_vars => IInv'
<1> SUFFICES ASSUME IInv, Next PROVE IInv'
  BY StutterKeeps
<1>1. CASE Outside
  BY <1>1, ArriveKeeps, PeerEndsKeeps, OtherParksKeeps, PoolClosesKeeps, DrainKeeps DEF Outside
<1>2. ASSUME NEW s \in Socks, Receives(s) PROVE IInv'
  BY <1>2, ReceiveBufferedKeeps, ReceiveReadsKeeps DEF Receives, SizesOf
<1>3. ASSUME NEW s \in Socks, Method(s) PROVE IInv'
  BY <1>2, <1>3, ConnectRefusedKeeps, ConnectDialsKeeps, ConnectPooledKeeps, CloseKeeps,
     SetKeepaliveKeeps, ForgetKeeps DEF Method
<1>4. ASSUME NEW s \in Socks, Goroutine(s) PROVE IInv'
  BY <1>4, DialedKeeps, DialFailsKeeps, ReadChunkKeeps, ReadFailsKeeps, BufferReusedKeeps DEF Goroutine
<1>5. ASSUME NEW s \in Socks, OnResume(s) \/ Gc(s) PROVE IInv'
  BY <1>5, ConnectResumesKeeps, ReceiveSucceedsKeeps, ReceiveFailsKeeps, GcKeeps DEF OnResume
<1> QED BY <1>1, <1>3, <1>4, <1>5 DEF Next

-----------------------------------------------------------------------------
(* The properties.                                                         *)

\* The inductive invariant holds in every state that TcpSocket reaches.
THEOREM Invariance == Spec => []IInv
BY InitHolds, NextKeeps, PTL DEF Spec

\* Every variable has its type, whatever the streams, modes and sizes.
THEOREM TypeCorrect == Spec => []TypeOK
<1>1. IInv => TypeOK
  BY DEF IInv
<1> QED BY <1>1, Invariance, PTL

\* An open connection has one owner, that will close or park it, and a socket
\* that was closed, parked or finalized has none.
THEOREM Ownership == Spec => []OwnershipExact
<1>1. IInv => OwnershipExact
  BY OwnedIs DEF IInv, Fits, FlagsFit, OwnershipExact, ClosedHoldsNothing
<1> QED BY <1>1, Invariance, PTL

\* As many bytes as Read has returned reach the users of a connection, none is lost or
\* doubled, a parked connection holds none that was overwritten, a socket is not busy
\* between calls, and reuses are counted.
THEOREM KeepsOwn == Spec => []KeepsItsOwn
<1>1. ASSUME IInv PROVE KeepsItsOwn
  <2>1. TypeOK /\ (\A s \in Socks : Fits(s)) /\ \A c \in Conns : ConnFits(c)
    BY <1>1 DEF IInv
  <2>2. ParkedRead
    <3> SUFFICES ASSUME NEW c \in pool
                 PROVE  taken[c] = readPos[c] /\ foreign[c] \subseteq 1..taken[c]
      BY DEF ParkedRead
    <3> QED BY <2>1 DEF ConnFits, TypeOK
  <2>3. NeverBusy
    BY <2>1 DEF NeverBusy, Fits, FlagsFit
  <2>4. ReuseCounted
    BY <2>1 DEF ReuseCounted, Fits, BufFits, ConnFits, TypeOK
  <2>5. StreamKept
    <3>5. \A s \in Socks : conn[s] = NoConn => ~Unread(s)
      BY <2>1 DEF Fits, FlagsFit
    <3> SUFFICES ASSUME NEW s \in Socks, conn[s] # NoConn
                 PROVE  LET c == conn[s]
                            o == op[s]
                        IN  CASE o.at = "read" -> o.lo = taken[c] /\ o.hi = readPos[c]
                              [] o.at = "got"  -> /\ o.lo = taken[c]
                                                  /\ IF o.rest = NoBytes THEN o.hi = readPos[c]
                                                     ELSE o.rest = Interval(o.hi, readPos[c])
                              [] OTHER -> IF Unread(s) THEN readBuf[s] = Interval(taken[c], readPos[c])
                                          ELSE taken[c] = readPos[c]
      BY <3>5 DEF StreamKept
    <3>1. HasConn(s) /\ ~closed[s] /\ FlagsFit(s) /\ ReadFits(s) /\ BufFits(s)
      BY <2>1 DEF Fits, FlagsFit
    <3>2. CASE op[s].at = "read"
      <4>1. op[s].lo = taken[conn[s]] /\ op[s].hi = readPos[conn[s]]
        BY <3>1, <3>2 DEF ReadFits
      <4> QED BY <3>2, <4>1
    <3>3. CASE op[s].at = "got"
      <4>1. /\ op[s].lo = taken[conn[s]]
            /\ \/ op[s].rest = NoBytes /\ op[s].hi = readPos[conn[s]]
               \/ /\ op[s].hi < readPos[conn[s]]
                  /\ op[s].rest = Interval(op[s].hi, readPos[conn[s]])
        BY <3>1, <3>3 DEF ReadFits
      <4>2. op[s].hi \in Nat /\ readPos[conn[s]] \in Nat
        BY <2>1, <3>3, OpShapes DEF TypeOK, Positions
      <4>3. op[s].hi < readPos[conn[s]] => Interval(op[s].hi, readPos[conn[s]]) # NoBytes
        BY <4>2
      <4> QED BY <3>3, <4>1, <4>3
    <3>4. CASE op[s].at \notin {"read", "got"}
      BY <3>1, <3>4 DEF BufFits
    <3> QED BY <3>2, <3>3, <3>4
  <2> QED BY <2>2, <2>3, <2>4, <2>5 DEF KeepsItsOwn
<1> QED BY <1>1, Invariance, PTL

-----------------------------------------------------------------------------
(* TcpSocket implements ByteStream.                                        *)

Ended == {c \in Conns : peer[c] # "up"}
Simulates == [Promise!Next]_(Promise!vars)

\* Steps that neither the peers nor Lua code sees.
LEMMA QuietStep ==
  ASSUME UNCHANGED <<bytes, arrived, peer, taken, result>>
  PROVE  Simulates
BY DEF Simulates, Promise!vars

\* What receive returns is what ByteStream lets it return.
LEMMA ReceiveStep ==
  ASSUME TypeOK, NEW c \in Conns, NEW r,
         result' = [result EXCEPT ![c] = r], taken' = [taken EXCEPT ![c] = r.hi],
         UNCHANGED <<lineEnds, arrived, peer>>,
         \/ r.ok /\ r.mode = "line" /\ Promise!SpoilsAfter(c, r.hi)
         \/ UNCHANGED <<foreign, strays>>,
         r.mode \in {"line", "size", "all", "any"},
         r.lo \in Nat, r.hi \in Nat, arrived[c] \in Nat,
         r.lo = taken[c], r.lo <= r.hi, r.hi <= arrived[c],
         IF r.ok THEN Fills(r, c) ELSE Lacks(r, c)
  PROVE  Simulates
<1>1. result'[c] = r /\ result' = [result EXCEPT ![c] = result'[c]]
  BY DEF TypeOK
<1>2. PICK q : q = result'[c]
  OBVIOUS
<1>3. /\ q.hi \in taken[c]..arrived[c] /\ q.lo = taken[c] /\ q.lo \in Nat /\ q.hi \in Nat
      /\ taken' = [taken EXCEPT ![c] = q.hi]
      /\ q.mode \in {"line", "size", "all", "any"}
  BY <1>1, <1>2
<1>4. q.ok => Fills(q, c)
  BY <1>1, <1>2
<1>5. ~q.ok => Lacks(q, c)
  BY <1>1, <1>2
<1>10. \A lo, hi : Promise!LineFeeds(c, lo, hi) = LineFeeds(c, lo, hi)
  BY DEF Promise!LineFeeds, Promise!Feeds, LineFeeds, Feeds
<1>6. q.ok => Promise!Complete(q, c)
  <2> SUFFICES ASSUME q.ok PROVE Promise!Complete(q, c)
    OBVIOUS
  <2>1. CASE q.mode = "line"
    <3>1. q.lo < q.hi /\ q.hi \in Feeds(c) /\ LineFeeds(c, q.lo, q.hi - 1) = {}
      BY <1>4, <2>1 DEF Fills
    <3>2. q.hi \in q.lo + 1 .. q.hi
      BY <1>3, <3>1
    <3> QED BY <1>10, <2>1, <3>1, <3>2 DEF Promise!Complete, LineFeeds
  <2>2. CASE q.mode # "line"
    BY <1>3, <1>4, <2>2 DEF Promise!Complete, Fills
  <2> QED BY <2>1, <2>2
<1>7. ~q.ok => Promise!Partial(q, c)
  BY <1>3, <1>5, <1>10 DEF Promise!Partial, Lacks
<1>9. \/ q.ok /\ q.mode = "line" /\ Promise!SpoilsAfter(c, q.hi)
      \/ UNCHANGED <<foreign, strays>>
  BY <1>1, <1>2
<1>8. Promise!Receive(c)
  BY <1>1, <1>2, <1>3, <1>6, <1>7, <1>9 DEF Promise!Receive
<1> QED BY <1>8 DEF Simulates, Promise!Next

LEMMA ArriveMaps ==
  ASSUME IInv, NEW c \in Conns, Arrive(c)
  PROVE  Simulates
<1>1. TypeOK /\ arrived[c] \in Positions /\ arrived[c] < Len
  BY DEF IInv, TypeOK, Arrive
<1>2. PICK n : n = arrived[c] + 1
  OBVIOUS
<1>3. n \in arrived[c] + 1 .. Len /\ arrived' = [arrived EXCEPT ![c] = n]
  BY <1>1, <1>2 DEF Arrive, Positions
<1>4. c \notin Ended /\ Ended' = Ended /\ UNCHANGED <<bytes, taken, result>>
  BY DEF Arrive, Ended
<1>5. Promise!Send(c)
  BY <1>3, <1>4 DEF Promise!Send, Ended
<1> QED BY <1>5 DEF Simulates, Promise!Next

LEMMA PeerEndsMaps ==
  ASSUME IInv, NEW c \in Conns, PeerEnds(c)
  PROVE  Simulates
<1>1. peer'[c] # "up" /\ \A d \in Conns \ {c} : peer'[d] = peer[d]
  BY DEF IInv, TypeOK, PeerEnds
<1>2. Ended' = Ended \cup {c} /\ UNCHANGED <<bytes, arrived, taken, result>>
  BY <1>1 DEF Ended, PeerEnds
<1>3. Promise!End(c)
  BY <1>2 DEF Promise!End, Ended
<1> QED BY <1>3 DEF Simulates, Promise!Next

\* receive from the buffer.
LEMMA ReceiveBufferedMaps ==
  ASSUME IInv, NEW s \in Socks, NEW mode \in Modes, NEW size \in SizesOf(mode),
         ReceiveBuffered(s, mode, size)
  PROVE  Simulates
<1> DEFINE b == readBuf[s]
           end == BufferedEnd(s, mode, size)
           r == [mode |-> mode, size |-> size, ok |-> TRUE, lo |-> b.lo, hi |-> end]
<1>1. PICK c \in Conns : c = conn[s]
  BY BufferedIs DEF ReceiveBuffered
<1>2. /\ TypeOK /\ ConnFits(c) /\ b = Interval(taken[c], readPos[c]) /\ end \in b.lo + 1 .. b.hi
      /\ taken[c] \in Positions /\ readPos[c] \in Positions /\ arrived[c] \in Positions
      /\ Fills(r, c)
  BY <1>1, BufferedIs DEF ReceiveBuffered, IInv, TypeOK
<1>3. result' = [result EXCEPT ![c] = r] /\ taken' = [taken EXCEPT ![c] = r.hi]
      /\ UNCHANGED <<lineEnds, arrived, peer>> /\ UNCHANGED <<foreign, strays>>
  BY <1>1 DEF ReceiveBuffered, Gives
<1>4. /\ r.lo \in Nat /\ r.hi \in Nat /\ arrived[c] \in Nat
      /\ r.lo = taken[c] /\ r.lo <= r.hi /\ r.hi <= arrived[c]
  BY <1>2 DEF ConnFits, Positions
<1>5. r.mode \in {"line", "size", "all", "any"} /\ r.ok
  BY ModesAssumption
<1> HIDE DEF r
<1> QED BY <1>2, <1>3, <1>4, <1>5, ReceiveStep

\* receive resumed with the bytes that the goroutine has read.
LEMMA DeliversMaps ==
  ASSUME IInv, NEW s \in Socks, op[s].at = "got", Delivers(op[s]), UNCHANGED <<lineEnds, arrived, peer>>,
         \/ op[s].ok /\ op[s].mode = "line" /\ Promise!SpoilsAfter(op[s].conn, op[s].hi)
         \/ UNCHANGED <<foreign, strays>>
  PROVE  Simulates
<1> DEFINE o == op[s]
           r == [mode |-> o.mode, size |-> o.size, ok |-> o.ok, lo |-> o.lo, hi |-> o.hi]
<1>1. PICK c \in Conns : c = o.conn
  BY GotIs
<1>2. /\ TypeOK /\ Fits(s) /\ o \in GotBytes /\ o.lo \in Positions /\ o.hi \in Positions
      /\ o.lo = taken[c] /\ o.lo <= o.hi /\ o.hi <= readPos[c] /\ readPos[c] <= arrived[c]
      /\ readPos[c] \in Positions /\ arrived[c] \in Positions
  BY <1>1, GotIs
<1>3. result' = [result EXCEPT ![c] = r] /\ taken' = [taken EXCEPT ![c] = r.hi]
  BY <1>1 DEF Delivers
<1>4. r.lo = o.lo /\ r.hi = o.hi /\ r.mode = o.mode /\ r.size = o.size /\ r.ok = o.ok
  OBVIOUS
<1>5. IF o.ok THEN Fills(o, c) ELSE Lacks(o, c)
  BY <1>1, <1>2 DEF Fits, AnswerFits
<1>6. IF r.ok THEN Fills(r, c) ELSE Lacks(r, c)
  <2> HIDE DEF r
  <2> QED BY <1>4, <1>5 DEF Fills, Lacks
<1>7. /\ r.lo \in Nat /\ r.hi \in Nat /\ arrived[c] \in Nat
      /\ r.lo = taken[c] /\ r.lo <= r.hi /\ r.hi <= arrived[c]
  BY <1>2, <1>4 DEF Positions
<1>8. o.mode \in Modes
  BY <1>2 DEF GotBytes
<1>9. r.mode \in {"line", "size", "all", "any"}
  BY <1>4, <1>8, ModesAssumption
<1>10. \/ r.ok /\ r.mode = "line" /\ Promise!SpoilsAfter(c, r.hi)
       \/ UNCHANGED <<foreign, strays>>
  BY <1>1, <1>4
<1> HIDE DEF r
<1> QED BY <1>2, <1>3, <1>6, <1>7, <1>9, <1>10, ReceiveStep

\* What line mode puts back differs from what was read only behind the line.
LEMMA PutsBackSpoils ==
  ASSUME IInv, NEW s \in Socks, op[s].at = "got", PutsBack(s)
  PROVE  Promise!SpoilsAfter(op[s].conn, op[s].hi)
<1> DEFINE o == op[s]
           c == op[s].conn
<1>1. /\ o.foreign \subseteq o.hi + 1 .. readPos[c] /\ o.strays \subseteq o.foreign
      /\ o.hi \in Nat /\ readPos[c] \in Nat /\ arrived[c] \in Nat /\ readPos[c] <= arrived[c]
  <2>1. o.foreign \subseteq o.hi + 1 .. readPos[c] /\ o.strays \subseteq o.foreign
    BY SpoiltIs
  <2>2. /\ o.hi \in Positions /\ readPos[c] \in Positions /\ arrived[c] \in Positions
        /\ readPos[c] <= arrived[c]
    BY GotIs
  <2> QED BY <2>1, <2>2 DEF Positions
<1>2. o.foreign \subseteq o.hi + 1 .. arrived[c]
  BY <1>1
<1>3. /\ foreign' = [foreign EXCEPT ![c] = @ \cup o.foreign]
      /\ strays' = [strays EXCEPT ![c] = @ \cup o.strays]
  BY DEF PutsBack
<1> QED BY <1>1, <1>2, <1>3 DEF Promise!SpoilsAfter

LEMMA InitMaps == Init => Promise!Init
BY DEF Init, Promise!Init

LEMMA NextMaps == IInv /\ [Next]_vars => [Promise!Next]_(Promise!vars)
<1> SUFFICES ASSUME IInv, [Next]_vars PROVE Simulates
  BY DEF Simulates
<1>1. CASE UNCHANGED vars
  BY <1>1, QuietStep DEF vars
<1>2. CASE Outside
  <2>1. ASSUME NEW c \in Conns, OtherParks(c) \/ PoolCloses(c) PROVE Simulates
    BY <2>1, QuietStep DEF OtherParks, PoolCloses
  <2>2. ASSUME Drain PROVE Simulates
    BY <2>2, QuietStep DEF Drain
  <2> QED BY <1>2, <2>1, <2>2, ArriveMaps, PeerEndsMaps DEF Outside
<1>3. ASSUME NEW s \in Socks, Method(s) PROVE Simulates
  <2>1. CASE ConnectRefused(s) \/ ConnectDials(s) \/ Close(s) \/ SetKeepalive(s) \/ Forget(s)
    BY <2>1, QuietStep DEF ConnectRefused, ConnectDials, Close, SetKeepalive, Forget
  <2>2. ASSUME NEW c \in Conns, ConnectPooled(s, c) PROVE Simulates
    BY <2>2, QuietStep DEF ConnectPooled
  <2>3. ASSUME NEW mode, NEW size, ReceiveReads(s, mode, size) PROVE Simulates
    BY <2>3, QuietStep DEF ReceiveReads
  <2>4. CASE Receives(s)
    BY <2>3, <2>4, ReceiveBufferedMaps DEF Receives, SizesOf
  <2> QED BY <1>3, <2>1, <2>2, <2>4 DEF Method
<1>4. ASSUME NEW s \in Socks, Goroutine(s) PROVE Simulates
  <2>1. ASSUME NEW n, ReadChunk(s, n) PROVE Simulates
    BY <2>1, QuietStep DEF ReadChunk
  <2>2. ASSUME NEW why, ReadFails(s, why) PROVE Simulates
    BY <2>2, QuietStep DEF ReadFails
  <2>3. ASSUME DialFails(s) \/ \E c \in Conns : Dialed(s, c) PROVE Simulates
    BY <2>3, QuietStep DEF DialFails, Dialed
  <2>4. ASSUME BufferReused(s) PROVE Simulates
    BY <2>4, QuietStep DEF BufferReused
  <2> QED BY <1>4, <2>1, <2>2, <2>3, <2>4 DEF Goroutine
<1>5. ASSUME NEW s \in Socks, ConnectResumes(s) \/ Gc(s) PROVE Simulates
  BY <1>5, QuietStep DEF ConnectResumes, Gc
<1>6. ASSUME NEW s \in Socks, ReceiveSucceeds(s) PROVE Simulates
  <2>1. CASE Stale(s)
    BY <1>6, <2>1, QuietStep DEF ReceiveSucceeds
  <2>2. CASE ~Stale(s)
    <3>1. /\ op[s].at = "got" /\ op[s].ok /\ Delivers(op[s]) /\ UNCHANGED <<lineEnds, arrived, peer>>
          /\ (op[s].mode = "line" /\ PutsBack(s)) \/ UNCHANGED <<foreign, strays>>
      BY <1>6, <2>2 DEF ReceiveSucceeds
    <3>2. \/ op[s].ok /\ op[s].mode = "line" /\ Promise!SpoilsAfter(op[s].conn, op[s].hi)
          \/ UNCHANGED <<foreign, strays>>
      BY <3>1, PutsBackSpoils
    <3> QED BY <3>1, <3>2, DeliversMaps
  <2> QED BY <2>1, <2>2
<1>7. ASSUME NEW s \in Socks, ReceiveFails(s) PROVE Simulates
  BY <1>7, DeliversMaps DEF ReceiveFails
<1> QED BY <1>1, <1>2, <1>3, <1>4, <1>5, <1>6, <1>7 DEF Next, OnResume

\* Every receive takes the next bytes of the stream and nothing else, what it returns
\* is complete or less than was asked for, and only the bytes behind a line that was
\* received may be overwritten, as ByteStream describes.
THEOREM Refinement == Spec => KeepsPromise
BY Invariance, InitMaps, NextMaps, PTL DEF Spec, KeepsPromise, Promise!Spec
=============================================================================
