----------------------------- MODULE TcpSocket -----------------------------
(***************************************************************************)
(* TCP cosockets (tcp_socket.go).  A method checks the flags of its socket *)
(* and either answers at once or starts a goroutine and yields; the        *)
(* goroutine posts a resume event whose OnResume callback changes the      *)
(* socket on the Lua thread.  Meanwhile the garbage collector may finalize *)
(* a socket that Lua code no longer refers to.                             *)
(*                                                                         *)
(* The bytes of a connection are represented by their positions: a buffer  *)
(* or a result [lo, hi] stands for the bytes lo+1..hi of the stream.  What *)
(* stands at a position may be another byte than the peer sent: what       *)
(* follows a line waits for its callback in a buffer that has already gone *)
(* back to socketBufPool, from which any receive takes its own.            *)
(*                                                                         *)
(* A socket belongs to one Lua thread, which is suspended while an         *)
(* operation of the socket is under way; methods called by other threads   *)
(* are refused and change nothing.  Connections of the pool come and go as *)
(* ConnService lets them.                                                  *)
(***************************************************************************)
EXTENDS Integers, FiniteSets

CONSTANTS
  Socks,    \* sockets
  Conns,    \* connections
  NoConn,   \* nil
  Len,      \* bytes that a peer sends at most
  Modes,    \* of receive, and receiveany
  Sizes     \* arguments of receive(n) and receiveany(n)

ASSUME SocketsAssumption == NoConn \notin Conns
ASSUME BytesAssumption   == Len \in Nat /\ Sizes \subseteq Nat \ {0}
ASSUME ModesAssumption   == Modes \subseteq {"line", "size", "all", "any"}

VARIABLES
  \* connections
  life,       \* "fresh", "open" or "closed", at this end
  arrived,    \* bytes in the kernel, or read
  readPos,    \* bytes that Read has returned
  peer,       \* "up", "eof" or "reset"
  pool,       \* parked connections
  reused,     \* of each connection: the count in its last entry of the pool
  tcpPoolsClosed,
  \* sockets
  conn, connected, closed, gen, connecting, reading, readBuf, reusedTimes,
  ref,        \* whether Lua code refers to the userdata
  op,         \* the goroutine of the socket, or its event
  \* what stands at the positions of a connection
  lineEnds,   \* line feeds, as the peers send them
  foreign,    \* of each connection: bytes that another receive has written
  strays,     \* of each connection: line feeds among these
  \* history
  taken,      \* of each connection: bytes handed to Lua code
  takes,      \* of each connection: how often it was taken from the pool
  result      \* of each connection: what the last receive returned

poolVars == <<pool, reused, tcpPoolsClosed>>
connVars == <<life, arrived, readPos, peer, poolVars>>
flags    == <<connecting, reading>>
bond     == <<conn, connected, reusedTimes>>
sockVars == <<bond, closed, gen, flags, readBuf, ref, op>>
bytes    == <<lineEnds, foreign, strays>>
history  == <<bytes, taken, takes, result>>
vars     == <<connVars, sockVars, history>>

Interval(lo, hi) == [lo |-> lo, hi |-> hi]
NoBytes == Interval(0, 0)
Unread(s) == readBuf[s].lo < readBuf[s].hi

NoOp == [at |-> "none"]
Nothing == [mode |-> "none", size |-> 0, ok |-> FALSE, lo |-> 0, hi |-> 0]

Init ==
  /\ life = [c \in Conns |-> "fresh"]
  /\ arrived = [c \in Conns |-> 0]
  /\ readPos = [c \in Conns |-> 0]
  /\ peer = [c \in Conns |-> "up"]
  /\ pool = {}
  /\ reused = [c \in Conns |-> 0]
  /\ tcpPoolsClosed = FALSE
  /\ conn = [s \in Socks |-> NoConn]
  /\ connected = [s \in Socks |-> FALSE]
  /\ reusedTimes = [s \in Socks |-> 0]
  /\ closed = [s \in Socks |-> FALSE]
  /\ gen = [s \in Socks |-> 0]
  /\ connecting = [s \in Socks |-> FALSE]
  /\ reading = [s \in Socks |-> FALSE]
  /\ readBuf = [s \in Socks |-> NoBytes]
  /\ ref = [s \in Socks |-> "held"]
  /\ op = [s \in Socks |-> NoOp]
  /\ lineEnds \in SUBSET (1..Len)
  /\ foreign = [c \in Conns |-> {}]
  /\ strays = [c \in Conns |-> {}]
  /\ taken = [c \in Conns |-> 0]
  /\ takes = [c \in Conns |-> 0]
  /\ result = [c \in Conns |-> Nothing]

----------------------------------------------------------------------------
(* The peer and the pool *)

Arrive(c) ==
  /\ life[c] = "open" /\ peer[c] = "up"
  /\ arrived[c] < Len
  /\ arrived' = [arrived EXCEPT ![c] = @ + 1]
  /\ UNCHANGED <<life, readPos, peer, poolVars, sockVars, history>>

PeerEnds(c) ==
  /\ life[c] = "open" /\ peer[c] = "up"
  /\ \E how \in {"eof", "reset"} : peer' = [peer EXCEPT ![c] = how]
  /\ UNCHANGED <<life, arrived, readPos, poolVars, sockVars, history>>

CloseConn(c) == life' = [life EXCEPT ![c] = "closed"]

\* a socket that is not among Socks parks the connection that it dialled
OtherParks(c) ==
  /\ ~tcpPoolsClosed
  /\ life[c] = "fresh"
  /\ life' = [life EXCEPT ![c] = "open"]
  /\ pool' = pool \cup {c}
  /\ UNCHANGED <<arrived, readPos, peer, reused, tcpPoolsClosed, sockVars, history>>

\* a watcher or an eviction closes a parked connection
PoolCloses(c) ==
  /\ c \in pool
  /\ pool' = pool \ {c}
  /\ CloseConn(c)
  /\ UNCHANGED <<arrived, readPos, peer, reused, tcpPoolsClosed, sockVars, history>>

\* drainTCPPools
Drain ==
  /\ ~tcpPoolsClosed
  /\ tcpPoolsClosed' = TRUE
  /\ pool' = {}
  /\ life' = [c \in Conns |-> IF c \in pool THEN "closed" ELSE life[c]]
  /\ UNCHANGED <<arrived, readPos, peer, reused, sockVars, history>>

----------------------------------------------------------------------------
(* Methods called by the owner thread *)

Busy(s) == connecting[s] \/ reading[s]

\* the owner runs and has the socket, which is neither closed nor busy
CanCall(s) ==
  /\ op[s].at = "none"
  /\ ref[s] = "held"
  /\ ~closed[s]
  /\ ~Busy(s)

Usable(s) == CanCall(s) /\ connected[s]

\* A method that yields may leave the socket without a reference: the caller
\* of golapis.socket.tcp():connect(...) has none of its own.
MayForget(s) == \E kept \in {"held", "dropped"} : ref' = [ref EXCEPT ![s] = kept]

Forget(s) ==
  /\ op[s].at = "none"
  /\ ref[s] = "held"
  /\ ref' = [ref EXCEPT ![s] = "dropped"]
  /\ UNCHANGED <<connVars, bond, closed, gen, flags, readBuf, op, history>>

\* Slip: the buffer of the old connection stays.
LeavesOldKeepsBuf(s) ==
  /\ life' = [c \in Conns |-> IF c = conn[s] THEN "closed" ELSE life[c]]
  /\ gen' = [gen EXCEPT ![s] = IF connected[s] THEN @ + 1 ELSE @]
  /\ UNCHANGED readBuf

\* Slip: the old connection is not closed.
LeavesOldOpen(s) ==
  /\ UNCHANGED life
  /\ gen' = [gen EXCEPT ![s] = IF connected[s] THEN @ + 1 ELSE @]
  /\ readBuf' = [readBuf EXCEPT ![s] = IF connected[s] THEN NoBytes ELSE @]

\* connect closes the connection that the socket already has
LeavesOld(s) ==
  /\ life' = [c \in Conns |-> IF c = conn[s] THEN "closed" ELSE life[c]]
  /\ gen' = [gen EXCEPT ![s] = IF connected[s] THEN @ + 1 ELSE @]
  /\ readBuf' = [readBuf EXCEPT ![s] = IF connected[s] THEN NoBytes ELSE @]

\* bad arguments are found after the old connection was closed
ConnectRefused(s) ==
  /\ CanCall(s)
  /\ LeavesOld(s)
  /\ conn' = [conn EXCEPT ![s] = NoConn]
  /\ connected' = [connected EXCEPT ![s] = FALSE]
  /\ UNCHANGED <<arrived, readPos, peer, poolVars, closed, reusedTimes, flags, ref, op, history>>

\* a pooled connection, with its count
ConnectPooled(s, c) ==
  /\ CanCall(s)
  /\ c \in pool
  /\ LeavesOld(s)
  /\ pool' = pool \ {c}
  /\ conn' = [conn EXCEPT ![s] = c]
  /\ connected' = [connected EXCEPT ![s] = TRUE]
  /\ reusedTimes' = [reusedTimes EXCEPT ![s] = reused[c] + 1]
  /\ takes' = [takes EXCEPT ![c] = @ + 1]
  /\ UNCHANGED <<arrived, readPos, peer, reused, tcpPoolsClosed, closed, flags, ref, op,
                 bytes, taken, result>>

ConnectDials(s) ==
  /\ CanCall(s)
  /\ LeavesOld(s)
  /\ conn' = [conn EXCEPT ![s] = NoConn]
  /\ connected' = [connected EXCEPT ![s] = FALSE]
  /\ connecting' = [connecting EXCEPT ![s] = TRUE]
  /\ op' = [op EXCEPT ![s] = [at |-> "dial", gen |-> gen'[s]]]
  /\ MayForget(s)
  /\ UNCHANGED <<arrived, readPos, peer, poolVars, closed, reusedTimes, reading, history>>

Gives(s, mode, size, ok, lo, hi) ==
  /\ result' = [result EXCEPT ![conn[s]] =
       [mode |-> mode, size |-> size, ok |-> ok, lo |-> lo, hi |-> hi]]
  /\ taken' = [taken EXCEPT ![conn[s]] = hi]

\* where the socket finds line feeds, and the next among the bytes lo+1..hi
Feeds(c) == (lineEnds \ foreign[c]) \cup strays[c]
LineFeeds(c, lo, hi) == Feeds(c) \cap (lo + 1 .. hi)
FirstLF(c, lo, hi) ==
  CHOOSE n \in LineFeeds(c, lo, hi) : \A m \in LineFeeds(c, lo, hi) : n <= m

Least(a, b) == IF a < b THEN a ELSE b

\* what the buffer holds for a receive, and where that ends
Buffered(s, mode, size) ==
  CASE mode = "line" -> LineFeeds(conn[s], readBuf[s].lo, readBuf[s].hi) # {}
    [] mode = "size" -> readBuf[s].hi - readBuf[s].lo >= size
    [] mode = "any"  -> Unread(s)
    [] OTHER         -> FALSE

\* Slip: receiveany does not look at how much there is.
BufferedEndUncut(s, mode, size) ==
  LET b == readBuf[s] IN
  IF mode = "line" THEN FirstLF(conn[s], b.lo, b.hi) ELSE b.lo + size

BufferedEnd(s, mode, size) ==
  LET b == readBuf[s] IN
  IF mode = "line" THEN FirstLF(conn[s], b.lo, b.hi) ELSE Least(b.lo + size, b.hi)

Rest(lo, hi) == IF lo < hi THEN Interval(lo, hi) ELSE NoBytes

ReceiveBuffered(s, mode, size) ==
  /\ Usable(s)
  /\ Buffered(s, mode, size)
  /\ LET end == BufferedEnd(s, mode, size) IN
       /\ Gives(s, mode, size, TRUE, readBuf[s].lo, end)
       /\ readBuf' = [readBuf EXCEPT ![s] = Rest(end, readBuf[s].hi)]
  /\ UNCHANGED <<connVars, bond, closed, gen, flags, ref, op, bytes, takes>>

\* Slip: what the buffer holds is forgotten.
ExistingDataLost(s) == Interval(readPos[conn[s]], readPos[conn[s]])

\* the bytes that the goroutine starts with
ExistingData(s) ==
  IF Unread(s) THEN readBuf[s] ELSE Interval(readPos[conn[s]], readPos[conn[s]])

ReceiveReads(s, mode, size) ==
  /\ Usable(s)
  /\ ~Buffered(s, mode, size)
  /\ op' = [op EXCEPT ![s] =
       [at |-> "read", conn |-> conn[s], gen |-> gen[s], mode |-> mode, size |-> size,
        lo |-> ExistingData(s).lo, hi |-> ExistingData(s).hi]]
  /\ readBuf' = [readBuf EXCEPT ![s] = NoBytes]
  /\ reading' = [reading EXCEPT ![s] = TRUE]
  /\ MayForget(s)
  /\ UNCHANGED <<connVars, bond, closed, gen, connecting, history>>

\* the socket lets go of its connection for good
Retire(s) ==
  /\ conn' = [conn EXCEPT ![s] = NoConn]
  /\ connected' = [connected EXCEPT ![s] = FALSE]
  /\ closed' = [closed EXCEPT ![s] = TRUE]
  /\ gen' = [gen EXCEPT ![s] = @ + 1]
  /\ readBuf' = [readBuf EXCEPT ![s] = NoBytes]
  /\ connecting' = [connecting EXCEPT ![s] = FALSE]
  /\ reading' = [reading EXCEPT ![s] = FALSE]
  /\ UNCHANGED reusedTimes

ClosesOwn(s) == life' = [c \in Conns |-> IF c = conn[s] THEN "closed" ELSE life[c]]

Close(s) ==
  /\ CanCall(s)
  /\ ClosesOwn(s)
  /\ Retire(s)
  /\ UNCHANGED <<arrived, readPos, peer, poolVars, ref, op, history>>

\* what setkeepalive asks for
Parkable(s) == Usable(s) /\ conn[s] # NoConn /\ ~Unread(s)

SetKeepalive(s) ==
  /\ Parkable(s)
  /\ Retire(s)
  /\ IF tcpPoolsClosed
     THEN ClosesOwn(s) /\ UNCHANGED <<pool, reused>>
     ELSE /\ pool' = pool \cup {conn[s]}
          /\ reused' = [reused EXCEPT ![conn[s]] = reusedTimes[s]]
          /\ UNCHANGED life
  /\ UNCHANGED <<arrived, readPos, peer, tcpPoolsClosed, ref, op, history>>

----------------------------------------------------------------------------
(* Goroutines of connect and receive *)

Post(s, more) == op' = [op EXCEPT ![s] = more]

Dialed(s, c) ==
  /\ op[s].at = "dial"
  /\ life[c] = "fresh"
  /\ life' = [life EXCEPT ![c] = "open"]
  /\ Post(s, [at |-> "dialed", gen |-> op[s].gen, conn |-> c])
  /\ UNCHANGED <<arrived, readPos, peer, poolVars, bond, closed,
                 gen, flags, readBuf, ref, history>>

DialFails(s) ==
  /\ op[s].at = "dial"
  /\ Post(s, [at |-> "dialed", gen |-> op[s].gen, conn |-> NoConn])
  /\ UNCHANGED <<connVars, bond, closed, gen, flags, readBuf, ref, history>>

\* an event with the bytes lo+1..hi, and what line mode puts back: a slice of the
\* buffer, in which other receives may have written since
Got(o, ok, hi, rest) ==
  [at |-> "got", conn |-> o.conn, gen |-> o.gen, mode |-> o.mode, size |-> o.size,
   ok |-> ok, lo |-> o.lo, hi |-> hi, rest |-> rest, foreign |-> {}, strays |-> {},
   shuts |-> FALSE]

Wanted(o) ==
  CASE o.mode = "size" -> o.size - (o.hi - o.lo)
    [] o.mode = "any"  -> o.size
    [] OTHER           -> Len

\* one Read that returns n bytes
ReadChunk(s, n) ==
  LET o == op[s]
      c == o.conn
      from == readPos[c]
      end == o.hi + n IN
  /\ o.at = "read"
  /\ life[c] = "open"
  /\ n <= arrived[c] - from /\ n <= Wanted(o)
  /\ readPos' = [readPos EXCEPT ![c] = from + n]
  /\ \/ /\ o.mode = "line"
        /\ LineFeeds(c, from, from + n) # {}
        /\ LET lf == FirstLF(c, from, from + n) IN Post(s, Got(o, TRUE, lf, Rest(lf, end)))
     \/ /\ o.mode = "any" \/ (o.mode = "size" /\ n = Wanted(o))
        /\ Post(s, Got(o, TRUE, end, NoBytes))
     \/ /\ \/ o.mode = "line" /\ LineFeeds(c, from, from + n) = {}
           \/ o.mode = "size" /\ n < Wanted(o)
           \/ o.mode = "all"
        /\ Post(s, [o EXCEPT !.hi = end])
  /\ UNCHANGED <<life, arrived, peer, poolVars, bond, closed,
                 gen, flags, readBuf, ref, history>>

AtEOF(c) == life[c] = "open" /\ peer[c] = "eof" /\ readPos[c] = arrived[c]

\* one Read that returns an error: the end of the stream, the read timeout, or
\* another error of the connection; the last closes it in receiveany
ReadFails(s, why) ==
  LET o == op[s] IN
  /\ o.at = "read"
  /\ CASE why = "eof"     -> AtEOF(o.conn)
       [] why = "timeout" -> life[o.conn] = "open"
       [] OTHER           -> life[o.conn] = "closed" \/ peer[o.conn] = "reset"
  /\ Post(s, [Got(o, o.mode = "all" /\ why = "eof", o.hi, NoBytes)
                EXCEPT !.shuts = (o.mode = "any" /\ why = "error")])
  /\ UNCHANGED <<connVars, bond, closed, gen, flags, readBuf, ref, history>>

\* A goroutine that has posted its event returns its buffer to socketBufPool; a
\* receive of any socket, TCP or UDP, gets it from there and reads into it, before
\* or while the callback of the event copies what follows the line: a data race, by
\* which any part of that may have changed.
BufferReused(s) ==
  LET o == op[s] IN
  /\ o.at = "got"
  /\ \E there \in SUBSET (o.rest.lo + 1 .. o.rest.hi) \ {{}} : \E lfs \in SUBSET there :
       Post(s, [o EXCEPT !.foreign = @ \cup there, !.strays = (@ \ there) \cup lfs])
  /\ UNCHANGED <<connVars, bond, closed, gen, flags, readBuf, ref, history>>

----------------------------------------------------------------------------
(* OnResume callbacks, run by the Lua thread before it resumes the owner *)

Stale(s) == closed[s] \/ gen[s] # op[s].gen

ConnectResumes(s) ==
  LET o == op[s] IN
  /\ o.at = "dialed"
  /\ connecting' = [connecting EXCEPT ![s] = FALSE]
  /\ op' = [op EXCEPT ![s] = NoOp]
  /\ IF o.conn = NoConn
     THEN UNCHANGED <<life, bond>>
     ELSE IF Stale(s)
     THEN CloseConn(o.conn) /\ UNCHANGED bond
     ELSE /\ reusedTimes' = [reusedTimes EXCEPT ![s] = 0]
          /\ conn' = [conn EXCEPT ![s] = o.conn]
          /\ connected' = [connected EXCEPT ![s] = TRUE]
          /\ UNCHANGED life
  /\ UNCHANGED <<arrived, readPos, peer, poolVars, closed, gen, reading,
                 readBuf, ref, history>>

DoneReading(s) == reading' = [reading EXCEPT ![s] = FALSE]

Delivers(o) ==
  /\ result' = [result EXCEPT ![o.conn] =
       [mode |-> o.mode, size |-> o.size, ok |-> o.ok, lo |-> o.lo, hi |-> o.hi]]
  /\ taken' = [taken EXCEPT ![o.conn] = o.hi]

\* line mode copies the rest from the buffer, as it stands there now
PutsBack(s) ==
  LET o == op[s] IN
  /\ readBuf' = [readBuf EXCEPT ![s] = o.rest]
  /\ foreign' = [foreign EXCEPT ![o.conn] = @ \cup o.foreign]
  /\ strays' = [strays EXCEPT ![o.conn] = @ \cup o.strays]

\* the data, or the error "closed" in its place
ReceiveSucceeds(s) ==
  LET o == op[s] IN
  /\ o.at = "got" /\ o.ok
  /\ DoneReading(s)
  /\ op' = [op EXCEPT ![s] = NoOp]
  /\ IF Stale(s)
     THEN UNCHANGED <<readBuf, foreign, strays, taken, result>>
     ELSE /\ Delivers(o)
          /\ IF o.mode = "line" THEN PutsBack(s) ELSE UNCHANGED <<readBuf, foreign, strays>>
  /\ UNCHANGED <<connVars, bond, closed, gen, connecting, ref, lineEnds, takes>>

\* the error with the partial data
ReceiveFails(s) ==
  LET o == op[s]
      shut == o.shuts /\ ~closed[s] IN
  /\ o.at = "got" /\ ~o.ok
  /\ Delivers(o)
  /\ DoneReading(s)
  /\ op' = [op EXCEPT ![s] = NoOp]
  /\ IF shut
     THEN /\ ClosesOwn(s)
          /\ conn' = [conn EXCEPT ![s] = NoConn]
          /\ connected' = [connected EXCEPT ![s] = FALSE]
          /\ readBuf' = [readBuf EXCEPT ![s] = NoBytes]
          /\ gen' = [gen EXCEPT ![s] = @ + 1]
     ELSE UNCHANGED <<life, conn, connected, readBuf, gen>>
  /\ UNCHANGED <<arrived, readPos, peer, poolVars, closed, reusedTimes, connecting, ref,
                 bytes, takes>>

\* the finalizer of the userdata
Gc(s) ==
  /\ ref[s] = "dropped"
  /\ ref' = [ref EXCEPT ![s] = "collected"]
  /\ ClosesOwn(s)
  /\ Retire(s)
  /\ UNCHANGED <<arrived, readPos, peer, poolVars, op, history>>

----------------------------------------------------------------------------
Outside == Drain \/ \E c \in Conns : Arrive(c) \/ PeerEnds(c) \/ OtherParks(c) \/ PoolCloses(c)

Receives(s) ==
  \E mode \in Modes : \E size \in IF mode \in {"size", "any"} THEN Sizes ELSE {0} :
     ReceiveBuffered(s, mode, size) \/ ReceiveReads(s, mode, size)

Method(s) ==
  \/ ConnectRefused(s) \/ ConnectDials(s) \/ \E c \in Conns : ConnectPooled(s, c)
  \/ Receives(s)
  \/ Close(s) \/ SetKeepalive(s) \/ Forget(s)

Goroutine(s) ==
  \/ DialFails(s) \/ \E c \in Conns : Dialed(s, c)
  \/ \E n \in 1..Len : ReadChunk(s, n)
  \/ \E why \in {"eof", "timeout", "error"} : ReadFails(s, why)
  \/ BufferReused(s)

OnResume(s) == ConnectResumes(s) \/ ReceiveSucceeds(s) \/ ReceiveFails(s)

Next == Outside \/ \E s \in Socks : Method(s) \/ Goroutine(s) \/ OnResume(s) \/ Gc(s)
Spec == Init /\ [][Next]_vars

----------------------------------------------------------------------------
(* Properties *)

Positions == 0..Len
Intervals == [lo : Positions, hi : Positions]
Results   == [mode : Modes \cup {"none"}, size : Sizes \cup {0}, ok : BOOLEAN, lo : Positions, hi : Positions]
Dialing   == [at : {"dial"}, gen : Nat]
Dialled   == [at : {"dialed"}, gen : Nat, conn : Conns \cup {NoConn}]
Reading   == [at : {"read"}, conn : Conns, gen : Nat, mode : Modes, size : Sizes \cup {0},
              lo : Positions, hi : Positions]
GotBytes  == [at : {"got"}, conn : Conns, gen : Nat, mode : Modes, size : Sizes \cup {0},
              ok : BOOLEAN, lo : Positions, hi : Positions, rest : Intervals,
              foreign : SUBSET (1..Len), strays : SUBSET (1..Len), shuts : BOOLEAN]

\* Every variable has its type: positions stay within what the peer sent.
TypeOK ==
  /\ life \in [Conns -> {"fresh", "open", "closed"}]
  /\ arrived \in [Conns -> Positions]
  /\ readPos \in [Conns -> Positions]
  /\ peer \in [Conns -> {"up", "eof", "reset"}]
  /\ pool \subseteq Conns
  /\ reused \in [Conns -> Nat]
  /\ tcpPoolsClosed \in BOOLEAN
  /\ conn \in [Socks -> Conns \cup {NoConn}]
  /\ connected \in [Socks -> BOOLEAN]
  /\ reusedTimes \in [Socks -> Nat]
  /\ closed \in [Socks -> BOOLEAN]
  /\ gen \in [Socks -> Nat]
  /\ connecting \in [Socks -> BOOLEAN]
  /\ reading \in [Socks -> BOOLEAN]
  /\ readBuf \in [Socks -> Intervals]
  /\ ref \in [Socks -> {"held", "dropped", "collected"}]
  /\ op \in [Socks -> {NoOp} \cup Dialing \cup Dialled \cup Reading \cup GotBytes]
  /\ lineEnds \subseteq 1..Len
  /\ foreign \in [Conns -> SUBSET (1..Len)]
  /\ strays \in [Conns -> SUBSET (1..Len)]
  /\ taken \in [Conns -> Positions]
  /\ takes \in [Conns -> Nat]
  /\ result \in [Conns -> Results]

\* Who is responsible for closing a connection.
Carries(s, c) == op[s].at = "dialed" /\ op[s].conn = c
Owners(c) == {s \in Socks : conn[s] = c \/ Carries(s, c)}

\* An open connection is in the pool or belongs to one socket or to one connect
\* under way, and nobody keeps one that is not open: none leaks, none is shared,
\* whichever of connect, close, setkeepalive, the finalizer, the drain and the
\* callbacks comes first.
OwnedOnce ==
  \A c \in Conns :
    /\ life[c] # "open" => c \notin pool /\ Owners(c) = {}
    /\ life[c] = "open" /\ c \in pool => Owners(c) = {}
    /\ life[c] = "open" /\ c \notin pool => \E s \in Socks : Owners(c) = {s}

\* A socket that was closed, parked or finalized while an operation was under
\* way gets no connection when the operation ends (the checks of closed and gen
\* in the OnResume callbacks).
ClosedHoldsNothing == \A s \in Socks : closed[s] => conn[s] = NoConn /\ ~connected[s]

\* The same, seen from the connection and from the socket.
OwnershipExact == OwnedOnce /\ ClosedHoldsNothing

\* The owner of a socket never finds it busy: whatever way an operation ends,
\* its flag is reset before the owner runs again.
NeverBusy == \A s \in Socks : op[s].at = "none" => ~Busy(s)

\* Between the calls of a socket, as many bytes as Read has returned and Lua code
\* has not received are in readBuf, in their order; during a receive they are with
\* the goroutine.  So no byte is lost, doubled or left over from an older connection,
\* whatever may have been written over it.
StreamKept ==
  \A s \in Socks :
    IF conn[s] = NoConn THEN ~Unread(s)
    ELSE LET c == conn[s]
             o == op[s]
         IN  CASE o.at = "read" -> o.lo = taken[c] /\ o.hi = readPos[c]
               [] o.at = "got"  -> /\ o.lo = taken[c]
                                   /\ IF o.rest = NoBytes THEN o.hi = readPos[c]
                                      ELSE o.rest = Interval(o.hi, readPos[c])
               [] OTHER         -> IF Unread(s) THEN readBuf[s] = Interval(taken[c], readPos[c])
                                   ELSE taken[c] = readPos[c]

\* setkeepalive parks a connection only when Lua code has received all that was
\* read from it: the next user does not miss the beginning of an answer, and gets
\* nothing that was written over it.
ParkedRead == \A c \in pool : taken[c] = readPos[c] /\ foreign[c] \subseteq 1..taken[c]

\* getreusedtimes says how often the connection of the socket was taken from the
\* pool, by whomever, though the count passes through sockets and entries and a
\* socket may have had other connections before.
ReuseCounted ==
  /\ \A s \in Socks : conn[s] \in Conns => reusedTimes[s] = takes[conn[s]]
  /\ \A c \in pool : reused[c] = takes[c]

\* Between calls a socket is not busy, and what it keeps belongs to its present
\* connection: the positions that were read and not received, up to the moment at
\* which the connection is parked for the next user, and the count of reuses.
KeepsItsOwn == StreamKept /\ ParkedRead /\ NeverBusy /\ ReuseCounted

\* Every connection is read as ByteStream describes, in all modes, across
\* buffered data, timeouts, the end of the stream and reuse from the pool; only a
\* receive of a line spoils bytes, and only such as follow its line.
Promise == INSTANCE ByteStream WITH ended <- {c \in Conns : peer[c] # "up"}

KeepsPromise == Promise!Spec

\* receive returns bytes that the peer of its connection sent, also when an earlier
\* receive of a line had read and kept them.  The code does not: they may be
\* overwritten in a buffer that was given back too early (BufferReused).
ReceivesOwnBytes ==
  \A c \in Conns : foreign[c] \cap (result[c].lo + 1 .. result[c].hi) = {}
=============================================================================
