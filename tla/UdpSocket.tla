----------------------------- MODULE UdpSocket -----------------------------
(***************************************************************************)
(* UDP cosockets (udp_socket.go).  setpeername of an address connects at   *)
(* once; of a name it starts a goroutine that resolves and dials, and      *)
(* yields.  receive starts a goroutine that reads one datagram, and        *)
(* yields.  Both post a resume event; only that of the dial has an         *)
(* OnResume callback.  Meanwhile the garbage collector may finalize a      *)
(* socket that Lua code no longer refers to.                               *)
(*                                                                         *)
(* A datagram is represented by its length.  A socket belongs to one Lua   *)
(* thread, which is suspended as a whole while an operation of the socket  *)
(* is under way; methods called by other threads are refused.              *)
(***************************************************************************)
EXTENDS Integers, Sequences

CONSTANTS
  Socks,      \* sockets
  Conns,      \* connections
  NoConn,     \* nil
  IPs,        \* peers given as an address
  Names,      \* peers given as a domain name
  Paths,      \* peers given as the path of a unix domain socket
  Addrs,      \* arguments of bind
  NoAddr,     \* no address: not bound, not connected
  MaxSize,    \* the largest receive, and the longest datagram (65536)
  Sizes,      \* arguments of receive
  Timeouts,   \* arguments of settimeout, in tenths of a millisecond
  QueueLimit  \* bound: datagrams that wait in the kernel

ASSUME SocketsAssumption == NoConn \notin Conns
ASSUME PeersAssumption   == NoAddr \notin IPs \cup Names \cup Paths \cup Addrs
ASSUME SizesAssumption   == MaxSize \in Nat \ {0} /\ Sizes \subseteq Int
ASSUME LimitsAssumption  == Timeouts \subseteq Int /\ QueueLimit \in Nat

VARIABLES
  link,       \* what the kernel keeps of each connection
  \* sockets
  conn, connected, closed, gen, timeout, localAddr,
  ref,        \* whether Lua code refers to the userdata
  op,         \* the goroutine of the socket, or its event
  \* history
  asked,      \* what the last setpeername connected, or is connecting
  result      \* what the last receive answered

bond    == <<conn, connected, closed, gen>>
options == <<timeout, localAddr>>
history == <<asked, result>>
vars    == <<link, bond, options, ref, op, history>>

NoOp    == [at |-> "none"]
Nobody  == [peer |-> NoAddr, local |-> NoAddr]
Nothing == [conn |-> NoConn, answer |-> "none", size |-> 0, timed |-> FALSE, length |-> 0, bytes |-> 0]

\* A connection: the datagrams that wait, whether there is an ICMP error to
\* report, whether a read deadline is set, and its two ends.
Link(life, ends) ==
  [life |-> life, inbox |-> <<>>, refused |-> FALSE, deadline |-> FALSE, ends |-> ends]

Fresh == Link("fresh", Nobody)
Shut  == Link("closed", Nobody)

Init ==
  /\ link = [c \in Conns |-> Fresh]
  /\ conn = [s \in Socks |-> NoConn]
  /\ connected = [s \in Socks |-> FALSE]
  /\ closed = [s \in Socks |-> FALSE]
  /\ gen = [s \in Socks |-> 0]
  /\ timeout = [s \in Socks |-> 0]
  /\ localAddr = [s \in Socks |-> NoAddr]
  /\ ref = [s \in Socks |-> "held"]
  /\ op = [s \in Socks |-> NoOp]
  /\ asked = [s \in Socks |-> Nobody]
  /\ result = Nothing

----------------------------------------------------------------------------
(* The network *)

IsOpen(c) == link[c].life = "open"

Arrive(c, n) ==
  /\ IsOpen(c)
  /\ Len(link[c].inbox) < QueueLimit
  /\ link' = [link EXCEPT ![c].inbox = Append(@, n)]
  /\ UNCHANGED <<bond, options, ref, op, history>>

\* nobody listens at the other end
Unreachable(c) ==
  /\ IsOpen(c)
  /\ link' = [link EXCEPT ![c].refused = TRUE]
  /\ UNCHANGED <<bond, options, ref, op, history>>

----------------------------------------------------------------------------
(* Methods called by the owner thread *)

\* the owner runs and has the socket
Mine(s) == op[s].at = "none" /\ ref[s] = "held"

Usable(s) == Mine(s) /\ ~closed[s] /\ connected[s]

\* The caller of a method that yields may have no reference of its own.
MayForget(s) == \E kept \in {"held", "dropped"} : ref' = [ref EXCEPT ![s] = kept]

Forget(s) ==
  /\ Mine(s)
  /\ ref' = [ref EXCEPT ![s] = "dropped"]
  /\ UNCHANGED <<link, bond, options, op, history>>

\* time.Duration(ms) drops the fraction; what is left is no timeout unless positive
WholeMs(tenths) == IF tenths > 0 THEN tenths \div 10 ELSE 0

SetTimeout(s, tenths) ==
  /\ Mine(s)
  /\ timeout' = [timeout EXCEPT ![s] = WholeMs(tenths)]
  /\ UNCHANGED <<link, bond, localAddr, ref, op, history>>

Bind(s, a) ==
  /\ Mine(s)
  /\ localAddr' = [localAddr EXCEPT ![s] = a]
  /\ UNCHANGED <<link, bond, timeout, ref, op, history>>

\* dialling makes a new connection
CanDial == \E c \in Conns : link[c] = Fresh
NewConn == CHOOSE c \in Conns : link[c] = Fresh

HasConn(s) == conn[s] # NoConn

\* the connections after the one of the socket, if any, was closed
Left(s) == IF HasConn(s) THEN [link EXCEPT ![conn[s]] = Shut] ELSE link

NextGen(s) == gen' = [gen EXCEPT ![s] = @ + 1]

\* setpeername closes the old connection before it looks at its arguments
CanSetPeer(s) ==
  /\ Mine(s) /\ ~closed[s]
  /\ IF HasConn(s) THEN NextGen(s) ELSE UNCHANGED gen

Unbond(s) ==
  /\ conn' = [conn EXCEPT ![s] = NoConn]
  /\ connected' = [connected EXCEPT ![s] = FALSE]

Bond(s, c) ==
  /\ conn' = [conn EXCEPT ![s] = c]
  /\ connected' = [connected EXCEPT ![s] = TRUE]

\* bad arguments, an address that does not resolve, or an error of the dial
SetPeerRefused(s) ==
  /\ CanSetPeer(s)
  /\ link' = Left(s)
  /\ Unbond(s)
  /\ asked' = [asked EXCEPT ![s] = Nobody]
  /\ UNCHANGED <<closed, options, ref, op, result>>

\* a unix domain socket is bound to a path of its own instead
Ends(s, peer) == [peer |-> peer, local |-> IF peer \in Paths THEN NoAddr ELSE localAddr[s]]

\* an address or a path: the dial ends before the call returns
SetPeerNow(s, peer) ==
  /\ CanSetPeer(s)
  /\ CanDial
  /\ link' = [Left(s) EXCEPT ![NewConn] = Link("open", Ends(s, peer))]
  /\ Bond(s, NewConn)
  /\ asked' = [asked EXCEPT ![s] = Ends(s, peer)]
  /\ UNCHANGED <<closed, options, ref, op, result>>

\* a name: a goroutine resolves it and dials
SetPeerDials(s, peer) ==
  /\ CanSetPeer(s)
  /\ link' = Left(s)
  /\ Unbond(s)
  /\ asked' = [asked EXCEPT ![s] = Ends(s, peer)]
  /\ op' = [op EXCEPT ![s] = [at |-> "dial", gen |-> gen'[s], ends |-> Ends(s, peer)]]
  /\ MayForget(s)
  /\ UNCHANGED <<closed, options, result>>

\* a datagram leaves; or the call reports the ICMP error
Send(s) ==
  /\ Usable(s)
  /\ link' = [link EXCEPT ![conn[s]].refused = FALSE]
  /\ UNCHANGED <<bond, options, ref, op, history>>

\* Slip: the argument is the length.
ReceiveSizeAsIs(n) == n

ReceiveSize(n) == IF n \in 1..MaxSize THEN n ELSE MaxSize

Receive(s, n) ==
  /\ Usable(s)
  /\ op' = [op EXCEPT ![s] = [at |-> "receive", conn |-> conn[s], size |-> ReceiveSize(n),
                              timed |-> timeout[s] > 0]]
  /\ MayForget(s)
  /\ UNCHANGED <<link, bond, options, history>>

\* the socket lets go of its connection for good
Retire(s) ==
  /\ link' = Left(s)
  /\ Unbond(s)
  /\ closed' = [closed EXCEPT ![s] = TRUE]
  /\ NextGen(s)

Close(s) ==
  /\ Mine(s) /\ ~closed[s]
  /\ Retire(s)
  /\ asked' = [asked EXCEPT ![s] = Nobody]
  /\ UNCHANGED <<options, ref, op, result>>

----------------------------------------------------------------------------
(* Goroutines of setpeername and receive *)

Post(s, event) == op' = [op EXCEPT ![s] = event]

Dialed(s) ==
  /\ op[s].at = "dial"
  /\ CanDial
  /\ link' = [link EXCEPT ![NewConn] = Link("open", op[s].ends)]
  /\ Post(s, [at |-> "dialed", gen |-> op[s].gen, conn |-> NewConn])
  /\ UNCHANGED <<bond, options, ref, history>>

DialFails(s) ==
  /\ op[s].at = "dial"
  /\ Post(s, [at |-> "dialed", gen |-> op[s].gen, conn |-> NoConn])
  /\ UNCHANGED <<link, bond, options, ref, history>>

\* Slip: the deadline of the last receive stays.
SetDeadlineOnly(o) ==
  IF link[o.conn].life = "open" /\ o.timed THEN [link EXCEPT ![o.conn].deadline = o.timed] ELSE link

\* Slip: no deadline is set.
SetDeadlineNever(o) == link

\* a deadline is set or cleared; on a closed connection this fails, unnoticed
SetDeadline(o) ==
  IF link[o.conn].life = "open" THEN [link EXCEPT ![o.conn].deadline = o.timed] ELSE link

StartsRead(s) ==
  /\ op[s].at = "receive"
  /\ link' = SetDeadline(op[s])
  /\ Post(s, [op[s] EXCEPT !.at = "read"])
  /\ UNCHANGED <<bond, options, ref, history>>

Answer(o, answer, length, bytes) ==
  [at |-> "got",
   result |-> [conn |-> o.conn, answer |-> answer, size |-> o.size, timed |-> o.timed,
               length |-> length, bytes |-> bytes]]

Least(a, b) == IF a < b THEN a ELSE b

\* one Read takes one datagram
ReadTakes(s) ==
  LET o == op[s]
      n == Head(link[o.conn].inbox) IN
  /\ o.at = "read"
  /\ link[o.conn].inbox # <<>>
  /\ link' = [link EXCEPT ![o.conn].inbox = Tail(@)]
  /\ Post(s, Answer(o, "data", n, Least(n, o.size)))
  /\ UNCHANGED <<bond, options, ref, history>>

\* the deadline has passed
ReadTimesOut(s) ==
  LET o == op[s] IN
  /\ o.at = "read"
  /\ link[o.conn].deadline
  /\ Post(s, Answer(o, "timeout", 0, 0))
  /\ UNCHANGED <<link, bond, options, ref, history>>

\* the ICMP error, or the connection was closed
ReadFails(s) ==
  LET o == op[s] IN
  /\ o.at = "read"
  /\ link[o.conn].refused \/ link[o.conn] = Shut
  /\ link' = [link EXCEPT ![o.conn].refused = FALSE]
  /\ Post(s, Answer(o, "error", 0, 0))
  /\ UNCHANGED <<bond, options, ref, history>>

----------------------------------------------------------------------------
(* Resume events, handled by the Lua thread *)

\* Slip: a socket that is gone is not noticed.
StaleNever(s) == FALSE

Stale(s) == closed[s] \/ gen[s] # op[s].gen

SetPeerResumes(s) ==
  LET c == op[s].conn IN
  /\ op[s].at = "dialed"
  /\ \/ c = NoConn /\ UNCHANGED <<link, conn, connected>>
     \/ c # NoConn /\ Stale(s) /\ link' = [link EXCEPT ![c] = Shut] /\ UNCHANGED <<conn, connected>>
     \/ c # NoConn /\ ~Stale(s) /\ Bond(s, c) /\ UNCHANGED link
  /\ asked' = [asked EXCEPT ![s] = IF c = NoConn THEN Nobody ELSE @]
  /\ op' = [op EXCEPT ![s] = NoOp]
  /\ UNCHANGED <<closed, gen, options, ref, result>>

\* there is no callback: what was read is delivered whatever became of the socket
ReceiveResumes(s) ==
  /\ op[s].at = "got"
  /\ result' = op[s].result
  /\ op' = [op EXCEPT ![s] = NoOp]
  /\ UNCHANGED <<link, bond, options, ref, asked>>

\* the finalizer of the userdata
Gc(s) ==
  /\ ref[s] = "dropped"
  /\ ref' = [ref EXCEPT ![s] = "collected"]
  /\ Retire(s)
  /\ asked' = [asked EXCEPT ![s] = Nobody]
  /\ UNCHANGED <<options, op, result>>

----------------------------------------------------------------------------
Network == \E c \in Conns : Unreachable(c) \/ \E n \in 0..MaxSize : Arrive(c, n)

SetPeerName(s) ==
  \/ SetPeerRefused(s)
  \/ \E peer \in IPs \cup Paths : SetPeerNow(s, peer)
  \/ \E peer \in Names : SetPeerDials(s, peer)

Method(s) ==
  \/ SetPeerName(s)
  \/ \E n \in Sizes : Receive(s, n)
  \/ \E tenths \in Timeouts : SetTimeout(s, tenths)
  \/ \E a \in Addrs : Bind(s, a)
  \/ Send(s) \/ Close(s) \/ Forget(s)

Dials(s) == Dialed(s) \/ DialFails(s)
Reads(s) == StartsRead(s) \/ ReadTakes(s) \/ ReadTimesOut(s) \/ ReadFails(s)
Resumes(s) == SetPeerResumes(s) \/ ReceiveResumes(s)

Next == Network \/ \E s \in Socks : Method(s) \/ Dials(s) \/ Reads(s) \/ Resumes(s) \/ Gc(s)

\* Goroutines run, the clock reaches a deadline, a resolver answers, and the event
\* loop handles what is in its channel.  Nothing else must happen: Lua code need
\* not call, the network need not deliver, the collector need not run.
Fairness == \A s \in Socks : WF_vars(Dials(s)) /\ WF_vars(Reads(s)) /\ WF_vars(Resumes(s))

Spec == Init /\ [][Next]_vars /\ Fairness

----------------------------------------------------------------------------
(* Properties *)

EndPairs == [peer : IPs \cup Names \cup Paths \cup {NoAddr}, local : Addrs \cup {NoAddr}]
Results  == [conn : Conns \cup {NoConn}, answer : {"none", "data", "timeout", "error"},
             size : 0..MaxSize, timed : BOOLEAN, length : 0..MaxSize, bytes : 0..MaxSize]
Dialing  == [at : {"dial"}, gen : Nat, ends : EndPairs]
Dialled  == [at : {"dialed"}, gen : Nat, conn : Conns \cup {NoConn}]
Reading  == [at : {"receive", "read"}, conn : Conns, size : 1..MaxSize, timed : BOOLEAN]
Got      == [at : {"got"}, result : Results]

\* Every variable has its type: in particular a receive is always given a
\* connection, and room for at least one byte and at most the buffer.
TypeOK ==
  /\ link \in [Conns -> [life : {"fresh", "open", "closed"}, inbox : Seq(0..MaxSize),
                         refused : BOOLEAN, deadline : BOOLEAN, ends : EndPairs]]
  /\ conn \in [Socks -> Conns \cup {NoConn}]
  /\ connected \in [Socks -> BOOLEAN]
  /\ closed \in [Socks -> BOOLEAN]
  /\ gen \in [Socks -> Nat]
  /\ timeout \in [Socks -> Nat]
  /\ localAddr \in [Socks -> Addrs \cup {NoAddr}]
  /\ ref \in [Socks -> {"held", "dropped", "collected"}]
  /\ op \in [Socks -> {NoOp} \cup Dialing \cup Dialled \cup Reading \cup Got]
  /\ asked \in [Socks -> EndPairs]
  /\ result \in Results

\* Who is responsible for closing a connection.
Carries(s, c) == op[s].at = "dialed" /\ op[s].conn = c
Holders(c) == {s \in Socks : conn[s] = c \/ Carries(s, c)}

\* A connection is open exactly while one socket, or one dial under way, is
\* responsible for closing it: none leaks and none is shared, whatever comes
\* first of the dial, the finalizer and the next setpeername.
HeldOnce ==
  \A c \in Conns :
    IF IsOpen(c) THEN \E s \in Socks : Holders(c) = {s} ELSE Holders(c) = {}

\* Every open connection has one socket, or one dial, that will close it.  What send
\* and receive use leads to the peer of the last setpeername, from the address
\* bound at that time; after a setpeername that failed, and after close and the
\* finalizer, there is nothing to use.
RightPeer ==
  /\ HeldOnce
  /\ \A s \in Socks :
       /\ connected[s] <=> HasConn(s)
       /\ HasConn(s) => link[conn[s]].ends = asked[s]
       /\ op[s].at = "none" /\ ~HasConn(s) => asked[s] = Nobody
       /\ closed[s] => ~HasConn(s)

\* The operation of s does not wait for the network alone, or no longer does.
MustEnd(s) ==
  LET o == op[s] IN
  \/ o.at \in {"dial", "dialed", "got"}
  \/ /\ o.at \in {"receive", "read"}
     /\ \/ o.timed
        \/ ref[s] = "collected"
        \/ link[o.conn].refused \/ link[o.conn].inbox # <<>>

\* A setpeername that resolves a name ends, and so does a receive that has a
\* timeout, whose socket the finalizer has closed under it, or for which a datagram
\* or an ICMP error has come: the thread does not stay suspended.
Answered == \A s \in Socks : MustEnd(s) ~> (op[s].at = "none")

\* what goroutines have read and Lua code has not been given
Pending(c) ==
  {s \in Socks : op[s].at = "got" /\ op[s].result.conn = c /\ op[s].result.answer = "data"}

\* receive keeps the boundaries and the order of the datagrams, and times out only
\* when asked to, as DatagramService describes, across reconnects, changes of the
\* timeout, errors of the network and finalizers that come between the Read and
\* the event.
Promise == INSTANCE DatagramService WITH
  queue <- [c \in Conns |->
     IF Pending(c) = {} THEN link[c].inbox
     ELSE <<op[CHOOSE s \in Pending(c) : TRUE].result.length>> \o link[c].inbox]

KeepsPromise == Promise!Spec
=============================================================================
