-------------------------- MODULE UdpSocket_proofs --------------------------
(***************************************************************************)
(* Proofs about UdpSocket, for any sets of sockets, connections and peers, *)
(* any sizes and timeouts: its safety properties, and that it implements   *)
(* DatagramService.  The inductive invariant says what an operation under  *)
(* way still has to do with its socket, which the finalizer may have       *)
(* closed under it.                                                        *)
(***************************************************************************)
EXTENDS UdpSocket, TLAPS, SequenceTheorems

-----------------------------------------------------------------------------
(* The inductive invariant.                                                *)

\* What RightPeer says of one socket, and that a closed socket asks for nothing.
PeerFits(s) ==
  /\ connected[s] <=> HasConn(s)
  /\ HasConn(s) => link[conn[s]].ends = asked[s]
  /\ op[s].at = "none" /\ ~HasConn(s) => asked[s] = Nobody
  /\ closed[s] => ~HasConn(s) /\ asked[s] = Nobody

\* A dial is for its socket as it is, unless the finalizer came first.
DialFits(s) ==
  /\ op[s].at \in {"dial", "dialed"} =>
       /\ conn[s] = NoConn
       /\ ~closed[s] => op[s].gen = gen[s]
  /\ op[s].at = "dial" /\ ~closed[s] => op[s].ends = asked[s]
  /\ op[s].at = "dialed" /\ op[s].conn # NoConn /\ ~closed[s] =>
       link[op[s].conn].ends = asked[s]

Receiving(s) == op[s].at \in {"receive", "read", "got"}

\* The connection that a receive reads from, or has read from.
ReadsFrom(s) == IF op[s].at = "got" THEN op[s].result.conn ELSE op[s].conn

\* It is the connection of the socket, or one that the finalizer has closed.
ReadFits(s) ==
  Receiving(s) =>
    /\ ReadsFrom(s) \in Conns
    /\ link[ReadsFrom(s)].life # "fresh"
    /\ IsOpen(ReadsFrom(s)) => conn[s] = ReadsFrom(s)
    /\ ~closed[s] => conn[s] = ReadsFrom(s)

\* What a receive is about to answer is an answer.
AnswerFits(s) ==
  /\ op[s].at = "read" /\ link[op[s].conn].deadline => op[s].timed
  /\ op[s].at = "got" =>
       LET r == op[s].result IN
       /\ r.answer # "none"
       /\ r.answer = "timeout" => r.timed
       /\ r.answer = "data" => r.bytes = Least(r.length, r.size)

Fits(s) == PeerFits(s) /\ DialFits(s) /\ ReadFits(s) /\ AnswerFits(s)

\* HeldOnce, holder by holder.
Holds(s, c) == conn[s] = c \/ Carries(s, c)

Held ==
  /\ \A s \in Socks, c \in Conns : Holds(s, c) => IsOpen(c)
  /\ \A c \in Conns : IsOpen(c) => \E s \in Socks : Holds(s, c)
  /\ \A s, t \in Socks, c \in Conns : Holds(s, c) /\ Holds(t, c) => s = t

Draws(s, c) == Receiving(s) /\ ReadsFrom(s) = c

\* No two receives read from the same connection.
ReadersApart == \A s, t \in Socks, c \in Conns : Draws(s, c) /\ Draws(t, c) => s = t

\* A connection that is not open has nothing in it.
ShutIsEmpty == \A c \in Conns : ~IsOpen(c) => link[c] \in {Fresh, Shut}

IInv ==
  /\ TypeOK
  /\ \A s \in Socks : Fits(s)
  /\ Held
  /\ ReadersApart
  /\ ShutIsEmpty

-----------------------------------------------------------------------------
(* Facts about the parts.                                                  *)

USE SocketsAssumption, PeersAssumption, SizesAssumption, LimitsAssumption
USE DEF bond, options, history, Mine, IsOpen, HasConn, NextGen, Unbond, Bond, Post,
        NoOp, Nobody, Link, Fresh, Shut

Links == [life : {"fresh", "open", "closed"}, inbox : Seq(0..MaxSize),
          refused : BOOLEAN, deadline : BOOLEAN, ends : EndPairs]
Ops   == {NoOp} \cup Dialing \cup Dialled \cup Reading \cup Got

\* The shape of an operation follows from where it is.
LEMMA OpShapes ==
  ASSUME TypeOK, NEW s \in Socks
  PROVE  /\ op[s].at \in {"none", "dial", "dialed", "receive", "read", "got"}
         /\ op[s].at = "none" => op[s] = NoOp
         /\ op[s].at = "dial" => op[s].gen \in Nat /\ op[s].ends \in EndPairs
         /\ op[s].at = "dialed" => op[s].gen \in Nat /\ op[s].conn \in Conns \cup {NoConn}
         /\ op[s].at \in {"receive", "read"} =>
              /\ op[s] \in Reading
              /\ op[s].conn \in Conns /\ op[s].size \in 1..MaxSize /\ op[s].timed \in BOOLEAN
         /\ op[s].at = "got" => op[s] \in Got /\ op[s].result \in Results
BY DEF TypeOK, Dialing, Dialled, Reading, Got

\* Dialling finds a connection that is new.
LEMMA NewConnFresh ==
  ASSUME CanDial
  PROVE  NewConn \in Conns /\ link[NewConn] = Fresh
BY DEF CanDial, NewConn

\* The peers of a connection that nobody uses.
LEMMA EmptyLinks == Fresh \in Links /\ Shut \in Links
BY EmptySeq DEF Links, EndPairs

\* Holders are sets of one or none.
LEMMA HolderIs == Held => HeldOnce
<1> SUFFICES ASSUME Held, NEW c \in Conns
             PROVE  IF IsOpen(c) THEN \E s \in Socks : Holders(c) = {s} ELSE Holders(c) = {}
  BY DEF HeldOnce
<1>1. Holders(c) = {s \in Socks : Holds(s, c)}
  BY DEF Holders, Holds
<1>2. CASE IsOpen(c)
  <2>1. PICK s \in Socks : Holds(s, c)
    BY <1>2 DEF Held
  <2>2. Holders(c) = {s}
    BY <1>1, <2>1 DEF Held
  <2> QED BY <1>2, <2>2
<1>3. CASE ~IsOpen(c)
  <2>1. Holders(c) = {}
    BY <1>1, <1>3 DEF Held
  <2> QED BY <1>3, <2>1
<1> QED BY <1>2, <1>3

-----------------------------------------------------------------------------
(* Steps of one socket leave the others alone.                             *)

SameSock(t) ==
  /\ conn'[t] = conn[t] /\ connected'[t] = connected[t] /\ closed'[t] = closed[t]
  /\ gen'[t] = gen[t] /\ op'[t] = op[t] /\ asked'[t] = asked[t]

Others(s) == \A t \in Socks \ {s} : SameSock(t)

\* What the invariant looks at, of a connection that is in use.
SameLink(c) ==
  /\ link'[c].life = link[c].life
  /\ link'[c].ends = link[c].ends
  /\ link'[c].deadline = link[c].deadline

\* A socket fits as before when it and its connections stay.
LEMMA StaysFit ==
  ASSUME TypeOK, NEW t \in Socks, Fits(t), SameSock(t),
         \A c \in Conns : Holds(t, c) \/ Draws(t, c) => SameLink(c)
  PROVE  Fits(t)'
<1>1. conn[t] \in Conns \cup {NoConn}
  BY DEF TypeOK
<1>2. PeerFits(t)'
  BY <1>1 DEF Fits, PeerFits, SameSock, SameLink, Holds
<1>3. DialFits(t)'
  BY OpShapes DEF Fits, DialFits, SameSock, SameLink, Holds, Carries
<1>4. Receiving(t) => SameLink(ReadsFrom(t))
  BY DEF Fits, ReadFits, Draws
<1>5. ReadFits(t)' 
  BY <1>4 DEF Fits, ReadFits, SameSock, SameLink, Receiving, ReadsFrom
<1>6. AnswerFits(t)'
  BY <1>4 DEF Fits, AnswerFits, SameSock, SameLink, Receiving, ReadsFrom
<1> QED BY <1>2, <1>3, <1>5, <1>6 DEF Fits

\* The connections of s are not used by others.
LEMMA OthersFit ==
  ASSUME IInv, NEW s \in Socks, Others(s),
         \A c \in Conns : SameLink(c) \/ link[c] = Fresh \/ Holds(s, c),
         NEW t \in Socks \ {s}
  PROVE  Fits(t)'
<1>1. Fits(t) /\ TypeOK /\ SameSock(t)
  BY DEF IInv, Others
<1>2. ASSUME NEW c \in Conns, Holds(t, c) \/ Draws(t, c)
      PROVE  SameLink(c)
  <2>1. link[c] # Fresh
    BY <1>1, <1>2 DEF IInv, Held, Fits, ReadFits, Draws
  <2>2. CASE Holds(s, c)
    <3>1. IsOpen(c) /\ ~Holds(t, c)
      BY <2>2 DEF IInv, Held
    <3>2. Holds(t, c)
      BY <1>1, <1>2, <3>1 DEF Fits, ReadFits, Draws, Holds
    <3> QED BY <3>1, <3>2
  <2> QED BY <2>1, <2>2
<1> QED BY <1>1, <1>2, StaysFit

\* s takes a connection, or lets go of it, or neither.
Keeps(s, c)    == (IsOpen(c)' <=> IsOpen(c)) /\ (Holds(s, c)' <=> Holds(s, c))
Gets(s, c)     == Holds(s, c)' /\ IsOpen(c)' /\ (Holds(s, c) \/ ~IsOpen(c))
LetsGo(s, c)   == ~Holds(s, c)' /\ ~IsOpen(c)' /\ (Holds(s, c) \/ ~IsOpen(c))

LEMMA StaysHeld ==
  ASSUME Held, NEW s \in Socks, Others(s),
         \A c \in Conns : Keeps(s, c) \/ Gets(s, c) \/ LetsGo(s, c)
  PROVE  Held'
<1>1. \A t \in Socks \ {s}, c \in Conns : Holds(t, c)' <=> Holds(t, c)
  BY DEF Others, SameSock, Holds, Carries
<1>2. ASSUME NEW t \in Socks, NEW c \in Conns, Holds(t, c)' PROVE IsOpen(c)'
  BY <1>1, <1>2 DEF Held, Keeps, Gets, LetsGo
<1>3. ASSUME NEW c \in Conns, IsOpen(c)' PROVE \E t \in Socks : Holds(t, c)'
  <2>1. CASE Keeps(s, c)
    <3>1. PICK t \in Socks : Holds(t, c)
      BY <1>3, <2>1 DEF Held, Keeps
    <3>2. Holds(t, c)'
      BY <1>1, <2>1, <3>1 DEF Keeps
    <3> QED BY <3>2
  <2> QED BY <1>3, <2>1 DEF Gets, LetsGo
<1>4. ASSUME NEW t \in Socks, NEW u \in Socks, NEW c \in Conns, Holds(t, c)', Holds(u, c)'
      PROVE  t = u
  BY <1>1, <1>4 DEF Held, Keeps, Gets, LetsGo
<1> QED BY <1>2, <1>3, <1>4 DEF Held

\* Receives stay apart when s does not start one.
LEMMA StayApart ==
  ASSUME ReadersApart, NEW s \in Socks, Others(s),
         \A c \in Conns : Draws(s, c)' => Draws(s, c)
  PROVE  ReadersApart'
<1>1. \A t \in Socks, c \in Conns : Draws(t, c)' => Draws(t, c)
  BY DEF Others, SameSock, Draws, Receiving, ReadsFrom
<1> QED BY <1>1 DEF ReadersApart

-----------------------------------------------------------------------------
(* Each action preserves the invariant.                                    *)

\* A step that changes no socket, nor what the invariant looks at of a link.
LEMMA QuietKeeps ==
  ASSUME IInv, TypeOK', \A t \in Socks : SameSock(t), \A c \in Conns : SameLink(c), ShutIsEmpty'
  PROVE  IInv'
<1>1. \A t \in Socks : Fits(t)'
  BY StaysFit DEF IInv
<1>2. \A t \in Socks, c \in Conns : (Holds(t, c)' <=> Holds(t, c)) /\ (Draws(t, c)' <=> Draws(t, c))
  BY DEF SameSock, Holds, Carries, Draws, Receiving, ReadsFrom
<1>3. Held'
  BY <1>2 DEF IInv, Held, SameLink
<1>4. ReadersApart'
  BY <1>2 DEF IInv, ReadersApart
<1> QED BY <1>1, <1>3, <1>4 DEF IInv

\* A step of one socket, that starts no read.
LEMMA StepKeeps ==
  ASSUME IInv, TypeOK', NEW s \in Socks, Others(s), Fits(s)',
         \A c \in Conns : SameLink(c) \/ link[c] = Fresh \/ Holds(s, c),
         \A c \in Conns : Keeps(s, c) \/ Gets(s, c) \/ LetsGo(s, c),
         \A c \in Conns : Draws(s, c)' => Draws(s, c),
         ShutIsEmpty'
  PROVE  IInv'
<1>1. \A t \in Socks : Fits(t)'
  BY OthersFit
<1>2. Held' /\ ReadersApart'
  BY StaysHeld, StayApart DEF IInv
<1> QED BY <1>1, <1>2 DEF IInv

\* An operation that does not receive fits as a read.
LEMMA NoReadFits ==
  ASSUME NEW s \in Socks, op'[s].at \in {"none", "dial", "dialed"}
  PROVE  /\ ReadFits(s)' /\ AnswerFits(s)'
         /\ \A c \in Conns : Draws(s, c)' => Draws(s, c)
BY DEF ReadFits, AnswerFits, Draws, Receiving

\* An operation that does not dial fits as a dial.
LEMMA NoDialFits ==
  ASSUME NEW s \in Socks, op'[s].at \in {"none", "receive", "read", "got"}
  PROVE  DialFits(s)' /\ \A c \in Conns : Holds(s, c)' <=> conn'[s] = c
BY DEF DialFits, Holds, Carries

LEMMA ArriveKeeps ==
  ASSUME IInv, NEW c \in Conns, NEW n \in 0..MaxSize, Arrive(c, n)
  PROVE  IInv'
<1>1. TypeOK /\ link \in [Conns -> Links]
  BY DEF IInv, TypeOK, Links
<1>2. [link[c] EXCEPT !.inbox = Append(link[c].inbox, n)] \in Links
  <2>1. link[c] \in Links /\ link[c].inbox \in Seq(0..MaxSize)
    BY <1>1 DEF Links
  <2>2. Append(link[c].inbox, n) \in Seq(0..MaxSize)
    BY <2>1, AppendProperties
  <2> QED BY <2>1, <2>2 DEF Links
<1>3. link' \in [Conns -> Links]
  BY <1>1, <1>2 DEF Arrive
<1>4. TypeOK'
  BY <1>1, <1>3 DEF Arrive, TypeOK, Links
<1>5. \A d \in Conns : SameLink(d) /\ (d # c => link'[d] = link[d])
  BY <1>1 DEF Arrive, SameLink, Links
<1>6. ShutIsEmpty'
  BY <1>5 DEF IInv, ShutIsEmpty, SameLink, Arrive
<1>7. \A t \in Socks : SameSock(t)
  BY DEF Arrive, SameSock
<1> QED BY <1>4, <1>5, <1>6, <1>7, QuietKeeps

LEMMA UnreachableKeeps ==
  ASSUME IInv, NEW c \in Conns, Unreachable(c)
  PROVE  IInv'
<1>1. TypeOK /\ link \in [Conns -> Links]
  BY DEF IInv, TypeOK, Links
<1>2. [link[c] EXCEPT !.refused = TRUE] \in Links
  BY <1>1 DEF Links
<1>3. link' \in [Conns -> Links]
  BY <1>1, <1>2 DEF Unreachable
<1>4. TypeOK'
  BY <1>1, <1>3 DEF Unreachable, TypeOK, Links
<1>5. \A d \in Conns : SameLink(d) /\ (d # c => link'[d] = link[d])
  BY <1>1 DEF Unreachable, SameLink, Links
<1>6. ShutIsEmpty'
  BY <1>5 DEF IInv, ShutIsEmpty, SameLink, Unreachable
<1>7. \A t \in Socks : SameSock(t)
  BY DEF Unreachable, SameSock
<1> QED BY <1>4, <1>5, <1>6, <1>7, QuietKeeps

LEMMA ForgetKeeps ==
  ASSUME IInv, NEW s \in Socks, Forget(s)
  PROVE  IInv'
<1>1. TypeOK'
  BY DEF IInv, Forget, TypeOK
<1>2. \A t \in Socks : SameSock(t)
  BY DEF Forget, SameSock
<1>3. link' = link
  BY DEF Forget
<1> QED BY <1>1, <1>2, <1>3, QuietKeeps DEF SameLink, IInv, ShutIsEmpty

LEMMA SetTimeoutKeeps ==
  ASSUME IInv, NEW s \in Socks, NEW tenths \in Timeouts, SetTimeout(s, tenths)
  PROVE  IInv'
<1>1. WholeMs(tenths) \in Nat
  BY DEF WholeMs
<1>2. TypeOK'
  BY <1>1 DEF IInv, SetTimeout, TypeOK
<1>3. link' = link /\ \A t \in Socks : SameSock(t)
  BY DEF SetTimeout, SameSock
<1> QED BY <1>2, <1>3, QuietKeeps DEF SameLink, IInv, ShutIsEmpty

LEMMA BindKeeps ==
  ASSUME IInv, NEW s \in Socks, NEW a \in Addrs, Bind(s, a)
  PROVE  IInv'
<1>1. TypeOK'
  BY DEF IInv, Bind, TypeOK
<1>2. link' = link /\ \A t \in Socks : SameSock(t)
  BY DEF Bind, SameSock
<1> QED BY <1>1, <1>2, QuietKeeps DEF SameLink, IInv, ShutIsEmpty

\* The connection of a socket is open.
LEMMA ConnOpen ==
  ASSUME IInv, NEW s \in Socks
  PROVE  /\ TypeOK /\ Fits(s) /\ link \in [Conns -> Links]
         /\ conn[s] \in Conns \cup {NoConn}
         /\ HasConn(s) => conn[s] \in Conns /\ IsOpen(conn[s]) /\ Holds(s, conn[s])
BY DEF IInv, TypeOK, Held, Holds, Links

LEMMA SendKeeps ==
  ASSUME IInv, NEW s \in Socks, Send(s)
  PROVE  IInv'
<1> DEFINE c == conn[s]
<1>1. TypeOK /\ link \in [Conns -> Links] /\ c \in Conns /\ IsOpen(c)
  BY ConnOpen DEF Send, Usable, Fits, PeerFits
<1>2. [link[c] EXCEPT !.refused = FALSE] \in Links
  BY <1>1 DEF Links
<1>3. link' \in [Conns -> Links]
  BY <1>1, <1>2 DEF Send
<1>4. TypeOK'
  BY <1>1, <1>3 DEF Send, TypeOK, Links
<1>5. \A d \in Conns : SameLink(d) /\ (d # c => link'[d] = link[d])
  BY <1>1 DEF Send, SameLink, Links
<1>6. ShutIsEmpty'
  BY <1>1, <1>5 DEF IInv, ShutIsEmpty, SameLink
<1>7. \A t \in Socks : SameSock(t)
  BY DEF Send, SameSock
<1> QED BY <1>4, <1>5, <1>6, <1>7, QuietKeeps

\* Closing the connection of a socket.
LEMMA LeftLinks ==
  ASSUME IInv, NEW s \in Socks
  PROVE  /\ Left(s) \in [Conns -> Links]
         /\ \A c \in Conns : Left(s)[c] = IF c = conn[s] THEN Shut ELSE link[c]
BY ConnOpen, EmptyLinks DEF Left

\* The socket of a call that sets the peer.
LEMMA SetsPeer ==
  ASSUME IInv, NEW s \in Socks, CanSetPeer(s)
  PROVE  /\ op[s] = NoOp /\ ~closed[s] /\ ref[s] = "held"
         /\ gen' \in [Socks -> Nat] /\ \A t \in Socks \ {s} : gen'[t] = gen[t]
<1>1. op[s] = NoOp
  BY OpShapes DEF CanSetPeer, IInv
<1>2. gen \in [Socks -> Nat]
  BY DEF IInv, TypeOK
<1> QED BY <1>1, <1>2 DEF CanSetPeer

LEMMA EndsTyped ==
  ASSUME TypeOK, NEW s \in Socks, NEW peer \in IPs \cup Names \cup Paths
  PROVE  Ends(s, peer) \in EndPairs
BY DEF TypeOK, Ends, EndPairs

LEMMA NobodyTyped == Nobody \in EndPairs
BY DEF EndPairs

LEMMA SetPeerRefusedKeeps ==
  ASSUME IInv, NEW s \in Socks, SetPeerRefused(s)
  PROVE  IInv'
<1>1. TypeOK /\ CanSetPeer(s) /\ link' = Left(s)
  BY DEF IInv, SetPeerRefused
<1>2. /\ op[s] = NoOp /\ op' = op /\ closed' = closed
      /\ conn'[s] = NoConn /\ connected'[s] = FALSE /\ asked'[s] = Nobody
  BY <1>1, SetsPeer DEF SetPeerRefused, TypeOK
<1>3. TypeOK'
  BY <1>1, SetsPeer, LeftLinks, NobodyTyped DEF SetPeerRefused, TypeOK, Links
<1>4. Others(s)
  BY <1>1, SetsPeer DEF SetPeerRefused, TypeOK, Others, SameSock
<1>5. Fits(s)'
  BY <1>1, <1>2, SetsPeer, NoReadFits, NoDialFits DEF Fits, PeerFits
<1>6. \A c \in Conns : SameLink(c) \/ Holds(s, c)
  BY <1>1, LeftLinks DEF SameLink, Holds
<1>7. \A c \in Conns : Keeps(s, c) \/ LetsGo(s, c)
  BY <1>1, <1>2, LeftLinks DEF Keeps, LetsGo, Holds, Carries
<1>8. ShutIsEmpty'
  BY <1>1, LeftLinks DEF IInv, ShutIsEmpty
<1> QED BY <1>2, <1>3, <1>4, <1>5, <1>6, <1>7, <1>8, NoReadFits, StepKeeps

LEMMA SetPeerNowKeeps ==
  ASSUME IInv, NEW s \in Socks, NEW peer \in IPs \cup Paths, SetPeerNow(s, peer)
  PROVE  IInv'
<1> DEFINE n == NewConn
           open == Link("open", Ends(s, peer))
<1>1. TypeOK /\ CanSetPeer(s) /\ n \in Conns /\ link[n] = Fresh
  BY NewConnFresh DEF IInv, SetPeerNow
<1>2. n # conn[s] /\ Ends(s, peer) \in EndPairs
  BY <1>1, ConnOpen, EndsTyped
<1>3. open \in Links /\ open.life = "open" /\ open.ends = Ends(s, peer)
  BY <1>2, EmptySeq DEF Links
<1>4. /\ link' \in [Conns -> Links]
      /\ \A c \in Conns : link'[c] = IF c = n THEN open ELSE IF c = conn[s] THEN Shut ELSE link[c]
  BY <1>1, <1>3, LeftLinks DEF SetPeerNow
<1>5. /\ op[s] = NoOp /\ op' = op /\ closed' = closed /\ ~closed[s]
      /\ conn'[s] = n /\ connected'[s] = TRUE /\ asked'[s] = Ends(s, peer)
  BY <1>1, SetsPeer DEF SetPeerNow, TypeOK
<1>6. TypeOK'
  BY <1>1, <1>2, <1>4, SetsPeer DEF SetPeerNow, TypeOK, Links
<1>7. Others(s)
  BY <1>1, SetsPeer DEF SetPeerNow, TypeOK, Others, SameSock
<1>8. Fits(s)'
  BY <1>1, <1>3, <1>4, <1>5, NoReadFits, NoDialFits DEF Fits, PeerFits
<1>9. \A c \in Conns : SameLink(c) \/ link[c] = Fresh \/ Holds(s, c)
  BY <1>1, <1>4 DEF SameLink, Holds
<1>10. \A c \in Conns : Keeps(s, c) \/ Gets(s, c) \/ LetsGo(s, c)
  BY <1>1, <1>3, <1>4, <1>5 DEF Keeps, Gets, LetsGo, Holds, Carries
<1>11. ShutIsEmpty'
  BY <1>3, <1>4 DEF IInv, ShutIsEmpty
<1>12. \A c \in Conns : Draws(s, c)' => Draws(s, c)
  BY <1>5, NoReadFits
<1> QED BY <1>6, <1>7, <1>8, <1>9, <1>10, <1>11, <1>12, StepKeeps

LEMMA SetPeerDialsKeeps ==
  ASSUME IInv, NEW s \in Socks, NEW peer \in Names, SetPeerDials(s, peer)
  PROVE  IInv'
<1>1. TypeOK /\ CanSetPeer(s) /\ link' = Left(s) /\ Ends(s, peer) \in EndPairs
  BY EndsTyped DEF IInv, SetPeerDials
<1>2. gen' \in [Socks -> Nat] /\ ~closed[s] /\ op[s] = NoOp
  BY <1>1, SetsPeer
<1>3. /\ op'[s] = [at |-> "dial", gen |-> gen'[s], ends |-> Ends(s, peer)]
      /\ closed' = closed /\ conn'[s] = NoConn /\ connected'[s] = FALSE
      /\ asked'[s] = Ends(s, peer)
  BY <1>1 DEF SetPeerDials, TypeOK
<1>4. op' \in [Socks -> Ops]
  BY <1>1, <1>2 DEF SetPeerDials, TypeOK, Ops, Dialing
<1>5. ref' \in [Socks -> {"held", "dropped", "collected"}]
  BY <1>1 DEF SetPeerDials, MayForget, TypeOK
<1>6. TypeOK'
  BY <1>1, <1>2, <1>4, <1>5, LeftLinks DEF SetPeerDials, TypeOK, Links, Ops
<1>7. Others(s)
  BY <1>1, SetsPeer DEF SetPeerDials, TypeOK, Others, SameSock
<1>8. Fits(s)'
  BY <1>2, <1>3, NoReadFits DEF Fits, PeerFits, DialFits
<1>9. \A c \in Conns : SameLink(c) \/ Holds(s, c)
  BY <1>1, LeftLinks DEF SameLink, Holds
<1>10. \A c \in Conns : Keeps(s, c) \/ LetsGo(s, c)
  BY <1>1, <1>2, <1>3, LeftLinks DEF Keeps, LetsGo, Holds, Carries
<1>11. ShutIsEmpty'
  BY <1>1, LeftLinks DEF IInv, ShutIsEmpty
<1> QED BY <1>3, <1>6, <1>7, <1>8, <1>9, <1>10, <1>11, NoReadFits, StepKeeps

\* Letting go of a connection for good, by close or by the finalizer.
LEMMA RetireKeeps ==
  ASSUME IInv, NEW s \in Socks, Retire(s),
         asked' = [asked EXCEPT ![s] = Nobody],
         ref' \in [Socks -> {"held", "dropped", "collected"}],
         UNCHANGED <<options, op, result>>
  PROVE  IInv'
<1>1. TypeOK /\ link' = Left(s) /\ Fits(s) /\ op' = op
  BY DEF IInv, Retire
<1>2. /\ closed'[s] = TRUE /\ conn'[s] = NoConn /\ connected'[s] = FALSE
      /\ asked'[s] = Nobody
  BY <1>1 DEF Retire, TypeOK
<1>3. TypeOK'
  BY <1>1, LeftLinks, NobodyTyped DEF Retire, TypeOK, Links
<1>4. Others(s)
  BY <1>1 DEF Retire, TypeOK, Others, SameSock
<1>5. PeerFits(s)' /\ DialFits(s)'
  BY <1>1, <1>2 DEF PeerFits, DialFits
<1>6. ReadFits(s)'
  BY <1>1, <1>2, LeftLinks DEF Fits, ReadFits, Receiving, ReadsFrom
<1>7. AnswerFits(s)'
  <2>1. op[s].at = "read" => op[s].conn \in Conns /\ op[s].timed \in BOOLEAN
    BY <1>1, OpShapes
  <2> QED BY <1>1, <2>1, LeftLinks DEF Fits, AnswerFits
<1>8. \A c \in Conns : SameLink(c) \/ Holds(s, c)
  BY <1>1, LeftLinks DEF SameLink, Holds
<1>9. \A c \in Conns : Keeps(s, c) \/ LetsGo(s, c)
  BY <1>1, <1>2, LeftLinks DEF Fits, DialFits, Keeps, LetsGo, Holds, Carries
<1>10. \A c \in Conns : Draws(s, c)' => Draws(s, c)
  BY <1>1 DEF Draws, Receiving, ReadsFrom
<1>11. ShutIsEmpty'
  BY <1>1, LeftLinks DEF IInv, ShutIsEmpty
<1> QED BY <1>3, <1>4, <1>5, <1>6, <1>7, <1>8, <1>9, <1>10, <1>11, StepKeeps DEF Fits

LEMMA CloseKeeps ==
  ASSUME IInv, NEW s \in Socks, Close(s)
  PROVE  IInv'
BY RetireKeeps DEF Close, IInv, TypeOK

LEMMA GcKeeps ==
  ASSUME IInv, NEW s \in Socks, Gc(s)
  PROVE  IInv'
<1>1. ref' \in [Socks -> {"held", "dropped", "collected"}]
  BY DEF IInv, TypeOK, Gc
<1> QED BY <1>1, RetireKeeps DEF Gc

LEMMA ReceiveKeeps ==
  ASSUME IInv, NEW s \in Socks, NEW n \in Sizes, Receive(s, n)
  PROVE  IInv'
<1>0. PICK c \in Conns : c = conn[s]
  BY ConnOpen DEF Receive, Usable, Fits, PeerFits
<1>1. TypeOK /\ Fits(s) /\ c = conn[s] /\ IsOpen(c) /\ Holds(s, c) /\ ~closed[s]
  BY <1>0, ConnOpen DEF Receive, Usable
<1>2. ReceiveSize(n) \in 1..MaxSize /\ (timeout[s] > 0) \in BOOLEAN
  BY DEF ReceiveSize
<1>3. op'[s] = [at |-> "receive", conn |-> c, size |-> ReceiveSize(n), timed |-> timeout[s] > 0]
  BY <1>1 DEF Receive, TypeOK
<1>4. op'[s] \in Reading /\ op' \in [Socks -> Ops]
  BY <1>1, <1>2, <1>3 DEF Receive, TypeOK, Reading, Ops
<1>5. ref' \in [Socks -> {"held", "dropped", "collected"}]
  BY <1>1 DEF Receive, MayForget, TypeOK
<1>6. TypeOK'
  BY <1>1, <1>4, <1>5 DEF Receive, TypeOK, Ops
<1>7. link' = link /\ conn' = conn /\ connected' = connected /\ closed' = closed /\ asked' = asked
  BY DEF Receive
<1>8. Others(s)
  BY <1>1, <1>7 DEF Receive, TypeOK, Others, SameSock
<1>9. Fits(s)'
  <2>1. PeerFits(s)'
    BY <1>1, <1>3, <1>7 DEF Fits, PeerFits
  <2>2. ReadFits(s)' /\ AnswerFits(s)'
    BY <1>1, <1>3, <1>7 DEF ReadFits, AnswerFits, Receiving, ReadsFrom
  <2> QED BY <1>3, <2>1, <2>2, NoDialFits DEF Fits
<1>10. \A t \in Socks : Fits(t)'
  BY <1>7, <1>8, <1>9, OthersFit DEF SameLink
<1>11. op[s].at = "none"
  BY DEF Receive, Usable
<1>12. \A d \in Conns : Holds(s, d)' <=> Holds(s, d)
  BY <1>3, <1>7, <1>11 DEF Holds, Carries
<1>13. Held'
  BY <1>7, <1>8, <1>12, StaysHeld DEF IInv, Keeps
<1>14. \A t \in Socks : Draws(t, c)' => t = s
  <2> SUFFICES ASSUME NEW t \in Socks, Draws(t, c)', t # s PROVE FALSE
    OBVIOUS
  <2>1. Draws(t, c)
    BY <1>8 DEF Others, SameSock, Draws, Receiving, ReadsFrom
  <2>2. Holds(t, c)
    BY <1>1, <2>1 DEF IInv, Fits, ReadFits, Draws, Holds
  <2> QED BY <1>1, <2>2 DEF IInv, Held
<1>15. \A d \in Conns : Draws(s, d)' => d = c
  BY <1>3 DEF Draws, ReadsFrom
<1>16. \A t \in Socks \ {s}, d \in Conns : Draws(t, d)' => Draws(t, d)
  BY <1>8 DEF Others, SameSock, Draws, Receiving, ReadsFrom
<1>17. ReadersApart'
  <2> SUFFICES ASSUME NEW t \in Socks, NEW u \in Socks, NEW d \in Conns, Draws(t, d)', Draws(u, d)'
               PROVE  t = u
    BY DEF ReadersApart
  <2>1. CASE d = c
    BY <1>14, <2>1
  <2>2. CASE d # c
    BY <1>15, <1>16, <2>2 DEF IInv, ReadersApart
  <2> QED BY <2>1, <2>2
<1>18. ShutIsEmpty'
  BY <1>7 DEF IInv, ShutIsEmpty
<1> QED BY <1>6, <1>10, <1>13, <1>17, <1>18 DEF IInv

LEMMA DialedKeeps ==
  ASSUME IInv, NEW s \in Socks, Dialed(s)
  PROVE  IInv'
<1> DEFINE n == NewConn
           open == Link("open", op[s].ends)
<1>1. TypeOK /\ Fits(s) /\ n \in Conns /\ link[n] = Fresh /\ op[s].at = "dial"
  BY NewConnFresh DEF IInv, Dialed
<1>2. op[s].gen \in Nat /\ op[s].ends \in EndPairs
  BY <1>1, OpShapes
<1>3. open \in Links /\ open.life = "open" /\ open.ends = op[s].ends
  BY <1>2, EmptySeq DEF Links
<1>4. /\ link' \in [Conns -> Links]
      /\ \A c \in Conns : link'[c] = IF c = n THEN open ELSE link[c]
  BY <1>1, <1>3 DEF Dialed, TypeOK, Links
<1>5. op'[s] = [at |-> "dialed", gen |-> op[s].gen, conn |-> n]
  BY <1>1 DEF Dialed, TypeOK
<1>6. op' \in [Socks -> Ops]
  BY <1>1, <1>2, <1>5 DEF Dialed, TypeOK, Ops, Dialled
<1>7. /\ conn' = conn /\ connected' = connected /\ closed' = closed
      /\ gen' = gen /\ asked' = asked
  BY DEF Dialed
<1>8. TypeOK'
  BY <1>1, <1>4, <1>6 DEF Dialed, TypeOK, Links, Ops
<1>9. Others(s)
  BY <1>1, <1>7 DEF Dialed, TypeOK, Others, SameSock
<1>10. conn[s] = NoConn
  BY <1>1 DEF Fits, DialFits
<1>11. PeerFits(s)' /\ DialFits(s)'
  BY <1>1, <1>3, <1>4, <1>5, <1>7, <1>10 DEF Fits, PeerFits, DialFits
<1>12. ReadFits(s)' /\ AnswerFits(s)' /\ \A c \in Conns : Draws(s, c)' => Draws(s, c)
  BY <1>5, NoReadFits
<1>13. \A c \in Conns : SameLink(c) \/ link[c] = Fresh
  BY <1>1, <1>4 DEF SameLink
<1>14. \A c \in Conns : Keeps(s, c) \/ Gets(s, c)
  BY <1>1, <1>3, <1>4, <1>5, <1>7, <1>10 DEF Keeps, Gets, Holds, Carries
<1>15. ShutIsEmpty'
  BY <1>3, <1>4 DEF IInv, ShutIsEmpty
<1> QED BY <1>8, <1>9, <1>11, <1>12, <1>13, <1>14, <1>15, StepKeeps DEF Fits

LEMMA DialFailsKeeps ==
  ASSUME IInv, NEW s \in Socks, DialFails(s)
  PROVE  IInv'
<1>1. TypeOK /\ Fits(s) /\ op[s].at = "dial" /\ op[s].gen \in Nat
  BY OpShapes DEF IInv, DialFails
<1>2. op'[s] = [at |-> "dialed", gen |-> op[s].gen, conn |-> NoConn]
  BY <1>1 DEF DialFails, TypeOK
<1>3. op' \in [Socks -> Ops]
  BY <1>1, <1>2 DEF DialFails, TypeOK, Ops, Dialled
<1>4. /\ link' = link /\ conn' = conn /\ connected' = connected /\ closed' = closed
      /\ gen' = gen /\ asked' = asked
  BY DEF DialFails
<1>5. TypeOK'
  BY <1>1, <1>3 DEF DialFails, TypeOK, Ops
<1>6. Others(s)
  BY <1>1, <1>4 DEF DialFails, TypeOK, Others, SameSock
<1>7. PeerFits(s)' /\ DialFits(s)'
  BY <1>1, <1>2, <1>4 DEF Fits, PeerFits, DialFits
<1>8. ReadFits(s)' /\ AnswerFits(s)' /\ \A c \in Conns : Draws(s, c)' => Draws(s, c)
  BY <1>2, NoReadFits
<1>9. \A c \in Conns : SameLink(c) /\ Keeps(s, c)
  BY <1>1, <1>2, <1>4 DEF SameLink, Keeps, Holds, Carries
<1>10. ShutIsEmpty'
  BY <1>4 DEF IInv, ShutIsEmpty
<1> QED BY <1>5, <1>6, <1>7, <1>8, <1>9, <1>10, StepKeeps DEF Fits

\* The socket whose receive a goroutine goes on with.
LEMMA ReadingOf ==
  ASSUME IInv, NEW s \in Socks, op[s].at \in {"receive", "read"}
  PROVE  /\ TypeOK /\ Fits(s) /\ op[s] \in Reading /\ op[s].conn \in Conns
         /\ link \in [Conns -> Links] /\ link[op[s].conn] \in Links
         /\ link[op[s].conn].life # "fresh"
         /\ ~IsOpen(op[s].conn) => link[op[s].conn] = Shut
         /\ IsOpen(op[s].conn) => conn[s] = op[s].conn
<1>1. TypeOK /\ Fits(s) /\ link \in [Conns -> Links]
  BY DEF IInv, TypeOK, Links
<1>2. op[s] \in Reading /\ op[s].conn \in Conns
  BY <1>1, OpShapes
<1>3. Receiving(s) /\ ReadsFrom(s) = op[s].conn
  BY DEF Receiving, ReadsFrom
<1>4. ~IsOpen(op[s].conn) => link[op[s].conn] = Shut
  <2>1. link[op[s].conn].life # "fresh"
    BY <1>1, <1>3 DEF Fits, ReadFits
  <2>2. ~IsOpen(op[s].conn) => link[op[s].conn] \in {Fresh, Shut}
    BY <1>2 DEF IInv, ShutIsEmpty
  <2>3. Fresh.life = "fresh"
    OBVIOUS
  <2> QED BY <2>1, <2>2, <2>3, Zenon
<1> QED BY <1>1, <1>2, <1>3, <1>4 DEF Fits, ReadFits

\* A step of a receive: the socket stays, its connection stays open or shut.
LEMMA ReadStepKeeps ==
  ASSUME IInv, NEW s \in Socks, op[s].at \in {"receive", "read"}, TypeOK',
         UNCHANGED <<bond, options, ref, history>>,
         op'[s].at \in {"read", "got"}, ReadsFrom(s)' = op[s].conn,
         \A t \in Socks \ {s} : op'[t] = op[t],
         \A c \in Conns : c # op[s].conn => link'[c] = link[c],
         link'[op[s].conn].life = link[op[s].conn].life,
         link'[op[s].conn].ends = link[op[s].conn].ends,
         ~IsOpen(op[s].conn) => link'[op[s].conn] = link[op[s].conn],
         AnswerFits(s)'
  PROVE  IInv'
<1> DEFINE o == op[s]
<1>1. /\ TypeOK /\ Fits(s) /\ o.conn \in Conns /\ link[o.conn].life # "fresh"
      /\ IsOpen(o.conn) => conn[s] = o.conn
  BY ReadingOf
<1>2. Others(s)
  BY DEF Others, SameSock
<1>3. PeerFits(s)'
  BY <1>1, ConnOpen DEF Fits, PeerFits
<1>4. ReadFits(s)'
  <2>1. Receiving(s) /\ ReadsFrom(s) = o.conn
    BY DEF Receiving, ReadsFrom
  <2> QED BY <1>1, <2>1 DEF Fits, ReadFits
<1>5. \A c \in Conns : SameLink(c) \/ Holds(s, c)
  BY <1>1 DEF SameLink, Holds
<1>6. \A c \in Conns : Keeps(s, c)
  BY <1>1 DEF Keeps, Holds, Carries
<1>7. \A c \in Conns : Draws(s, c)' => Draws(s, c)
  BY DEF Draws, Receiving, ReadsFrom
<1>8. ShutIsEmpty'
  BY DEF IInv, ShutIsEmpty
<1> QED BY <1>2, <1>3, <1>4, <1>5, <1>6, <1>7, <1>8, NoDialFits, StepKeeps DEF Fits

LEMMA StartsReadKeeps ==
  ASSUME IInv, NEW s \in Socks, StartsRead(s)
  PROVE  IInv'
<1> DEFINE o == op[s]
<1>1. /\ TypeOK /\ o.at = "receive" /\ o \in Reading /\ o.conn \in Conns /\ o.timed \in BOOLEAN
      /\ link \in [Conns -> Links] /\ link[o.conn] \in Links
      /\ ~IsOpen(o.conn) => link[o.conn] = Shut
  BY ReadingOf DEF StartsRead, Reading
<1>2. /\ link' \in [Conns -> Links]
      /\ \A c \in Conns : c # o.conn => link'[c] = link[c]
      /\ link'[o.conn].life = link[o.conn].life
      /\ link'[o.conn].ends = link[o.conn].ends
      /\ ~IsOpen(o.conn) => link'[o.conn] = link[o.conn]
      /\ link'[o.conn].deadline => o.timed
  <2>1. CASE IsOpen(o.conn)
    <3>1. [link[o.conn] EXCEPT !.deadline = o.timed] \in Links
      BY <1>1 DEF Links
    <3>2. link' = [link EXCEPT ![o.conn] = [link[o.conn] EXCEPT !.deadline = o.timed]]
      BY <1>1, <2>1 DEF StartsRead, SetDeadline
    <3>3. /\ link'[o.conn] = [link[o.conn] EXCEPT !.deadline = o.timed]
          /\ \A c \in Conns : c # o.conn => link'[c] = link[c]
      BY <1>1, <3>2
    <3> QED BY <1>1, <2>1, <3>1, <3>2, <3>3 DEF Links
  <2>2. CASE ~IsOpen(o.conn)
    <3>1. link' = link
      BY <2>2 DEF StartsRead, SetDeadline
    <3> QED BY <1>1, <2>2, <3>1
  <2> QED BY <2>1, <2>2
<1>3. op'[s] = [o EXCEPT !.at = "read"] /\ \A t \in Socks \ {s} : op'[t] = op[t]
  BY <1>1 DEF StartsRead, TypeOK
<1>4. op'[s] \in Reading /\ op'[s].at = "read" /\ op'[s].conn = o.conn /\ op'[s].timed = o.timed
  BY <1>1, <1>3 DEF Reading
<1>5. op' \in [Socks -> Ops]
  BY <1>1, <1>4 DEF StartsRead, TypeOK, Ops
<1>6. TypeOK'
  BY <1>1, <1>2, <1>5 DEF StartsRead, TypeOK, Links, Ops
<1>7. ReadsFrom(s)' = o.conn /\ AnswerFits(s)'
  BY <1>2, <1>4 DEF ReadsFrom, AnswerFits
<1>8. UNCHANGED <<bond, options, ref, history>>
  BY DEF StartsRead
<1> QED BY <1>1, <1>2, <1>3, <1>4, <1>6, <1>7, <1>8, ReadStepKeeps

\* The answer of a read is posted as such.
LEMMA PostsAnswer ==
  ASSUME IInv, NEW s \in Socks, op[s].at = "read",
         NEW answer \in {"data", "timeout", "error"},
         NEW length \in 0..MaxSize, NEW bytes \in 0..MaxSize,
         Post(s, Answer(op[s], answer, length, bytes)),
         answer = "timeout" => op[s].timed,
         answer = "data" => bytes = Least(length, op[s].size)
  PROVE  /\ op'[s].at = "got" /\ ReadsFrom(s)' = op[s].conn /\ AnswerFits(s)'
         /\ op' \in [Socks -> Ops] /\ \A t \in Socks \ {s} : op'[t] = op[t]
<1> DEFINE o == op[s]
           r == [conn |-> o.conn, answer |-> answer, size |-> o.size, timed |-> o.timed,
                 length |-> length, bytes |-> bytes]
<1>1. o \in Reading /\ o.conn \in Conns /\ o.timed \in BOOLEAN /\ o.size \in 0..MaxSize
  BY ReadingOf DEF Reading
<1>2. r \in Results
  BY <1>1 DEF Results
<1>3. op \in [Socks -> Ops]
  BY DEF IInv, TypeOK, Ops
<1>4. op'[s] = [at |-> "got", result |-> r] /\ \A t \in Socks \ {s} : op'[t] = op[t]
  BY <1>3 DEF Answer
<1>5. op' \in [Socks -> Ops]
  BY <1>2, <1>3, <1>4 DEF Answer, Ops, Got
<1>6. ReadsFrom(s)' = o.conn /\ AnswerFits(s)'
  BY <1>4 DEF ReadsFrom, AnswerFits
<1> QED BY <1>4, <1>5, <1>6

LEMMA ReadTakesKeeps ==
  ASSUME IInv, NEW s \in Socks, ReadTakes(s)
  PROVE  IInv'
<1> DEFINE o == op[s]
           inbox == link[o.conn].inbox
           n == Head(inbox)
<1>1. /\ TypeOK /\ o.at = "read" /\ o.conn \in Conns /\ o.size \in 1..MaxSize
      /\ link \in [Conns -> Links] /\ link[o.conn] \in Links
      /\ ~IsOpen(o.conn) => link[o.conn] = Shut
  BY ReadingOf DEF ReadTakes, Reading
<1>2. inbox \in Seq(0..MaxSize) /\ inbox # <<>> /\ IsOpen(o.conn)
  BY <1>1 DEF ReadTakes, Links
<1>3. n \in 0..MaxSize /\ Tail(inbox) \in Seq(0..MaxSize)
  BY <1>2, HeadTailProperties
<1>4. Least(n, o.size) \in 0..MaxSize
  BY <1>1, <1>3 DEF Least
<1>5. [link[o.conn] EXCEPT !.inbox = Tail(inbox)] \in Links
  BY <1>1, <1>3 DEF Links
<1>6. link' = [link EXCEPT ![o.conn] = [link[o.conn] EXCEPT !.inbox = Tail(inbox)]]
  BY DEF ReadTakes
<1>7. /\ link' \in [Conns -> Links]
      /\ \A c \in Conns : c # o.conn => link'[c] = link[c]
      /\ link'[o.conn].life = link[o.conn].life /\ link'[o.conn].ends = link[o.conn].ends
  BY <1>1, <1>5, <1>6 DEF Links
<1>8. Post(s, Answer(o, "data", n, Least(n, o.size)))
  BY DEF ReadTakes
<1>9. /\ op'[s].at = "got" /\ ReadsFrom(s)' = o.conn /\ AnswerFits(s)'
      /\ op' \in [Socks -> Ops] /\ \A t \in Socks \ {s} : op'[t] = op[t]
  BY <1>1, <1>3, <1>4, <1>8, PostsAnswer
<1>10. TypeOK'
  BY <1>1, <1>7, <1>9 DEF ReadTakes, TypeOK, Links, Ops
<1>11. UNCHANGED <<bond, options, ref, history>>
  BY DEF ReadTakes
<1> QED BY <1>1, <1>2, <1>7, <1>9, <1>10, <1>11, ReadStepKeeps

LEMMA ReadTimesOutKeeps ==
  ASSUME IInv, NEW s \in Socks, ReadTimesOut(s)
  PROVE  IInv'
<1> DEFINE o == op[s]
<1>1. TypeOK /\ o.at = "read" /\ o.conn \in Conns /\ o.timed
  BY ReadingOf DEF ReadTimesOut, Fits, AnswerFits
<1>2. Post(s, Answer(o, "timeout", 0, 0)) /\ link' = link
  BY DEF ReadTimesOut
<1>3. /\ op'[s].at = "got" /\ ReadsFrom(s)' = o.conn /\ AnswerFits(s)'
      /\ op' \in [Socks -> Ops] /\ \A t \in Socks \ {s} : op'[t] = op[t]
  BY <1>1, <1>2, 0 \in 0..MaxSize, PostsAnswer
<1>4. TypeOK'
  BY <1>1, <1>3 DEF ReadTimesOut, TypeOK, Ops
<1>5. UNCHANGED <<bond, options, ref, history>>
  BY DEF ReadTimesOut
<1> QED BY <1>1, <1>2, <1>3, <1>4, <1>5, ReadStepKeeps

LEMMA ReadFailsKeeps ==
  ASSUME IInv, NEW s \in Socks, ReadFails(s)
  PROVE  IInv'
<1> DEFINE o == op[s]
<1>1. /\ TypeOK /\ o.at = "read" /\ o.conn \in Conns
      /\ link \in [Conns -> Links] /\ link[o.conn] \in Links
      /\ ~IsOpen(o.conn) => link[o.conn] = Shut
  BY ReadingOf DEF ReadFails
<1>2. [link[o.conn] EXCEPT !.refused = FALSE] \in Links
  BY <1>1 DEF Links
<1>3. link' = [link EXCEPT ![o.conn] = [link[o.conn] EXCEPT !.refused = FALSE]]
  BY DEF ReadFails
<1>4. /\ link' \in [Conns -> Links]
      /\ \A c \in Conns : c # o.conn => link'[c] = link[c]
      /\ link'[o.conn].life = link[o.conn].life /\ link'[o.conn].ends = link[o.conn].ends
      /\ ~IsOpen(o.conn) => link'[o.conn] = link[o.conn]
  <2>1. /\ link'[o.conn] = [link[o.conn] EXCEPT !.refused = FALSE]
        /\ \A c \in Conns : c # o.conn => link'[c] = link[c]
    BY <1>1, <1>3
  <2>2. link[o.conn] = Shut => link'[o.conn] = Shut
    <3> SUFFICES ASSUME link[o.conn] = Shut PROVE [link[o.conn] EXCEPT !.refused = FALSE] = link[o.conn]
      BY <2>1
    <3>1. link[o.conn].refused = FALSE
      OBVIOUS
    <3> QED BY <1>1, <1>2, <3>1 DEF Links
  <2> QED BY <1>1, <1>2, <1>3, <2>1, <2>2 DEF Links
<1>5. Post(s, Answer(o, "error", 0, 0))
  BY DEF ReadFails
<1>6. /\ op'[s].at = "got" /\ ReadsFrom(s)' = o.conn /\ AnswerFits(s)'
      /\ op' \in [Socks -> Ops] /\ \A t \in Socks \ {s} : op'[t] = op[t]
  BY <1>1, <1>5, 0 \in 0..MaxSize, PostsAnswer
<1>7. TypeOK'
  BY <1>1, <1>4, <1>6 DEF ReadFails, TypeOK, Links, Ops
<1>8. UNCHANGED <<bond, options, ref, history>>
  BY DEF ReadFails
<1> QED BY <1>1, <1>4, <1>6, <1>7, <1>8, ReadStepKeeps

LEMMA SetPeerResumesKeeps ==
  ASSUME IInv, NEW s \in Socks, SetPeerResumes(s)
  PROVE  IInv'
<1> DEFINE c == op[s].conn
<1>1. /\ TypeOK /\ Fits(s) /\ op[s].at = "dialed" /\ c \in Conns \cup {NoConn} /\ conn[s] = NoConn
      /\ link \in [Conns -> Links]
  BY OpShapes, ConnOpen DEF SetPeerResumes, Fits, DialFits
<1>2. c \in Conns => Holds(s, c) /\ IsOpen(c)
  BY <1>1 DEF Holds, Carries, IInv, Held
<1>3. op'[s] = NoOp /\ op' \in [Socks -> Ops] /\ \A t \in Socks \ {s} : op'[t] = op[t]
  BY <1>1 DEF SetPeerResumes, TypeOK, Ops
<1>4. closed' = closed /\ gen' = gen /\ UNCHANGED <<options, ref, result>>
  BY DEF SetPeerResumes
<1>5. /\ asked'[s] = IF c = NoConn THEN Nobody ELSE asked[s]
      /\ asked' \in [Socks -> EndPairs] /\ \A t \in Socks \ {s} : asked'[t] = asked[t]
  BY <1>1, NobodyTyped DEF SetPeerResumes, TypeOK
<1>6. \A d \in Conns : Draws(s, d)' => Draws(s, d)
  BY <1>3, NoReadFits
<1>7. connected[s] = FALSE
  BY <1>1 DEF Fits, PeerFits, TypeOK
<1>8. CASE c = NoConn
  <2>1. link' = link /\ conn' = conn /\ connected' = connected
    BY <1>8 DEF SetPeerResumes
  <2>2. TypeOK'
    BY <1>1, <1>3, <1>4, <1>5, <2>1 DEF TypeOK, Ops
  <2>3. Others(s)
    BY <1>3, <1>4, <1>5, <2>1 DEF Others, SameSock
  <2>4. Fits(s)'
    BY <1>1, <1>3, <1>4, <1>5, <1>7, <1>8, <2>1, NoReadFits, NoDialFits DEF Fits, PeerFits
  <2>5. \A d \in Conns : SameLink(d) /\ Keeps(s, d)
    BY <1>1, <1>3, <1>8, <2>1 DEF SameLink, Keeps, Holds, Carries
  <2>6. ShutIsEmpty'
    BY <2>1 DEF IInv, ShutIsEmpty
  <2> QED BY <1>6, <2>2, <2>3, <2>4, <2>5, <2>6, StepKeeps
<1>9. CASE c # NoConn /\ Stale(s)
  <2>1. link' = [link EXCEPT ![c] = Shut] /\ conn' = conn /\ connected' = connected
    BY <1>9 DEF SetPeerResumes
  <2>2. link' \in [Conns -> Links] /\ \A d \in Conns : link'[d] = IF d = c THEN Shut ELSE link[d]
    BY <1>1, <2>1, EmptyLinks
  <2>3. TypeOK'
    BY <1>1, <1>3, <1>4, <1>5, <2>1, <2>2 DEF TypeOK, Ops, Links
  <2>4. Others(s)
    BY <1>3, <1>4, <1>5, <2>1 DEF Others, SameSock
  <2>5. closed[s]
    BY <1>1, <1>9 DEF Stale, Fits, DialFits
  <2>6. Fits(s)'
    BY <1>1, <1>3, <1>4, <1>5, <1>7, <1>9, <2>1, <2>5, NoReadFits, NoDialFits DEF Fits, PeerFits
  <2>7. \A d \in Conns : SameLink(d) \/ Holds(s, d)
    BY <1>2, <2>2 DEF SameLink
  <2>8. \A d \in Conns : Keeps(s, d) \/ LetsGo(s, d)
    BY <1>1, <1>2, <1>3, <2>1, <2>2 DEF Keeps, LetsGo, Holds, Carries
  <2>9. ShutIsEmpty'
    BY <2>2 DEF IInv, ShutIsEmpty
  <2> QED BY <1>6, <2>3, <2>4, <2>6, <2>7, <2>8, <2>9, StepKeeps
<1>10. CASE c # NoConn /\ ~Stale(s)
  <2>1. Bond(s, c) /\ link' = link
    BY <1>10 DEF SetPeerResumes
  <2>2. /\ conn'[s] = c /\ conn' \in [Socks -> Conns \cup {NoConn}]
        /\ connected'[s] = TRUE /\ connected' \in [Socks -> BOOLEAN]
        /\ \A t \in Socks \ {s} : conn'[t] = conn[t] /\ connected'[t] = connected[t]
    BY <1>1, <2>1 DEF TypeOK
  <2>3. TypeOK'
    BY <1>1, <1>3, <1>4, <1>5, <2>1, <2>2 DEF TypeOK, Ops
  <2>4. Others(s)
    BY <1>3, <1>4, <1>5, <2>2 DEF Others, SameSock
  <2>5. ~closed[s] /\ link[c].ends = asked[s]
    BY <1>1, <1>10 DEF Stale, Fits, DialFits
  <2>6. Fits(s)'
    BY <1>3, <1>4, <1>5, <1>10, <2>1, <2>2, <2>5, NoReadFits, NoDialFits DEF Fits, PeerFits
  <2>7. \A d \in Conns : SameLink(d) /\ Keeps(s, d)
    BY <1>1, <1>2, <1>3, <1>10, <2>1, <2>2 DEF SameLink, Keeps, Holds, Carries
  <2>8. ShutIsEmpty'
    BY <2>1 DEF IInv, ShutIsEmpty
  <2> QED BY <1>6, <2>3, <2>4, <2>6, <2>7, <2>8, StepKeeps
<1> QED BY <1>8, <1>9, <1>10

LEMMA ReceiveResumesKeeps ==
  ASSUME IInv, NEW s \in Socks, ReceiveResumes(s)
  PROVE  IInv'
<1>1. TypeOK /\ Fits(s) /\ op[s].at = "got" /\ op[s].result \in Results
  BY OpShapes DEF IInv, ReceiveResumes
<1>2. Fits(s) /\ ReadsFrom(s) \in Conns /\ ~closed[s] => conn[s] = ReadsFrom(s)
  BY <1>1 DEF IInv, Fits, ReadFits, Receiving
<1>3. op'[s] = NoOp /\ op' \in [Socks -> Ops] /\ \A t \in Socks \ {s} : op'[t] = op[t]
  BY <1>1 DEF ReceiveResumes, TypeOK, Ops
<1>4. UNCHANGED <<link, bond, options, ref, asked>> /\ result' = op[s].result
  BY DEF ReceiveResumes
<1>5. TypeOK'
  BY <1>1, <1>3, <1>4 DEF TypeOK, Ops
<1>6. Others(s)
  BY <1>3, <1>4 DEF Others, SameSock
<1>7. PeerFits(s)'
  <2>1. ~HasConn(s) => asked[s] = Nobody
    BY <1>1 DEF Fits, PeerFits, ReadFits, Receiving
  <2> QED BY <1>1, <1>4, <2>1 DEF Fits, PeerFits
<1>8. Fits(s)'
  BY <1>3, <1>7, NoReadFits, NoDialFits DEF Fits
<1>9. \A d \in Conns : SameLink(d) /\ Keeps(s, d)
  BY <1>1, <1>3, <1>4 DEF SameLink, Keeps, Holds, Carries
<1>10. \A d \in Conns : Draws(s, d)' => Draws(s, d)
  BY <1>3, NoReadFits
<1>11. ShutIsEmpty'
  BY <1>4 DEF IInv, ShutIsEmpty
<1> QED BY <1>5, <1>6, <1>8, <1>9, <1>10, <1>11, StepKeeps

-----------------------------------------------------------------------------
(* The safety properties.                                                  *)

LEMMA StutterKeeps == IInv /\ UNCHANGED vars => IInv'
<1> SUFFICES ASSUME IInv, UNCHANGED vars PROVE IInv'
  OBVIOUS
<1> USE DEF vars
<1>1. TypeOK' /\ ShutIsEmpty'
  BY DEF IInv, TypeOK, ShutIsEmpty
<1>2. (\A t \in Socks : SameSock(t)) /\ \A c \in Conns : SameLink(c)
  BY DEF SameSock, SameLink
<1> QED BY <1>1, <1>2, QuietKeeps

LEMMA InitHolds == Init => IInv
<1> SUFFICES ASSUME Init PROVE IInv
  OBVIOUS
<1> USE DEF Init
<1>1. TypeOK
  <2>1. link \in [Conns -> Links]
    BY EmptyLinks
  <2>2. Nothing \in Results
    BY DEF Nothing, Results
  <2> QED BY <2>1, <2>2, NobodyTyped DEF TypeOK, Links
<1>2. \A s \in Socks : Fits(s)
  BY DEF Fits, PeerFits, DialFits, ReadFits, Receiving, AnswerFits
<1>3. Held
  BY DEF Held, Holds, Carries
<1>4. ReadersApart
  BY DEF ReadersApart, Draws, Receiving
<1>5. ShutIsEmpty
  BY DEF ShutIsEmpty
<1> QED BY <1>1, <1>2, <1>3, <1>4, <1>5 DEF IInv

LEMMA NextKeeps == IInv /\ [Next]_vars => IInv'
<1> SUFFICES ASSUME IInv, Next PROVE IInv'
  BY StutterKeeps
<1>1. CASE Network
  BY <1>1, ArriveKeeps, UnreachableKeeps DEF Network
<1>2. ASSUME NEW s \in Socks, Method(s) PROVE IInv'
  BY <1>2, SetPeerRefusedKeeps, SetPeerNowKeeps, SetPeerDialsKeeps, ReceiveKeeps,
     SetTimeoutKeeps, BindKeeps, SendKeeps, CloseKeeps, ForgetKeeps
     DEF Method, SetPeerName
<1>3. ASSUME NEW s \in Socks, Dials(s) \/ Reads(s) PROVE IInv'
  BY <1>3, DialedKeeps, DialFailsKeeps, StartsReadKeeps, ReadTakesKeeps,
     ReadTimesOutKeeps, ReadFailsKeeps DEF Dials, Reads
<1>4. ASSUME NEW s \in Socks, Resumes(s) \/ Gc(s) PROVE IInv'
  BY <1>4, SetPeerResumesKeeps, ReceiveResumesKeeps, GcKeeps DEF Resumes
<1> QED BY <1>1, <1>2, <1>3, <1>4 DEF Next

\* The inductive invariant holds in every state that UdpSocket reaches.
THEOREM Invariance == Spec => []IInv
BY InitHolds, NextKeeps, PTL DEF Spec

\* Every variable has its type, whatever the sockets, peers, sizes and timeouts.
THEOREM TypeCorrect == Spec => []TypeOK
<1>1. IInv => TypeOK
  BY DEF IInv
<1> QED BY <1>1, Invariance, PTL

\* Every open connection has one socket, or one dial, that will close it; and send
\* and receive use the peer of the last setpeername.
THEOREM TheRightPeer == Spec => []RightPeer
<1>1. IInv => RightPeer
  BY HolderIs DEF IInv, Fits, PeerFits, RightPeer
<1> QED BY <1>1, Invariance, PTL

-----------------------------------------------------------------------------
(* UdpSocket implements DatagramService: what a read has taken and Lua code *)
(* has not been given is the head of the queue.                             *)

Queued(c) ==
  IF Pending(c) = {} THEN link[c].inbox
  ELSE <<op[CHOOSE s \in Pending(c) : TRUE].result.length>> \o link[c].inbox

Queues == [c \in Conns |-> Queued(c)]

Simulates == [Promise!Next]_(Promise!vars)

LEMMA OneChosen == \A x : (CHOOSE y \in {x} : TRUE) = x
OBVIOUS

\* At most one answer is under way on a connection.
LEMMA OnePending ==
  ASSUME IInv, NEW c \in Conns, NEW s \in Pending(c)
  PROVE  /\ s \in Socks /\ Pending(c) = {s} /\ Draws(s, c)
         /\ op[s].result \in Results
         /\ Queued(c) = <<op[s].result.length>> \o link[c].inbox
<1>1. TypeOK /\ s \in Socks /\ op[s].at = "got"
  BY DEF IInv, Pending
<1>2. \A t \in Pending(c) : Draws(t, c)
  BY DEF Pending, Draws, Receiving, ReadsFrom
<1>3. Pending(c) = {s}
  BY <1>2 DEF Pending, IInv, ReadersApart
<1>4. Queued(c) = <<op[s].result.length>> \o link[c].inbox
  BY <1>3, OneChosen DEF Queued
<1> QED BY <1>1, <1>2, <1>3, <1>4, OpShapes

LEMMA NonePending ==
  ASSUME NEW c \in Conns, Pending(c) = {}
  PROVE  Queued(c) = link[c].inbox
BY DEF Queued

LEMMA QueuedTyped ==
  ASSUME IInv, NEW c \in Conns
  PROVE  link[c].inbox \in Seq(0..MaxSize) /\ Queued(c) \in Seq(0..MaxSize)
<1>1. link[c].inbox \in Seq(0..MaxSize)
  BY DEF IInv, TypeOK
<1>2. ASSUME NEW s \in Pending(c) PROVE Queued(c) \in Seq(0..MaxSize)
  <2>1. op[s].result.length \in 0..MaxSize
    BY OnePending DEF Results
  <2>2. <<op[s].result.length>> \in Seq(0..MaxSize)
    BY <2>1
  <2>3. Queued(c) = <<op[s].result.length>> \o link[c].inbox
    BY OnePending
  <2> QED BY <1>1, <2>2, <2>3, ConcatProperties
<1> QED BY <1>1, <1>2, NonePending

\* What the answers under way are.
SamePending(c) == Pending(c)' = Pending(c) /\ \A t \in Pending(c) : op'[t] = op[t]

LEMMA StaysPending ==
  ASSUME \A t \in Socks : op'[t] = op[t] \/ \A c \in Conns : t \notin Pending(c) /\ ~(t \in Pending(c))'
  PROVE  \A c \in Conns : SamePending(c)
<1> SUFFICES ASSUME NEW c \in Conns PROVE SamePending(c)
  OBVIOUS
<1>1. \A t \in Socks : (t \in Pending(c))' <=> t \in Pending(c)
  BY DEF Pending
<1>2. Pending(c)' = Pending(c)
  BY <1>1 DEF Pending
<1> QED BY <1>2 DEF SamePending, Pending

LEMMA SameQueued ==
  ASSUME NEW c \in Conns, SamePending(c), link'[c].inbox = link[c].inbox
  PROVE  Queued(c)' = Queued(c)
<1>1. CASE Pending(c) = {}
  BY <1>1 DEF SamePending, Queued
<1>2. CASE Pending(c) # {}
  <2>1. (CHOOSE t \in Pending(c) : TRUE) \in Pending(c)
    BY <1>2
  <2>2. (CHOOSE t \in Pending(c)' : TRUE) = (CHOOSE t \in Pending(c) : TRUE)
    BY DEF SamePending
  <2> QED BY <1>2, <2>1, <2>2 DEF SamePending, Queued
<1> QED BY <1>1, <1>2

\* What a connection that is closed loses.
LEMMA ShutQueued ==
  ASSUME IInv, IInv', NEW c \in Conns, SamePending(c), link'[c] = Shut
  PROVE  \E k \in 0..Len(Queued(c)) : Queued(c)' = SubSeq(Queued(c), 1, k)
<1>1. CASE Pending(c) = {}
  <2>1. Queued(c)' = <<>>
    BY <1>1 DEF SamePending, Queued
  <2>2. SubSeq(Queued(c), 1, 0) = <<>> /\ 0 \in 0..Len(Queued(c))
    BY QueuedTyped, SubSeqEmpty, LenProperties
  <2> QED BY <2>1, <2>2
<1>2. ASSUME NEW s \in Pending(c) PROVE \E k \in 0..Len(Queued(c)) : Queued(c)' = SubSeq(Queued(c), 1, k)
  <2> DEFINE n == op[s].result.length
  <2>1. n \in 0..MaxSize /\ Queued(c) = <<n>> \o link[c].inbox /\ Pending(c) = {s}
    BY <1>2, OnePending DEF Results
  <2>2. <<n>> \in Seq(0..MaxSize) /\ Len(<<n>>) = 1 /\ link[c].inbox \in Seq(0..MaxSize)
    BY <2>1, QueuedTyped
  <2>3. SubSeq(Queued(c), 1, 1) = SubSeq(<<n>>, 1, 1)
    BY <2>1, <2>2, SubSeqOfConcat1
  <2>4. SubSeq(<<n>>, 1, 1) = <<n>>
    BY <2>2, SubSeqFull
  <2>5. 1 \in 0..Len(Queued(c))
    BY <2>1, <2>2, ConcatProperties, LenProperties
  <2>6. Pending(c)' = {s} /\ op'[s] = op[s] /\ link'[c].inbox = <<>>
    BY <2>1 DEF SamePending
  <2>7. (CHOOSE t \in Pending(c)' : TRUE) = s
    BY <2>6, OneChosen
  <2>8. Queued(c)' = <<n>> \o <<>>
    BY <2>6, <2>7 DEF Queued
  <2>9. Queued(c)' = <<n>>
    BY <2>2, <2>8, ConcatEmptySeq
  <2> QED BY <2>3, <2>4, <2>5, <2>9
<1> QED BY <1>1, <1>2

\* Steps of DatagramService, given what becomes of the queues.
LEMMA QuietMaps ==
  ASSUME \A c \in Conns : Queued(c)' = Queued(c), result' = result
  PROVE  Simulates
<1>1. Queues' = Queues
  BY DEF Queues
<1> QED BY <1>1 DEF Simulates, Promise!vars, Queues, Queued

LEMMA LoseMaps ==
  ASSUME NEW c \in Conns, \A d \in Conns \ {c} : Queued(d)' = Queued(d),
         \E k \in 0..Len(Queued(c)) : Queued(c)' = SubSeq(Queued(c), 1, k), result' = result
  PROVE  Simulates
<1>1. PICK k \in 0..Len(Queued(c)) : Queued(c)' = SubSeq(Queued(c), 1, k)
  OBVIOUS
<1>2. Queues' = [Queues EXCEPT ![c] = SubSeq(Queues[c], 1, k)] /\ k \in 0..Len(Queues[c])
  BY <1>1 DEF Queues
<1>3. Promise!Lose(c)
  BY <1>2 DEF Promise!Lose, Queues, Queued
<1> QED BY <1>3 DEF Simulates, Promise!Next

LEMMA QuietStep ==
  ASSUME \A c \in Conns : SamePending(c) /\ link'[c].inbox = link[c].inbox, result' = result
  PROVE  Simulates
BY SameQueued, QuietMaps

\* One connection may be shut.
LEMMA ShutStep ==
  ASSUME IInv, IInv', \A c \in Conns : SamePending(c), NEW d,
         \A c \in Conns : link'[c].inbox = link[c].inbox \/ (c = d /\ link'[c] = Shut),
         result' = result
  PROVE  Simulates
<1>1. CASE d \in Conns /\ link'[d] = Shut
  BY <1>1, SameQueued, ShutQueued, LoseMaps
<1>2. CASE ~(d \in Conns /\ link'[d] = Shut)
  BY <1>2, QuietStep
<1> QED BY <1>1, <1>2

\* An operation that has nothing to answer is not pending.
LEMMA NotGot ==
  ASSUME NEW s \in Socks, op[s].at # "got", op'[s].at # "got",
         \A t \in Socks \ {s} : op'[t] = op[t]
  PROVE  \A c \in Conns : SamePending(c)
<1>1. \A c \in Conns : s \notin Pending(c) /\ ~(s \in Pending(c))'
  BY DEF Pending
<1> QED BY <1>1, StaysPending

LEMMA SameOps ==
  ASSUME op' = op
  PROVE  \A c \in Conns : SamePending(c)
BY StaysPending

LEMMA AppendBehind ==
  ASSUME NEW S, NEW x \in S, NEW t \in Seq(S), NEW y \in S
  PROVE  <<x>> \o Append(t, y) = Append(<<x>> \o t, y)
<1>0. <<x>> \in Seq(S) /\ <<y>> \in Seq(S)
  OBVIOUS
<1>1. PICK first \in Seq(S), last \in Seq(S) : first = <<x>> /\ last = <<y>>
  BY <1>0, Zenon
<1>2. first \o (t \o last) = (first \o t) \o last
  BY ConcatAssociative
<1>3. first \o t \in Seq(S)
  BY ConcatProperties
<1>4. Append(t, y) = t \o last /\ Append(first \o t, y) = (first \o t) \o last
  BY <1>1, <1>3, AppendIsConcat
<1> QED BY <1>1, <1>2, <1>4

LEMMA HeadTailConcat ==
  ASSUME NEW S, NEW x \in S, NEW t \in Seq(S)
  PROVE  <<x>> \o t # <<>> /\ Head(<<x>> \o t) = x /\ Tail(<<x>> \o t) = t
<1>0. <<x>> \in Seq(S) /\ Len(<<x>>) = 1 /\ <<x>>[1] = x
  OBVIOUS
<1>1. PICK first \in Seq(S) : first = <<x>> /\ Len(first) = 1 /\ first[1] = x
  BY <1>0, Zenon
<1> DEFINE all == first \o t
<1>2. /\ all \in Seq(S) /\ Len(all) = 1 + Len(t) /\ Len(t) \in Nat
      /\ \A i \in 1..Len(all) : all[i] = IF i <= 1 THEN first[i] ELSE t[i - 1]
  BY <1>1, ConcatProperties, LenProperties
<1>3. all # <<>> /\ all[1] = x
  BY <1>1, <1>2, EmptySeq
<1>4. /\ Tail(all) \in Seq(S) /\ Len(Tail(all)) = Len(t)
      /\ \A i \in 1..Len(t) : Tail(all)[i] = all[i + 1]
  BY <1>2, <1>3, HeadTailProperties
<1>5. \A i \in 1..Len(t) : Tail(all)[i] = t[i]
  BY <1>2, <1>4
<1>6. Tail(all) = t
  BY <1>4, <1>5, SeqEqual
<1>7. Head(all) = all[1]
  BY <1>2, <1>3
<1> QED BY <1>1, <1>3, <1>6, <1>7

LEMMA ArriveMaps ==
  ASSUME IInv, IInv', NEW c \in Conns, NEW n \in 0..MaxSize, Arrive(c, n)
  PROVE  Simulates
<1> DEFINE inbox == link[c].inbox
<1>1. link \in [Conns -> Links] /\ inbox \in Seq(0..MaxSize)
  BY DEF IInv, TypeOK, Links
<1>2. link' = [link EXCEPT ![c] = [link[c] EXCEPT !.inbox = Append(inbox, n)]] /\ op' = op
  BY DEF Arrive
<1>3. link'[c].inbox = Append(inbox, n) /\ \A d \in Conns \ {c} : link'[d] = link[d]
  BY <1>1, <1>2 DEF Links
<1>4. \A d \in Conns : SamePending(d)
  BY <1>2, SameOps
<1>5. \A d \in Conns \ {c} : Queued(d)' = Queued(d)
  BY <1>3, <1>4, SameQueued
<1>6. Queued(c)' = Append(Queued(c), n)
  <2>1. CASE Pending(c) = {}
    BY <1>3, <1>4, <2>1 DEF SamePending, Queued
  <2>2. ASSUME NEW s \in Pending(c) PROVE Queued(c)' = Append(Queued(c), n)
    <3> DEFINE first == <<op[s].result.length>>
    <3>1. Pending(c) = {s} /\ op[s].result.length \in 0..MaxSize
      BY OnePending DEF Results
    <3>2. Queued(c) = first \o inbox /\ Queued(c) \in Seq(0..MaxSize)
      BY OnePending, QueuedTyped
    <3>3. Queued(c)' = first \o Append(inbox, n)
      <4>1. Pending(c)' = {s} /\ (CHOOSE t \in {s} : TRUE) = s
        BY <1>4, <3>1, OneChosen DEF SamePending
      <4> QED BY <1>2, <1>3, <4>1 DEF Queued
    <3> QED BY <1>1, <3>1, <3>2, <3>3, AppendBehind
  <2> QED BY <2>1, <2>2
<1>7. Queues' = [Queues EXCEPT ![c] = Append(Queues[c], n)]
  BY <1>5, <1>6 DEF Queues
<1>8. Promise!Arrive(c)
  BY <1>7 DEF Promise!Arrive, Queues, Queued, Arrive
<1> QED BY <1>8 DEF Simulates, Promise!Next

\* What a read has taken was, and stays, the head of the queue.
LEMMA ReadTakesMaps ==
  ASSUME IInv, IInv', NEW s \in Socks, ReadTakes(s)
  PROVE  Simulates
<1>1. PICK c \in Conns : c = op[s].conn
  BY ReadingOf DEF ReadTakes
<1> DEFINE inbox == link[c].inbox
           n == Head(inbox)
<1>2. op[s].at = "read" /\ inbox # <<>> /\ link \in [Conns -> Links] /\ inbox \in Seq(0..MaxSize)
  BY <1>1 DEF ReadTakes, IInv, TypeOK, Links
<1>3. link' = [link EXCEPT ![c] = [link[c] EXCEPT !.inbox = Tail(inbox)]]
  BY <1>1 DEF ReadTakes
<1>4. link'[c].inbox = Tail(inbox) /\ \A d \in Conns \ {c} : link'[d] = link[d]
  BY <1>2, <1>3 DEF Links
<1>5. /\ op'[s].at = "got" /\ op'[s].result.conn = c /\ op'[s].result.answer = "data"
      /\ op'[s].result.length = n
      /\ \A t \in Socks \ {s} : op'[t] = op[t]
  BY <1>1 DEF ReadTakes, Answer, IInv, TypeOK
<1>6. Draws(s, c)
  BY <1>1, <1>2 DEF Draws, Receiving, ReadsFrom
<1>7. \A t \in Pending(c) : Draws(t, c) /\ t # s
  BY <1>2 DEF Pending, Draws, Receiving, ReadsFrom
<1>8. Pending(c) = {}
  BY <1>6, <1>7 DEF Pending, IInv, ReadersApart
<1>9. Pending(c)' = {s}
  BY <1>5, <1>8 DEF Pending
<1>10. Queued(c) = inbox
  BY <1>8, NonePending
<1>11. Queued(c)' = <<n>> \o Tail(inbox)
  <2>1. (CHOOSE t \in {s} : TRUE) = s
    BY OneChosen
  <2> QED BY <1>4, <1>5, <1>9, <2>1 DEF Queued
<1>12. <<n>> \o Tail(inbox) = inbox
  <2>1. Len(inbox) \in Nat \ {0} /\ 1 \in 1..Len(inbox)
    BY <1>2, EmptySeq
  <2>2. SubSeq(inbox, 1, Len(inbox)) = <<inbox[1]>> \o SubSeq(inbox, 2, Len(inbox))
    BY <1>2, <2>1, SubSeqRecursiveFirst
  <2>3. Tail(inbox) = SubSeq(inbox, 2, Len(inbox)) /\ SubSeq(inbox, 1, Len(inbox)) = inbox
    BY <1>2, TailIsSubSeq, SubSeqFull
  <2>4. Head(inbox) = inbox[1]
    BY <1>2
  <2> QED BY <2>2, <2>3, <2>4
<1>13. ASSUME NEW d \in Conns \ {c} PROVE Queued(d)' = Queued(d)
  <2>1. s \notin Pending(d) /\ ~(s \in Pending(d))'
    BY <1>2, <1>5 DEF Pending
  <2>2. SamePending(d)
    <3>1. \A t \in Socks : (t \in Pending(d))' <=> t \in Pending(d)
      BY <1>5, <2>1 DEF Pending
    <3>2. Pending(d)' = Pending(d)
      BY <3>1 DEF Pending
    <3> QED BY <1>5, <2>1, <3>2 DEF SamePending, Pending
  <2> QED BY <1>4, <2>2, SameQueued
<1>14. \A d \in Conns : Queued(d)' = Queued(d)
  BY <1>10, <1>11, <1>12, <1>13
<1>15. result' = result
  BY DEF ReadTakes
<1> QED BY <1>14, <1>15, QuietMaps

\* What Lua code is given is the head of the queue.
LEMMA ReceiveResumesMaps ==
  ASSUME IInv, IInv', NEW s \in Socks, ReceiveResumes(s)
  PROVE  Simulates
<1> DEFINE r == op[s].result
<1>1. /\ op[s].at = "got" /\ r \in Results /\ Fits(s)
      /\ op \in [Socks -> Ops]
  BY OpShapes DEF ReceiveResumes, IInv, TypeOK, Ops
<1>2. PICK c \in Conns : c = r.conn
  BY <1>1 DEF Fits, ReadFits, Receiving, ReadsFrom
<1>3. link' = link /\ result' = r /\ op'[s] = NoOp /\ \A t \in Socks \ {s} : op'[t] = op[t]
  BY <1>1 DEF ReceiveResumes
<1>4. CASE r.answer = "data"
  <2>1. s \in Pending(c)
    BY <1>1, <1>2, <1>4 DEF Pending
  <2>2. Pending(c) = {s} /\ Queued(c) = <<r.length>> \o link[c].inbox
    BY <2>1, OnePending
  <2>3. Pending(c)' = {}
    BY <1>3, <2>2 DEF Pending
  <2>4. Queued(c)' = link[c].inbox
    BY <1>3, <2>3 DEF Queued
  <2>5. /\ link[c].inbox \in Seq(0..MaxSize)
        /\ r.length \in 0..MaxSize /\ r.size \in 0..MaxSize /\ r.bytes \in 0..MaxSize
    BY <1>1, QueuedTyped DEF Results
  <2>6. Queued(c) # <<>> /\ Head(Queued(c)) = r.length /\ Tail(Queued(c)) = link[c].inbox
    BY <2>2, <2>5, HeadTailConcat
  <2>7. ASSUME NEW d \in Conns \ {c} PROVE Queued(d)' = Queued(d)
    <3>1. s \notin Pending(d) /\ ~(s \in Pending(d))'
      BY <1>2, <1>3 DEF Pending
    <3>2. \A t \in Socks : (t \in Pending(d))' <=> t \in Pending(d)
      BY <1>3, <3>1 DEF Pending
    <3>3. Pending(d)' = Pending(d)
      BY <3>2 DEF Pending
    <3>4. SamePending(d)
      BY <1>3, <3>1, <3>3 DEF SamePending, Pending
    <3> QED BY <1>3, <3>4, SameQueued
  <2>8. Queues' = [Queues EXCEPT ![r.conn] = Tail(Queues[r.conn])] /\ Queues[r.conn] = Queued(c)
    BY <1>2, <2>4, <2>6, <2>7 DEF Queues
  <2>9. r.bytes = Least(r.length, r.size)
    BY <1>1, <1>4 DEF Fits, AnswerFits
  <2>10. r.bytes <= r.length /\ r.bytes <= r.size /\ r.bytes \in {r.length, r.size}
    BY <2>5, <2>9 DEF Least
  <2>11. Queues[r.conn] # <<>> /\ r.length = Head(Queues[r.conn])
    BY <2>6, <2>8
  <2>12. /\ result'.answer = "data"
         /\ Queues[result'.conn] # <<>> /\ result'.length = Head(Queues[result'.conn])
         /\ result'.bytes <= result'.length /\ result'.bytes <= result'.size
         /\ result'.bytes \in {result'.length, result'.size}
         /\ Queues' = [Queues EXCEPT ![result'.conn] = Tail(Queues[result'.conn])]
    BY <1>3, <1>4, <2>8, <2>10, <2>11
  <2>13. Promise!Takes(result')
    BY <2>12, Zenon DEF Promise!Takes, Queues, Queued
  <2>14. result'.conn \in Conns
    BY <1>2, <1>3
  <2>15. Promise!Receive
    BY <2>13, <2>14 DEF Promise!Receive
  <2> QED BY <2>15 DEF Simulates, Promise!Next
<1>5. CASE r.answer # "data"
  <2>1. \A d \in Conns : s \notin Pending(d) /\ ~(s \in Pending(d))'
    BY <1>3, <1>5 DEF Pending
  <2>2. \A d \in Conns : SamePending(d)
    BY <1>3, <2>1, StaysPending
  <2>3. \A d \in Conns : Queued(d)' = Queued(d)
    BY <1>3, <2>2, SameQueued
  <2>4. Queues' = Queues
    BY <2>3 DEF Queues
  <2>5. r.answer = "error" \/ (r.answer = "timeout" /\ r.timed)
    BY <1>1, <1>5 DEF Fits, AnswerFits, Results
  <2>6. Promise!Declines(r)
    BY <2>4, <2>5 DEF Promise!Declines, Queues, Queued
  <2>7. Promise!Receive
    BY <1>2, <1>3, <2>6 DEF Promise!Receive
  <2> QED BY <2>7 DEF Simulates, Promise!Next
<1> QED BY <1>4, <1>5

\* An answer that is not a datagram takes nothing.
LEMMA DeclineMaps ==
  ASSUME IInv, IInv', NEW s \in Socks, ReadTimesOut(s) \/ ReadFails(s)
  PROVE  Simulates
<1> DEFINE o == op[s]
<1>1. /\ o.at = "read" /\ o.conn \in Conns /\ op \in [Socks -> Ops] /\ link \in [Conns -> Links]
  BY ReadingOf DEF ReadTimesOut, ReadFails, TypeOK, Ops
<1>2. \E answer \in {"timeout", "error"} : op'[s] = Answer(o, answer, 0, 0)
  BY <1>1 DEF ReadTimesOut, ReadFails
<1>3. \A t \in Socks \ {s} : op'[t] = op[t]
  BY <1>1 DEF ReadTimesOut, ReadFails
<1>4. \A d \in Conns : s \notin Pending(d) /\ ~(s \in Pending(d))'
  BY <1>1, <1>2 DEF Pending, Answer
<1>5. \A d \in Conns : link'[d].inbox = link[d].inbox
  <2>1. link' = link \/ link' = [link EXCEPT ![o.conn] = [link[o.conn] EXCEPT !.refused = FALSE]]
    BY DEF ReadTimesOut, ReadFails
  <2>2. link' = link \/ (/\ link'[o.conn] = [link[o.conn] EXCEPT !.refused = FALSE]
                         /\ \A d \in Conns : d # o.conn => link'[d] = link[d])
    BY <1>1, <2>1
  <2> QED BY <1>1, <2>2 DEF Links
<1>6. result' = result
  BY DEF ReadTimesOut, ReadFails
<1> QED BY <1>3, <1>4, <1>5, <1>6, StaysPending, QuietStep

LEMMA StartsReadMaps ==
  ASSUME IInv, IInv', NEW s \in Socks, StartsRead(s)
  PROVE  Simulates
<1> DEFINE o == op[s]
<1>1. /\ o.at = "receive" /\ o \in Reading /\ o.conn \in Conns
      /\ op \in [Socks -> Ops] /\ link \in [Conns -> Links]
  BY ReadingOf DEF StartsRead, TypeOK, Ops
<1>2. op'[s] = [o EXCEPT !.at = "read"] /\ \A t \in Socks \ {s} : op'[t] = op[t]
  BY <1>1 DEF StartsRead
<1>3. op'[s].at = "read"
  BY <1>1, <1>2 DEF Reading
<1>4. \A c \in Conns : SamePending(c)
  BY <1>1, <1>2, <1>3, NotGot
<1>5. \A d \in Conns : link'[d].inbox = link[d].inbox
  <2>1. link' = link \/ link' = [link EXCEPT ![o.conn] = [link[o.conn] EXCEPT !.deadline = o.timed]]
    BY DEF StartsRead, SetDeadline
  <2> QED BY <1>1, <2>1 DEF Links
<1>6. result' = result
  BY DEF StartsRead
<1> QED BY <1>4, <1>5, <1>6, QuietStep

\* Calls that close the connection that the socket has, if any.
LEMMA LeftMaps ==
  ASSUME IInv, IInv', NEW s \in Socks, link' = Left(s), result' = result,
         \A c \in Conns : SamePending(c)
  PROVE  Simulates
<1>1. \A c \in Conns : link'[c] = IF c = conn[s] THEN Shut ELSE link[c]
  BY LeftLinks
<1> QED BY <1>1, ShutStep

LEMMA SetPeerNowMaps ==
  ASSUME IInv, IInv', NEW s \in Socks, NEW peer \in IPs \cup Paths, SetPeerNow(s, peer)
  PROVE  Simulates
<1> DEFINE n == NewConn
           open == Link("open", Ends(s, peer))
<1>1. TypeOK /\ n \in Conns /\ link[n] = Fresh
  BY NewConnFresh DEF IInv, SetPeerNow
<1>2. \A c \in Conns : link'[c] = IF c = n THEN open ELSE IF c = conn[s] THEN Shut ELSE link[c]
  BY <1>1, LeftLinks DEF SetPeerNow
<1>3. \A c \in Conns : link'[c].inbox = link[c].inbox \/ (c = conn[s] /\ link'[c] = Shut)
  <2>1. link'[n].inbox = <<>> /\ link[n].inbox = <<>>
    BY <1>1, <1>2
  <2> HIDE DEF Shut
  <2> QED BY <1>2, <2>1
<1>4. (\A c \in Conns : SamePending(c)) /\ result' = result
  BY SameOps DEF SetPeerNow
<1>5. PICK d : d = conn[s]
  OBVIOUS
<1>6. \A c \in Conns : link'[c].inbox = link[c].inbox \/ (c = d /\ link'[c] = Shut)
  BY <1>3, <1>5
<1> HIDE DEF n, open, Shut
<1> QED BY <1>4, <1>6, ShutStep

LEMMA SetPeerDialsMaps ==
  ASSUME IInv, IInv', NEW s \in Socks, NEW peer \in Names, SetPeerDials(s, peer)
  PROVE  Simulates
<1>1. op[s].at = "none" /\ op \in [Socks -> Ops]
  BY DEF SetPeerDials, CanSetPeer, IInv, TypeOK, Ops
<1>2. op'[s].at = "dial" /\ \A t \in Socks \ {s} : op'[t] = op[t]
  BY <1>1 DEF SetPeerDials
<1>3. \A c \in Conns : SamePending(c)
  BY <1>1, <1>2, NotGot
<1> QED BY <1>3, LeftMaps DEF SetPeerDials

LEMMA ReceiveMaps ==
  ASSUME IInv, IInv', NEW s \in Socks, NEW n \in Sizes, Receive(s, n)
  PROVE  Simulates
<1>1. op[s].at = "none" /\ op \in [Socks -> Ops]
  BY DEF Receive, Usable, IInv, TypeOK, Ops
<1>2. op'[s].at = "receive" /\ \A t \in Socks \ {s} : op'[t] = op[t]
  BY <1>1 DEF Receive
<1>3. \A c \in Conns : SamePending(c)
  BY <1>1, <1>2, NotGot
<1> QED BY <1>3, QuietStep DEF Receive

\* What send and an ICMP error change is not about datagrams that have come.
LEMMA RefusedMaps ==
  ASSUME IInv, NEW c \in Conns, NEW b, link' = [link EXCEPT ![c].refused = b],
         op' = op, result' = result
  PROVE  Simulates
<1>1. link \in [Conns -> Links]
  BY DEF IInv, TypeOK, Links
<1>2. /\ link'[c] = [link[c] EXCEPT !.refused = b]
      /\ \A d \in Conns : d # c => link'[d] = link[d]
  BY <1>1
<1>3. \A d \in Conns : link'[d].inbox = link[d].inbox
  BY <1>1, <1>2 DEF Links
<1> QED BY <1>3, SameOps, QuietStep

LEMMA SendMaps ==
  ASSUME IInv, NEW s \in Socks, Send(s)
  PROVE  Simulates
<1>1. conn[s] \in Conns
  BY ConnOpen DEF Send, Usable, Fits, PeerFits
<1> QED BY <1>1, RefusedMaps DEF Send

\* The end of a dial: what is dialled has nothing in it yet.
LEMMA DialsMap ==
  ASSUME IInv, IInv', NEW s \in Socks, Dials(s)
  PROVE  Simulates
<1>1. op[s].at = "dial" /\ op \in [Socks -> Ops] /\ link \in [Conns -> Links] /\ result' = result
  BY DEF Dials, Dialed, DialFails, IInv, TypeOK, Ops, Links
<1>2. op'[s].at = "dialed" /\ \A t \in Socks \ {s} : op'[t] = op[t]
  BY <1>1 DEF Dials, Dialed, DialFails
<1>3. \A c \in Conns : link'[c].inbox = link[c].inbox
  BY <1>1, NewConnFresh DEF Dials, Dialed, DialFails
<1> QED BY <1>1, <1>2, <1>3, NotGot, QuietStep

LEMMA SetPeerResumesMaps ==
  ASSUME IInv, IInv', NEW s \in Socks, SetPeerResumes(s)
  PROVE  Simulates
<1> DEFINE c == op[s].conn
<1>1. /\ op[s].at = "dialed" /\ op \in [Socks -> Ops] /\ link \in [Conns -> Links]
      /\ result' = result
  BY DEF SetPeerResumes, IInv, TypeOK, Ops, Links
<1>2. op'[s].at = "none" /\ \A t \in Socks \ {s} : op'[t] = op[t]
  BY <1>1 DEF SetPeerResumes
<1>3. link' = link \/ link' = [link EXCEPT ![c] = Shut]
  BY DEF SetPeerResumes
<1>4. \A d \in Conns : link'[d].inbox = link[d].inbox \/ (d = c /\ link'[d] = Shut)
  BY <1>1, <1>3
<1>5. \A d \in Conns : SamePending(d)
  BY <1>1, <1>2, NotGot
<1>6. PICK e : e = c
  OBVIOUS
<1>7. \A d \in Conns : link'[d].inbox = link[d].inbox \/ (d = e /\ link'[d] = Shut)
  BY <1>4, <1>6
<1> HIDE DEF c, Shut
<1> QED BY <1>1, <1>5, <1>7, ShutStep

LEMMA InitMaps == Init => Promise!Init
<1> SUFFICES ASSUME Init PROVE Promise!Init
  OBVIOUS
<1>1. \A c \in Conns : Pending(c) = {}
  BY DEF Init, Pending
<1>2. \A c \in Conns : Queued(c) = <<>>
  BY <1>1 DEF Init, Queued
<1>3. Queues = [c \in Conns |-> <<>>]
  BY <1>2 DEF Queues
<1> QED BY <1>3 DEF Promise!Init, Queues, Queued

LEMMA NextMaps == IInv /\ IInv' /\ [Next]_vars => [Promise!Next]_(Promise!vars)
<1> SUFFICES ASSUME IInv, IInv', [Next]_vars PROVE Simulates
  BY DEF Simulates
<1>1. CASE UNCHANGED vars
  BY <1>1, SameOps, QuietStep DEF vars
<1>2. CASE Network
  <2>1. ASSUME NEW c \in Conns, Unreachable(c) PROVE Simulates
    BY <2>1, RefusedMaps DEF Unreachable
  <2> QED BY <1>2, <2>1, ArriveMaps DEF Network
<1>3. ASSUME NEW s \in Socks, SetPeerRefused(s) \/ Close(s) \/ Gc(s) PROVE Simulates
  <2>1. link' = Left(s) /\ op' = op /\ result' = result
    BY <1>3 DEF SetPeerRefused, Close, Gc, Retire
  <2> QED BY <2>1, SameOps, LeftMaps
<1>4. ASSUME NEW s \in Socks, NEW tenths, SetTimeout(s, tenths) PROVE Simulates
  BY <1>4, SameOps, QuietStep DEF SetTimeout
<1>5. ASSUME NEW s \in Socks, NEW a, Bind(s, a) PROVE Simulates
  BY <1>5, SameOps, QuietStep DEF Bind
<1>6. ASSUME NEW s \in Socks, Forget(s) PROVE Simulates
  BY <1>6, SameOps, QuietStep DEF Forget
<1>7. ASSUME NEW s \in Socks, Method(s) PROVE Simulates
  BY <1>3, <1>4, <1>5, <1>6, <1>7, SetPeerNowMaps, SetPeerDialsMaps, ReceiveMaps, SendMaps
     DEF Method, SetPeerName
<1>8. ASSUME NEW s \in Socks, Reads(s) PROVE Simulates
  BY <1>8, StartsReadMaps, ReadTakesMaps, DeclineMaps DEF Reads
<1>9. ASSUME NEW s \in Socks, Resumes(s) PROVE Simulates
  BY <1>9, SetPeerResumesMaps, ReceiveResumesMaps DEF Resumes
<1> QED BY <1>1, <1>2, <1>3, <1>7, <1>8, <1>9, DialsMap DEF Next

\* receive keeps the boundaries and the order of the datagrams, and times out only
\* when asked to, as DatagramService describes.
THEOREM Refinement == Spec => KeepsPromise
BY Invariance, InitMaps, NextMaps, PTL DEF Spec, KeepsPromise, Promise!Spec

=============================================================================
