-------------------------- MODULE DatagramService --------------------------
(***************************************************************************)
(* What receive() of a UDP cosocket promises about a connection.  It       *)
(* answers with the oldest datagram that has arrived, cut to the size      *)
(* asked for, and the rest of that datagram is gone; or with an error, and *)
(* then it has taken nothing.  It answers "timeout" only to a caller who   *)
(* had set a timeout.  The network may lose what has arrived, and whether  *)
(* there is an error to report is left open.  UdpSocket implements this    *)
(* module.                                                                 *)
(***************************************************************************)
EXTENDS Integers, Sequences

CONSTANTS
  Conns,
  MaxSize     \* bytes of the longest datagram, and of the largest receive

VARIABLES
  queue,      \* of each connection: the lengths of the datagrams that wait
  result      \* what the last receive answered, and of which connection

vars == <<queue, result>>

Init == queue = [c \in Conns |-> <<>>]

Arrive(c) ==
  /\ \E n \in 0..MaxSize : queue' = [queue EXCEPT ![c] = Append(@, n)]
  /\ UNCHANGED result

\* what came last may never be received
Lose(c) ==
  /\ \E k \in 0..Len(queue[c]) : queue' = [queue EXCEPT ![c] = SubSeq(@, 1, k)]
  /\ UNCHANGED result

Takes(r) ==
  /\ r.answer = "data"
  /\ queue[r.conn] # <<>>
  /\ r.length = Head(queue[r.conn])
  /\ r.bytes <= r.length /\ r.bytes <= r.size
  /\ r.bytes \in {r.length, r.size}
  /\ queue' = [queue EXCEPT ![r.conn] = Tail(@)]

Declines(r) ==
  /\ r.answer = "error" \/ (r.answer = "timeout" /\ r.timed)
  /\ UNCHANGED queue

Receive == result'.conn \in Conns /\ (Takes(result') \/ Declines(result'))

Next == Receive \/ \E c \in Conns : Arrive(c) \/ Lose(c)

Spec == Init /\ [][Next]_vars
=============================================================================
