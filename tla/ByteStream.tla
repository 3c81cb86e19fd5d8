----------------------------- MODULE ByteStream -----------------------------
(***************************************************************************)
(* What the receive methods of a TCP cosocket do with a connection: each   *)
(* takes the next bytes of the stream and nothing else.  A line ends at    *)
(* the first line feed, receive(n) takes n bytes, receive("*a") all there  *)
(* is until the peer ends the stream, receiveany(n) between 1 and n bytes. *)
(* A receive that fails takes what it had read and reports it as partial   *)
(* data, which holds less than was asked for.                              *)
(*                                                                         *)
(* A receive that returns a line may spoil bytes that follow it: at their  *)
(* positions later receives find other bytes, as many as the peer sent.    *)
(* No other receive spoils any.  TcpSocket implements this module.         *)
(***************************************************************************)
EXTENDS Integers

CONSTANTS
  Conns,
  Len     \* bytes of a stream

VARIABLES
  lineEnds,   \* the positions of line feeds
  foreign,    \* of each connection: positions that were spoilt
  strays,     \* of each connection: line feeds among these
  arrived,    \* bytes that the peer has sent
  ended,      \* connections whose peer has ended the stream
  taken,      \* bytes that Lua code has received
  result      \* what the last receive returned: the bytes lo+1..hi

vars == <<lineEnds, foreign, strays, arrived, ended, taken, result>>

Init ==
  /\ lineEnds \in SUBSET (1..Len)
  /\ foreign = [c \in Conns |-> {}]
  /\ strays = [c \in Conns |-> {}]
  /\ arrived = [c \in Conns |-> 0]
  /\ ended = {}
  /\ taken = [c \in Conns |-> 0]

Send(c) ==
  /\ c \notin ended
  /\ \E n \in arrived[c] + 1 .. Len : arrived' = [arrived EXCEPT ![c] = n]
  /\ UNCHANGED <<lineEnds, foreign, strays, ended, taken, result>>

End(c) ==
  /\ ended' = ended \cup {c}
  /\ UNCHANGED <<lineEnds, foreign, strays, arrived, taken, result>>

\* where the receives find line feeds
Feeds(c) == (lineEnds \ foreign[c]) \cup strays[c]
LineFeeds(c, lo, hi) == Feeds(c) \cap (lo + 1 .. hi)

Complete(r, c) ==
  CASE r.mode = "line" -> r.hi \in LineFeeds(c, r.lo, r.hi) /\ LineFeeds(c, r.lo, r.hi - 1) = {}
    [] r.mode = "size" -> r.hi - r.lo = r.size
    [] r.mode = "any"  -> r.hi - r.lo \in 1..r.size
    [] OTHER           -> c \in ended /\ r.hi = arrived[c]

Partial(r, c) ==
  CASE r.mode = "line" -> LineFeeds(c, r.lo, r.hi) = {}
    [] r.mode = "size" -> r.hi - r.lo < r.size
    [] r.mode = "any"  -> r.hi = r.lo
    [] OTHER           -> TRUE

\* bytes that the peer has sent behind a line
SpoilsAfter(c, lineEnd) ==
  \E there \in SUBSET (lineEnd + 1 .. arrived[c]) : \E lfs \in SUBSET there :
    /\ foreign' = [foreign EXCEPT ![c] = @ \cup there]
    /\ strays' = [strays EXCEPT ![c] = @ \cup lfs]

Receive(c) ==
  /\ result' = [result EXCEPT ![c] = result'[c]]
  /\ LET r == result'[c] IN
       /\ r.lo = taken[c]
       /\ r.hi \in taken[c]..arrived[c]
       /\ taken' = [taken EXCEPT ![c] = r.hi]
       /\ IF r.ok THEN Complete(r, c) ELSE Partial(r, c)
       /\ \/ r.ok /\ r.mode = "line" /\ SpoilsAfter(c, r.hi)
          \/ UNCHANGED <<foreign, strays>>
  /\ UNCHANGED <<lineEnds, arrived, ended>>

Next == \E c \in Conns : Send(c) \/ End(c) \/ Receive(c)

Spec == Init /\ [][Next]_vars
=============================================================================
