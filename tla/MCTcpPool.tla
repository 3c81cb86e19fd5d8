----------------------------- MODULE MCTcpPool -----------------------------
(* Instances of TcpPool for TLC: two connections for a pool of one or two.   *)
EXTENDS TcpPool

CONSTANTS c1, c2

MCConns == {c1, c2}
=============================================================================
