---------------------------- MODULE MCTcpSocket ----------------------------
(* Instances of TcpSocket for TLC: one or two sockets and a connection. *)
EXTENDS TcpSocket, TLC

CONSTANTS s1, s2, c1

MCOneSock  == {s1}
MCTwoSocks == {s1, s2}
MCOneConn  == {c1}
MCSockSymmetry == Permutations(MCTwoSocks)
=============================================================================
