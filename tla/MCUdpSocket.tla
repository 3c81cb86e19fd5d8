---------------------------- MODULE MCUdpSocket ----------------------------
(* An instance of UdpSocket for TLC. *)
EXTENDS UdpSocket

CONSTANTS s1, c1, c2, ip, name, path, addr

MCSocks == {s1}
MCConns == {c1, c2}
=============================================================================
