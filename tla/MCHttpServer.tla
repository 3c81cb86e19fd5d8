--------------------------- MODULE MCHttpServer ---------------------------
(* Instances of HttpServer for TLC: requests that arm a timer. *)
EXTENDS HttpServer

CONSTANTS r1, r2, t1

MCRequests == {r1, r2}
MCTimers   == {t1}
=============================================================================
