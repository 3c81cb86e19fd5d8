--------------------------- MODULE MCHttpExchange ---------------------------
(* Instances of HttpExchange for TLC: requests that may capture each other. *)
EXTENDS HttpExchange, TLC

CONSTANTS x1, x2, h, html, plain

MCTwo      == {x1, x2}
MCHeaders  == {h, html}     \* html and plain stand for values of Content-Type
MCPageHeaders == {plain}
MCDisplaced   == {html}
MCSymmetry == Permutations(Exchanges)
=============================================================================
