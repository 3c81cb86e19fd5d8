--------------------------- MODULE RequestHeaders ---------------------------
(***************************************************************************)
(* golapis.req.get_headers and the lookup in its table (bindings.go).  A   *)
(* request has its header lines, by name, and its Host, which net/http     *)
(* keeps apart.  A name is two words with a hyphen or an underscore        *)
(* between them, in one of two spellings: canonical, as net/http keeps it, *)
(* or lower case.                                                          *)
(***************************************************************************)
EXTENDS Integers, Sequences

Name(words, sep, spelling) == [words |-> words, sep |-> sep, spelling |-> spelling]

ToLower(name) == [name EXCEPT !.spelling = "lower"]

HostName == Name("host", "-", "canonical")

Key(name, raw) == IF raw THEN name ELSE ToLower(name)

Extend(f, k, v) == [x \in DOMAIN f \cup {k} |-> IF x = k THEN v ELSE f[x]]

\* how many of n values still fit
Room(max, count, n) ==
  IF max > 0 /\ max - count < n THEN IF max > count THEN max - count ELSE 0 ELSE n

\* One header of the loop; a header without room for any value ends it, which
\* taking nothing from those that follow amounts to.
TakeHeader(req, max, raw, acc, name) ==
  LET values == req.header[name]
      n == Room(max, acc.count, Len(values))
  IN  [table     |-> IF n = 0 THEN acc.table
                     ELSE Extend(acc.table, Key(name, raw), SubSeq(values, 1, n)),
       count     |-> acc.count + n,
       truncated |-> acc.truncated \/ n < Len(values)]

\* Host comes last, if there is room; a negative max leaves it out unnoticed
TakeHost(req, max, raw, acc) ==
  IF req.host = <<>> THEN acc
  ELSE IF max = 0 \/ acc.count < max
  THEN [acc EXCEPT !.table = Extend(@, Key(HostName, raw), req.host), !.count = @ + 1]
  ELSE [acc EXCEPT !.truncated = @ \/ max > 0]

\* order is that in which the loop over the map meets the names
GetHeaders(req, max, raw, order) ==
  LET after[i \in 0 .. Len(order)] ==
        IF i = 0 THEN [table |-> [k \in {} |-> <<>>], count |-> 0, truncated |-> FALSE]
        ELSE TakeHeader(req, max, raw, after[i - 1], order[i])
  IN  TakeHost(req, max, raw, after[Len(order)])

\* Slip: underscores stay.
NormalizedCaseOnly(name) == ToLower(name)

Normalized(name) == [ToLower(name) EXCEPT !.sep = "-"]

\* t[name]: the key itself, or else what __index finds
Lookup(t, name, raw) ==
  IF name \in DOMAIN t THEN t[name]
  ELSE IF ~raw /\ Normalized(name) \in DOMAIN t THEN t[Normalized(name)]
  ELSE <<>>
=============================================================================
