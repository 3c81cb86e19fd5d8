------------------------------ MODULE UriCodec ------------------------------
(***************************************************************************)
(* Percent encoding and query strings (util.go): escape_uri, unescape_uri, *)
(* and the parser behind get_uri_args and get_post_args.  A string is a    *)
(* sequence of bytes 0..255.                                               *)
(***************************************************************************)
EXTENDS Integers, Sequences, SequencesExt

Byte    == 0..255
Space   == 32
Percent == 37
Amp     == 38
Plus    == 43
Equals  == 61

Digits  == 48..57
Upper   == 65..90
Lower   == 97..122
HexFrom(first) == first .. first + 5

----------------------------------------------------------------------------
(* escape_uri *)

\* type 0 keeps what may stand in a whole URI; every other type is a component:
\* - . _ ~ stay
ShouldEscape(b, type) ==
  IF type = 0 THEN b \in {Space, 35, Percent, 63} \cup 0..31 \cup 127..255
  ELSE b \notin Upper \cup Lower \cup Digits \cup {45, 46, 95, 126}

UpperHex(d) == IF d < 10 THEN 48 + d ELSE 55 + d

EscapeURI(s, type) ==
  FlattenSeq([i \in DOMAIN s |->
    IF ShouldEscape(s[i], type) THEN <<Percent, UpperHex(s[i] \div 16), UpperHex(s[i] % 16)>>
    ELSE <<s[i]>>])

----------------------------------------------------------------------------
(* unescape_uri *)

IsHex(b) == b \in Digits \cup HexFrom(65) \cup HexFrom(97)
HexValue(b) == IF b \in Digits THEN b - 48 ELSE IF b < 97 THEN b - 55 ELSE b - 87
UnHex(hi, lo) == HexValue(hi) * 16 + HexValue(lo)

\* Slip: a sequence at the end of the string is not seen.
EscapedAtShort(s, i) ==
  /\ s[i] = Percent /\ i + 2 < Len(s)
  /\ IsHex(s[i + 1]) /\ IsHex(s[i + 2])

\* a valid sequence starts at i
EscapedAt(s, i) ==
  /\ s[i] = Percent /\ i + 2 <= Len(s)
  /\ IsHex(s[i + 1]) /\ IsHex(s[i + 2])

\* what is not a valid sequence stays
UnescapeURI(s) ==
  LET from[i \in 1 .. Len(s) + 1] ==
        IF i > Len(s) THEN <<>>
        ELSE IF EscapedAt(s, i) THEN <<UnHex(s[i + 1], s[i + 2])>> \o from[i + 3]
        ELSE <<IF s[i] = Plus THEN Space ELSE s[i]>> \o from[i + 1]
  IN  from[1]

----------------------------------------------------------------------------
(* parseQueryString *)

\* url.QueryUnescape of net/url fails on a sequence that is not valid
QueryDecodes(s) == \A i \in DOMAIN s : s[i] = Percent => EscapedAt(s, i)

\* the key or the value as it is, when it does not decode
Decoded(s) == IF QueryDecodes(s) THEN UnescapeURI(s) ELSE s

AddByte(parts, b) ==
  IF b = Amp THEN Append(parts, <<>>) ELSE [parts EXCEPT ![Len(parts)] = Append(@, b)]

\* strings.Split at the separators
SplitAmp(s) ==
  LET upto[i \in 0..Len(s)] == IF i = 0 THEN << <<>> >> ELSE AddByte(upto[i - 1], s[i])
  IN  upto[Len(s)]

\* the first "=" ends the key; without one the argument is a boolean
Cut(part) ==
  LET i == SelectInSeq(part, LAMBDA b : b = Equals)
  IN  IF i = 0 THEN [key |-> Decoded(part), value |-> <<>>, isBoolean |-> TRUE]
      ELSE [key |-> Decoded(SubSeq(part, 1, i - 1)),
            value |-> Decoded(SubSeq(part, i + 1, Len(part))), isBoolean |-> FALSE]

\* Slip: the cut is reported one argument early.
TakeArgEager(maxArgs, acc, part) ==
  IF acc.truncated \/ part = <<>> THEN acc
  ELSE LET args == Append(acc.args, Cut(part))
       IN  IF maxArgs > 0 /\ Len(args) >= maxArgs THEN [args |-> args, truncated |-> TRUE]
           ELSE [args |-> args, truncated |-> FALSE]

\* one turn of the loop; maxArgs is looked at when there is an argument too many
TakeArg(maxArgs, acc, part) ==
  IF acc.truncated \/ part = <<>> THEN acc
  ELSE IF maxArgs > 0 /\ Len(acc.args) >= maxArgs THEN [acc EXCEPT !.truncated = TRUE]
  ELSE [acc EXCEPT !.args = Append(@, Cut(part))]

NoArgs == [args |-> <<>>, truncated |-> FALSE]

ParseQueryString(raw, maxArgs) ==
  LET parts == SplitAmp(raw)
      after[n \in 0..Len(parts)] ==
        IF n = 0 THEN NoArgs ELSE TakeArg(maxArgs, after[n - 1], parts[n])
  IN  after[Len(parts)]
=============================================================================
