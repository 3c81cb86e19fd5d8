----------------------------- MODULE HttpClient -----------------------------
(***************************************************************************)
(* golapis.http.request: the wrapper in http.lua around the request that   *)
(* bindings.go makes.  The wrapper collects the body from the source, the  *)
(* goroutine follows redirects and reads the answer, the wrapper hands it  *)
(* to the sink.  That the Lua thread is suspended meanwhile is StateLoop's *)
(* subject.                                                                *)
(*                                                                         *)
(* A source is its chunks and how it ends; a server is how it answers one  *)
(* request after the other and whether its last answer can be read to the  *)
(* end; a sink is at which call it fails.  A url is valid, missing, or       *)
(* invalid if http.NewRequest refuses it or the method.                    *)
(***************************************************************************)
EXTENDS Integers, Sequences, SequencesExt

CONSTANT Unset   \* nil, for a field that is not set

\* pump_source
Pump(source) ==
  [ok |-> source.end = "nil", data |-> IF source.end = "nil" THEN FlattenSeq(source.chunks) ELSE <<>>]

\* the content-length that the wrapper puts in, unless the caller has one
LengthHeader(reqt, body) == IF reqt.length = Unset THEN Len(body) ELSE reqt.length

\* what the wrapper hands to golapis_http_request_internal, with its defaults
GoRequest(reqt) ==
  LET pumped == reqt.source # Unset
      body   == IF pumped THEN Pump(reqt.source).data ELSE reqt.body
  IN  [body         |-> body,
       length       |-> IF pumped THEN LengthHeader(reqt, body) ELSE reqt.length,
       redirect     |-> reqt.redirect # FALSE,
       maxredirects |-> IF reqt.maxredirects = Unset THEN 5 ELSE reqt.maxredirects]

\* Slip: the last redirect that is allowed is refused.
TooManyEarly(go, n) == n >= go.maxredirects

\* CheckRedirect at the n-th redirect
TooMany(go, n) == n > go.maxredirects

\* client.Do: one answer of the server after the other
Exchange(go, acc, answer) ==
  IF acc.outcome # "going" THEN acc
  ELSE LET asked == acc.asked + 1 IN
       [asked |-> asked,
        outcome |->
          IF answer = "final" THEN "final"
          ELSE IF answer = "fails" \/ (go.redirect /\ TooMany(go, asked)) THEN "error"
          ELSE IF go.redirect THEN "going" ELSE "redirect"]

Do(go, server) ==
  LET after[n \in 0 .. Len(server.answers)] ==
        IF n = 0 THEN [asked |-> 0, outcome |-> "going"]
        ELSE Exchange(go, after[n - 1], server.answers[n])
  IN  after[Len(server.answers)]

\* pump_to_sink: a sink that returns nothing, and no error, has not failed
SinkCalls(sink) == IF sink = "failsAtData" THEN <<"data">> ELSE <<"data", "end">>

Failed(sent, asked, calls) ==
  [ok |-> FALSE, first |-> Unset, status |-> Unset, sent |-> sent, asked |-> asked, calls |-> calls]

\* _M.request: the results, what _request got, and what server and sink saw
HttpRequest(reqt, server) ==
  LET go   == GoRequest(reqt)
      done == Do(go, server)
  IN  IF reqt.source # Unset /\ ~Pump(reqt.source).ok THEN Failed(Unset, 0, <<>>)
      ELSE IF reqt.url # "valid" THEN Failed(go, 0, <<>>)
      ELSE IF done.outcome = "error" \/ ~server.readable THEN Failed(go, done.asked, <<>>)
      ELSE IF reqt.sink = Unset
      THEN [ok |-> TRUE, first |-> "body", status |-> done.outcome, sent |-> go,
            asked |-> done.asked, calls |-> <<>>]
      ELSE IF reqt.sink \in {"failsAtData", "failsAtEnd"}
      THEN Failed(go, done.asked, SinkCalls(reqt.sink))
      ELSE [ok |-> TRUE, first |-> "1", status |-> done.outcome, sent |-> go,
            asked |-> done.asked, calls |-> SinkCalls(reqt.sink)]
=============================================================================
