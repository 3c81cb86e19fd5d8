---------------------------- MODULE HttpExchange ----------------------------
(***************************************************************************)
(* Requests, their responses and subrequests: HTTPHandler in http.go,      *)
(* GolapisRequest in request.go, and what Lua code calls in bindings.go to *)
(* set the status and headers, write output, read the body, exit, and      *)
(* capture another location.  The event loop itself is StateLoop; here it  *)
(* runs one thread at a time, in any order of events.                      *)
(*                                                                         *)
(* An exchange is a request with its thread and the writer of its response. *)
(* It is of a client, of location.capture through the mux, where the writer *)
(* is a recorder behind HTTPHandler, or of location.capture without a mux,  *)
(* where a goroutine posts the run event itself and Lua code writes to a    *)
(* buffer.  Output is counted in calls; a header, its name with its value,   *)
(* is a member of Headers or of PageHeaders.                                *)
(***************************************************************************)
EXTENDS Naturals

CONSTANTS
    Exchanges,     \* requests and subrequests
    None,
    Statuses,      \* what Lua code assigns to golapis.status
    Headers,       \* what Lua code gives to headers
    PageHeaders,   \* what http.Error gives to the headers of an error page
    Displaced,     \* headers that http.Error replaces or deletes
    Limit,         \* maxBodySize, 0 for none
    Lengths,       \* of request bodies
    MaxText        \* bound: calls of say or print per exchange

Fields == Headers \cup PageHeaders

ASSUME ExchangesAssumption == None \notin Exchanges /\ None \notin [status : Nat, headers : SUBSET Fields]
ASSUME StatusesAssumption == Statuses \subseteq 200 .. 999
ASSUME LimitAssumption == Limit \in Nat /\ Lengths \subseteq Nat
ASSUME BoundAssumption == MaxText \in Nat

VARIABLES
    stage,      \* none, queued, lua, waiting, ready, over, done, returned
    via,        \* client, mux or direct
    caller,     \* the exchange whose thread called location.capture
    status,     \* ResponseStatus, 0 if not set
    headers,    \* ResponseHeaders
    sent,       \* HeadersSent
    map,        \* what Header() of the writer returns, which may still change after
    head,       \* the head that the writer has, None before the first WriteHeader
    text,       \* how many outputs the writer or the buffer has
    page,       \* http.Error wrote an error page
    result,     \* StateResponse: none, ok or error
    captured,   \* what the last location.capture of a thread returned
    length,     \* of the request's body, None without a body
    declared,   \* is there a Content-Length?
    httpMux,    \* is there a mux: StartHTTPServer sets one, other servers do not
    bodyRead, bodyData, bodyErr    \* the cache of ReadBody; data by length

lua == <<stage, via, caller, captured>>
response == <<status, headers, sent, map, head, text, page, result>>
request == <<length, declared, httpMux>>
cache == <<bodyRead, bodyData, bodyErr>>
vars == <<lua, response, request, cache>>

Init ==
    /\ stage = [x \in Exchanges |-> "none"]
    /\ via = [x \in Exchanges |-> "client"]
    /\ caller = [x \in Exchanges |-> None]
    /\ status = [x \in Exchanges |-> 0]
    /\ headers = [x \in Exchanges |-> {}]
    /\ sent = [x \in Exchanges |-> FALSE]
    /\ map = [x \in Exchanges |-> {}]
    /\ head = [x \in Exchanges |-> None]
    /\ text = [x \in Exchanges |-> 0]
    /\ page = [x \in Exchanges |-> FALSE]
    /\ result = [x \in Exchanges |-> "none"]
    /\ captured = [x \in Exchanges |-> None]
    /\ length = [x \in Exchanges |-> None]
    /\ declared = [x \in Exchanges |-> FALSE]
    /\ httpMux \in BOOLEAN
    /\ bodyRead = [x \in Exchanges |-> FALSE]
    /\ bodyData = [x \in Exchanges |-> None]
    /\ bodyErr = [x \in Exchanges |-> "none"]

-----------------------------------------------------------------------------
(* The status and headers, and the writers.                                *)

FinalUnset(x) == status[x]

(* What FlushHeaders and location.capture make of a status that is not set. *)
Final(x) == IF status[x] = 0 THEN 200 ELSE status[x]

(* WriteHeader of net/http and of the recorder: the first wins, and takes    *)
(* the headers as they are.                                                 *)
WriteHeader(x, s, H) ==
    /\ map' = [map EXCEPT ![x] = H]
    /\ head' = [head EXCEPT ![x] = IF @ = None THEN [status |-> s, headers |-> H] ELSE @]

FlushHeaders(x) ==
    /\ sent' = [sent EXCEPT ![x] = TRUE]
    /\ IF sent[x] THEN UNCHANGED <<map, head>>
       ELSE WriteHeader(x, Final(x), map[x] \cup headers[x])

WithPage(H) == (H \ Displaced) \cup PageHeaders

(* http.Error prepares the headers of its page and calls WriteHeader.       *)
HttpError(x) ==
    /\ WriteHeader(x, 500, WithPage(map[x]))
    /\ page' = [page EXCEPT ![x] = TRUE]

-----------------------------------------------------------------------------
(* Requests arrive.                                                        *)

(* HTTPHandler wraps the request and posts a run event.                    *)
ClientRequest(x) ==
    /\ stage[x] = "none"
    /\ stage' = [stage EXCEPT ![x] = "queued"]
    /\ \E n \in Lengths, known \in BOOLEAN :
          /\ length' = [length EXCEPT ![x] = n]
          /\ declared' = [declared EXCEPT ![x] = known]
    /\ UNCHANGED <<via, caller, captured, httpMux, response, cache>>

LoopFree == \A y \in Exchanges : stage[y] # "lua"

RunEntryPoint(x) ==
    /\ stage[x] = "queued" /\ LoopFree
    /\ stage' = [stage EXCEPT ![x] = "lua"]
    /\ UNCHANGED <<via, caller, captured, response, request, cache>>

ResumeThread(x) ==
    /\ stage[x] = "ready" /\ LoopFree
    /\ stage' = [stage EXCEPT ![x] = "lua"]
    /\ UNCHANGED <<via, caller, captured, response, request, cache>>

-----------------------------------------------------------------------------
(* What Lua code does on behalf of exchange x.  Errors that are raised in   *)
(* Lua may be caught there, so they change nothing by themselves; Fail is   *)
(* an error that nobody caught.                                             *)

StatusSet(x, s) ==
    /\ stage[x] = "lua" /\ ~sent[x]
    /\ status' = [status EXCEPT ![x] = s]
    /\ UNCHANGED <<lua, headers, sent, map, head, text, page, result, request, cache>>

(* Setting, replacing and clearing; a table that is no array clears the     *)
(* header before the error is raised.                                       *)
HeaderSet(x, H) ==
    /\ stage[x] = "lua" /\ ~sent[x]
    /\ headers' = [headers EXCEPT ![x] = H]
    /\ UNCHANGED <<lua, status, sent, map, head, text, page, result, request, cache>>

(* headerFlushingWriter sends the head before the first output; the buffer  *)
(* of a subrequest without a mux has no head.                               *)
Flushing(x) ==
    IF via[x] = "direct" THEN UNCHANGED <<sent, map, head>> ELSE FlushHeaders(x)

Output(x) ==
    /\ stage[x] = "lua" /\ text[x] < MaxText
    /\ text' = [text EXCEPT ![x] = @ + 1]
    /\ Flushing(x)
    /\ UNCHANGED <<lua, status, headers, page, result, request, cache>>

(* The connection is broken, or the status allows no body.                  *)
OutputFails(x) ==
    /\ stage[x] = "lua" /\ via[x] = "client"
    /\ Flushing(x)
    /\ UNCHANGED <<lua, status, headers, text, page, result, request, cache>>

Sleep(x) ==
    /\ stage[x] = "lua"
    /\ stage' = [stage EXCEPT ![x] = "waiting"]
    /\ UNCHANGED <<via, caller, captured, response, request, cache>>

(* A subrequest has no body.  Through the mux it meets HTTPHandler as a     *)
(* client's request does.                                                   *)
Capture(x, y) ==
    /\ stage[x] = "lua" /\ stage[y] = "none"
    /\ stage' = [stage EXCEPT ![x] = "waiting", ![y] = "queued"]
    /\ via' = [via EXCEPT ![y] = IF httpMux THEN "mux" ELSE "direct"]
    /\ caller' = [caller EXCEPT ![y] = x]
    /\ UNCHANGED <<captured, response, request, cache>>

Over(x, r) ==
    /\ stage' = [stage EXCEPT ![x] = "over"]
    /\ result' = [result EXCEPT ![x] = r]
    /\ UNCHANGED <<via, caller, captured, headers, sent, map, head, text, page, request, cache>>

ExitSets(x, s) ==
    /\ stage[x] = "lua" /\ s <= 599
    /\ status' = [status EXCEPT ![x] = IF s = 0 THEN @ ELSE s]
    /\ Over(x, "ok")

(* exit ends the thread; 0 stands for no status, above 599 it refuses.      *)
Exit(x, s) ==
    /\ stage[x] = "lua" /\ s <= 599
    /\ status' = [status EXCEPT ![x] = IF sent[x] \/ s = 0 THEN @ ELSE s]
    /\ Over(x, "ok")

Finish(x) == stage[x] = "lua" /\ status' = status /\ Over(x, "ok")

Fail(x) == stage[x] = "lua" /\ status' = status /\ Over(x, "error")

-----------------------------------------------------------------------------
(* The request's body.                                                     *)

Smaller(m, n) == IF m < n THEN m ELSE n

ObtainedShort(n) == IF Limit > 0 THEN Smaller(n, Limit) ELSE n

(* How many bytes ReadAll gets through the limited reader.                  *)
Obtained(n) == IF Limit > 0 THEN Smaller(n, Limit + 1) ELSE n

TooLarge(n) == Limit > 0 /\ n > Limit

(* The first call decides; later calls return what it found.  The read may  *)
(* fail half way.                                                           *)
ReadBody(x) ==
    /\ stage[x] = "lua" /\ ~bodyRead[x]
    /\ bodyRead' = [bodyRead EXCEPT ![x] = TRUE]
    /\ \/ /\ length[x] = None
          /\ UNCHANGED <<bodyData, bodyErr>>
       \/ /\ length[x] # None
          /\ \/ declared[x] /\ TooLarge(length[x])
             \/ TooLarge(Obtained(length[x]))
          /\ bodyErr' = [bodyErr EXCEPT ![x] = "large"]
          /\ UNCHANGED bodyData
       \/ /\ length[x] # None /\ ~(declared[x] /\ TooLarge(length[x]))
          /\ bodyErr' = [bodyErr EXCEPT ![x] = "read"]
          /\ UNCHANGED bodyData
       \/ /\ length[x] # None /\ ~(declared[x] /\ TooLarge(length[x]))
          /\ ~TooLarge(Obtained(length[x]))
          /\ bodyData' = [bodyData EXCEPT ![x] = Obtained(length[x])]
          /\ UNCHANGED bodyErr
    /\ UNCHANGED <<lua, response, request>>

(* What golapis.req.get_body_data(max) returns; 0 is no max, None is nil.   *)
GetBodyData(x, max) ==
    IF ~bodyRead[x] \/ bodyData[x] \in {None, 0} THEN None
    ELSE IF max > 0 THEN Smaller(bodyData[x], max) ELSE bodyData[x]

-----------------------------------------------------------------------------
(* Goroutines: timers, the HTTP handler, and the one behind a capture.      *)

(* Whatever else a thread waits for ends, with a resume event.              *)
Wake(x) ==
    /\ stage[x] = "waiting"
    /\ \A y \in Exchanges : caller[y] = x => stage[y] = "returned"
    /\ stage' = [stage EXCEPT ![x] = "ready"]
    /\ UNCHANGED <<via, caller, captured, response, request, cache>>

(* The handler, or the goroutine of a capture without a mux, has the        *)
(* response from the event loop.                                            *)
Answer(x) ==
    /\ stage[x] = "over"
    /\ stage' = [stage EXCEPT ![x] = "done"]
    /\ \/ via[x] = "direct" /\ UNCHANGED <<sent, map, head, page>>
       \/ /\ via[x] # "direct" /\ result[x] = "error"
          /\ HttpError(x)
          /\ sent' = sent
       \/ /\ via[x] # "direct" /\ result[x] # "error"
          /\ FlushHeaders(x)
          /\ page' = page
    /\ UNCHANGED <<via, caller, captured, status, headers, text, result, request, cache>>

CapturedNoError(y) ==
    IF via[y] = "mux"
    THEN [status |-> head[y].status, headers |-> map[y], text |-> text[y], page |-> page[y]]
    ELSE [status |-> Final(y), headers |-> headers[y], text |-> text[y], page |-> FALSE]

(* What the recorder holds, with the headers as they are now and not as the *)
(* head has them, or what the goroutine makes of the thread's request and   *)
(* of the buffer.                                                           *)
Captured(y) ==
    IF via[y] = "mux"
    THEN [status |-> head[y].status, headers |-> map[y], text |-> text[y], page |-> page[y]]
    ELSE IF result[y] = "error"
    THEN [status |-> 500, headers |-> {}, text |-> 0, page |-> TRUE]
    ELSE [status |-> Final(y), headers |-> headers[y], text |-> text[y], page |-> FALSE]

(* The resume event with a CaptureResponse.                                 *)
CaptureReturns(y) ==
    /\ stage[y] = "done" /\ via[y] # "client"
    /\ stage' = [stage EXCEPT ![y] = "returned", ![caller[y]] = "ready"]
    /\ captured' = [captured EXCEPT ![caller[y]] = Captured(y)]
    /\ UNCHANGED <<via, caller, response, request, cache>>

-----------------------------------------------------------------------------
LuaStep(x) ==
    \/ \E s \in Statuses : StatusSet(x, s)
    \/ \E H \in SUBSET Headers : HeaderSet(x, H)
    \/ Output(x) \/ OutputFails(x) \/ ReadBody(x)
    \/ Sleep(x) \/ \E y \in Exchanges : Capture(x, y)
    \/ \E s \in Statuses \cup {0} : Exit(x, s)
    \/ Finish(x) \/ Fail(x)

Next ==
    \E x \in Exchanges :
       \/ ClientRequest(x) \/ RunEntryPoint(x) \/ ResumeThread(x)
       \/ LuaStep(x)
       \/ Wake(x) \/ Answer(x) \/ CaptureReturns(x)

Spec == Init /\ [][Next]_vars

-----------------------------------------------------------------------------
(* Properties.                                                             *)

Stages == {"none", "queued", "lua", "waiting", "ready", "over", "done", "returned"}
Heads == [status : 200 .. 999, headers : SUBSET Fields]
Answers == [status : 200 .. 999, headers : SUBSET Fields, text : Nat, page : BOOLEAN]

(* Every field of the request, its thread and its writer has one of its     *)
(* values; in particular no head goes out with the status 0 of a request    *)
(* whose status was never set.                                              *)
TypeOK ==
    /\ stage \in [Exchanges -> Stages]
    /\ via \in [Exchanges -> {"client", "mux", "direct"}]
    /\ caller \in [Exchanges -> Exchanges \cup {None}]
    /\ status \in [Exchanges -> Statuses \cup {0}]
    /\ headers \in [Exchanges -> SUBSET Headers]
    /\ sent \in [Exchanges -> BOOLEAN]
    /\ map \in [Exchanges -> SUBSET Fields]
    /\ head \in [Exchanges -> Heads \cup {None}]
    /\ text \in [Exchanges -> Nat]
    /\ page \in [Exchanges -> BOOLEAN]
    /\ result \in [Exchanges -> {"none", "ok", "error"}]
    /\ captured \in [Exchanges -> Answers \cup {None}]
    /\ length \in [Exchanges -> Nat \cup {None}]
    /\ declared \in [Exchanges -> BOOLEAN]
    /\ httpMux \in BOOLEAN
    /\ bodyRead \in [Exchanges -> BOOLEAN]
    /\ bodyData \in [Exchanges -> Nat \cup {None}]
    /\ bodyErr \in [Exchanges -> {"none", "read", "large"}]

(* What golapis.status and golapis.header say after output is what the      *)
(* receiver got: neither an assignment nor exit changes a request whose     *)
(* head is out, and a head goes out before that only as an error page.      *)
HeadHonest ==
    \A x \in Exchanges :
       IF sent[x] THEN head[x] = [status |-> Final(x), headers |-> headers[x]]
       ELSE head[x] # None => page[x] /\ head[x] = [status |-> 500, headers |-> PageHeaders]

(* get_post_args sees the whole body, within the limit, or nothing: never    *)
(* the part of a body that fits or that came before an error.  get_body_data *)
(* returns as much of the whole body as its caller asks for.                *)
BodyWhole ==
    \A x \in Exchanges :
       bodyData[x] # None =>
          /\ bodyData[x] = length[x] /\ bodyErr[x] = "none"
          /\ Limit > 0 => bodyData[x] <= Limit
          /\ \A max \in Lengths \cup {0} :
                GetBodyData(x, max) # None =>
                   IF max = 0 \/ length[x] <= max THEN GetBodyData(x, max) = length[x]
                   ELSE GetBodyData(x, max) = max

(* What the receiver of a response has.                                     *)
OnTheWire(x) ==
    [status |-> head[x].status, headers |-> head[x].headers, text |-> text[x], page |-> page[x]]

Given(x) ==
    IF stage[x] \notin {"done", "returned"} THEN None
    ELSE IF via[x] = "client" THEN OnTheWire(x) ELSE Captured(x)

Life(x) ==
    CASE stage[x] = "none" -> "none"
      [] stage[x] \in {"queued", "lua", "waiting", "ready"} -> "open"
      [] stage[x] = "over" -> IF result[x] = "ok" THEN "ok" ELSE "failed"
      [] stage[x] \in {"done", "returned"} -> "answered"

P == INSTANCE Response WITH
        life <- [x \in Exchanges |-> Life(x)],
        said <- [x \in Exchanges |->
                   [status |-> status[x], headers |-> headers[x], text |-> text[x]]],
        way <- via,
        fixed <- sent,
        answer <- [x \in Exchanges |-> Given(x)],
        told <- captured

(* Client and capturing thread get the status, headers and output of the    *)
(* Lua code that answered; if it failed, they get the error page in the way  *)
(* that Response tells: behind the head that went out, with the page's       *)
(* headers mixed in, or alone.                                              *)
KeepsPromise == P!Spec
=============================================================================
