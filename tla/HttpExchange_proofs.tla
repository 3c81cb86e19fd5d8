------------------------ MODULE HttpExchange_proofs ------------------------
(***************************************************************************)
(* Proofs about HttpExchange, for any set of exchanges, statuses, headers, *)
(* body lengths and any limit: what is known of a head, what read_body     *)
(* leaves, and that clients and capturing threads get the response that    *)
(* the Lua code made (Response).  The inductive invariant says, of each    *)
(* exchange, what its writer holds at each stage, and of each capture that *)
(* the thread behind it waits for it alone.                                *)
(***************************************************************************)
EXTENDS HttpExchange, TLAPS

Before == {"none", "queued", "lua", "waiting", "ready"}
After  == {"done", "returned"}

\* What has not begun is untouched, and a response exists once the thread is over.
Progress ==
  \A x \in Exchanges :
    /\ stage[x] = "none" => via[x] = "client" /\ ~sent[x] /\ text[x] = 0 /\ ~bodyRead[x]
    /\ result[x] = "none" <=> stage[x] \in Before
    /\ ~bodyRead[x] => bodyData[x] = None /\ bodyErr[x] = "none"

\* A thread that captures waits, and for one subrequest.
Calls ==
  /\ \A x \in Exchanges : via[x] = "client" <=> caller[x] = None
  /\ \A y \in Exchanges :
       caller[y] # None /\ stage[y] # "returned" => stage[caller[y]] = "waiting"
  /\ \A y, z \in Exchanges :
       /\ caller[y] # None /\ caller[y] = caller[z]
       /\ stage[y] # "returned" /\ stage[z] # "returned"
       => y = z

\* What the writer holds: a buffer never has a head, other writers have no
\* output before their head, and the handler leaves a head and, after an
\* error, the page.
Writers ==
  \A x \in Exchanges :
    /\ via[x] = "direct" => ~sent[x] /\ head[x] = None
    /\ via[x] # "direct" /\ ~sent[x] => text[x] = 0
    /\ page[x] => stage[x] \in After /\ result[x] = "error" /\ via[x] # "direct"
    /\ stage[x] \in After /\ via[x] # "direct" =>
         /\ head[x] # None
         /\ result[x] = "ok" => sent[x]
         /\ result[x] = "error" => page[x]

\* The writer's header map holds what was flushed, and an error page over it.
Flushed(x) == IF sent[x] THEN headers[x] ELSE {}
Maps == \A x \in Exchanges : map[x] = IF page[x] THEN WithPage(Flushed(x)) ELSE Flushed(x)

\* BodyWhole before get_body_data makes its cut.
DataWhole ==
  \A x \in Exchanges :
    bodyData[x] # None =>
      /\ bodyData[x] = length[x] /\ bodyErr[x] = "none"
      /\ Limit > 0 => bodyData[x] <= Limit

IInv == TypeOK /\ Progress /\ Calls /\ Writers /\ Maps /\ HeadHonest /\ DataWhole

-----------------------------------------------------------------------------
(* Heads and answers.                                                      *)

LEMMA Headless ==
  ASSUME NEW s \in 200 .. 999, NEW H \in SUBSET Fields
  PROVE  [status |-> s, headers |-> H] # None
BY ExchangesAssumption

LEMMA FinalType ==
  ASSUME TypeOK, NEW x \in Exchanges
  PROVE  Final(x) \in 200 .. 999
<1>1. status[x] \in Statuses \cup {0}
  BY DEF TypeOK
<1>2. \A s \in Statuses : s \in 200 .. 999
  BY StatusesAssumption
<1>3. status[x] # 0 => status[x] \in 200 .. 999
  BY <1>1, <1>2
<1>4. 200 \in 200 .. 999
  OBVIOUS
<1> QED BY <1>3, <1>4 DEF Final

LEMMA MadeHead ==
  ASSUME NEW s \in 200 .. 999, NEW H \in SUBSET Fields
  PROVE  [status |-> s, headers |-> H] \in Heads \ {None}
<1>1. [status |-> s, headers |-> H] \in Heads
  BY DEF Heads
<1>2. [status |-> s, headers |-> H] # None
  BY Headless
<1> QED BY <1>1, <1>2

LEMMA HeadType ==
  ASSUME TypeOK, NEW x \in Exchanges
  PROVE  /\ [status |-> Final(x), headers |-> headers[x]] \in Heads \ {None}
         /\ [status |-> 500, headers |-> PageHeaders] \in Heads \ {None}
<1>1. [status |-> Final(x), headers |-> headers[x]] \in Heads \ {None}
  <2>1. headers[x] \in SUBSET Fields
    BY DEF TypeOK, Fields
  <2>2. Final(x) \in 200 .. 999
    BY FinalType
  <2> QED BY <2>1, <2>2, MadeHead, ZenonT(40)
<1>2. [status |-> 500, headers |-> PageHeaders] \in Heads \ {None}
  <2>1. PICK H \in SUBSET Fields : H = PageHeaders
    BY DEF Fields
  <2>2. PICK s \in 200 .. 999 : s = 500
    OBVIOUS
  <2>3. [status |-> s, headers |-> H] \in Heads \ {None}
    BY MadeHead
  <2> QED BY <2>1, <2>2, <2>3
<1> QED BY <1>1, <1>2

\* WriteHeader touches the head and the header map of one exchange and leaves a head.
Written(x, H) ==
  /\ head' \in [Exchanges -> Heads \cup {None}]
  /\ \A y \in Exchanges \ {x} : head'[y] = head[y] /\ map'[y] = map[y]
  /\ map' \in [Exchanges -> SUBSET Fields] /\ map'[x] = H

LEMMA WritesHead ==
  ASSUME TypeOK, NEW x \in Exchanges, NEW s \in 200 .. 999, NEW H \in SUBSET Fields,
         WriteHeader(x, s, H)
  PROVE  Written(x, H)
<1>1. PICK h \in Heads : h = [status |-> s, headers |-> H]
  BY MadeHead
<1>2. head' = [head EXCEPT ![x] = IF @ = None THEN h ELSE @] /\ map' = [map EXCEPT ![x] = H]
  BY <1>1 DEF WriteHeader
<1> QED BY <1>2 DEF TypeOK, Written

\* FlushHeaders writes the head: the headers that Lua code has set, and no others.
LEMMA FlushWrites ==
  ASSUME TypeOK, NEW x \in Exchanges, FlushHeaders(x), ~sent[x],
         map[x] \cup headers[x] = headers[x]
  PROVE  Written(x, headers[x])
<1>1. PICK H \in SUBSET Fields : H = headers[x]
  BY DEF TypeOK, Fields
<1>2. PICK f \in 200 .. 999 : f = Final(x)
  BY FinalType
<1>3. WriteHeader(x, f, H)
  BY <1>1, <1>2 DEF FlushHeaders
<1> QED BY <1>1, <1>3, WritesHead, ZenonT(40)

\* HeadHonest of one exchange.
Honest(x) ==
  /\ sent[x] => head[x] = [status |-> Final(x), headers |-> headers[x]]
  /\ ~sent[x] /\ head[x] # None =>
       page[x] /\ head[x] = [status |-> 500, headers |-> PageHeaders]

LEMMA HonestEach == ASSUME TypeOK PROVE HeadHonest <=> \A x \in Exchanges : Honest(x)
BY DEF HeadHonest, Honest, TypeOK

LEMMA HonestEachNext ==
  ASSUME TypeOK' PROVE HeadHonest' <=> \A x \in Exchanges : Honest(x)'
BY DEF HeadHonest, Honest, TypeOK

LEMMA HonestKept ==
  ASSUME NEW y \in Exchanges, Honest(y), sent'[y] = sent[y], head'[y] = head[y],
         page'[y] = page[y], status'[y] = status[y], headers'[y] = headers[y]
  PROVE  Honest(y)'
BY DEF Honest, Final

\* Only an error page is sent without the request's own head.
LEMMA SentHasHead ==
  ASSUME IInv, NEW x \in Exchanges, ~page[x]
  PROVE  head[x] # None <=> sent[x]
<1>1. Honest(x)
  BY HonestEach DEF IInv
<1>2. [status |-> Final(x), headers |-> headers[x]] # None
  BY HeadType DEF IInv
<1> QED BY <1>1, <1>2 DEF Honest

\* The header map of another exchange stays.
LEMMA MapKept ==
  ASSUME NEW y \in Exchanges, Maps, map'[y] = map[y], sent'[y] = sent[y], page'[y] = page[y],
         headers'[y] = headers[y]
  PROVE  map'[y] = (IF page[y] THEN WithPage(Flushed(y)) ELSE Flushed(y))'
BY DEF Maps, Flushed, WithPage

\* What get_body_data cuts is whole before.
LEMMA CutsWhole == ASSUME TypeOK, DataWhole PROVE BodyWhole
<1> SUFFICES ASSUME NEW x \in Exchanges, bodyData[x] # None, NEW max \in Lengths \cup {0},
                    GetBodyData(x, max) # None
             PROVE  IF max = 0 \/ length[x] <= max THEN GetBodyData(x, max) = length[x]
                    ELSE GetBodyData(x, max) = max
  BY DEF BodyWhole, DataWhole
<1>1. bodyData[x] \in Nat /\ bodyData[x] = length[x] /\ max \in Nat
  BY LimitAssumption DEF TypeOK, DataWhole
<1>2. GetBodyData(x, max) = IF max > 0 THEN Smaller(bodyData[x], max) ELSE bodyData[x]
  BY DEF GetBodyData
<1> QED BY <1>1, <1>2 DEF Smaller

LEMMA InitHolds == Init => IInv
<1> SUFFICES ASSUME Init PROVE IInv
  OBVIOUS
<1>1. TypeOK
  BY DEF Init, TypeOK, Stages
<1>2. Progress
  BY DEF Init, Progress, Before
<1>3. Calls
  BY DEF Init, Calls
<1>4. Writers
  BY DEF Init, Writers, After
<1>5. HeadHonest /\ DataWhole /\ Maps
  BY DEF Init, HeadHonest, DataWhole, Maps, Flushed
<1> QED BY <1>1, <1>2, <1>3, <1>4, <1>5 DEF IInv

-----------------------------------------------------------------------------
(* Each action keeps the invariant.  A step of the event loop or of a       *)
(* goroutine that only moves an exchange between stages before the end      *)
(* touches no writer.                                                       *)

LEMMA MovesKeep ==
  ASSUME IInv, NEW x \in Exchanges, NEW t \in {"queued", "lua", "waiting", "ready"},
         stage[x] \in {"none", "queued", "lua", "waiting", "ready"},
         stage[x] = "waiting" =>
           \A y \in Exchanges : caller[y] = x => stage[y] = "returned",
         stage' = [stage EXCEPT ![x] = t],
         UNCHANGED <<via, caller, captured, response, httpMux, cache>>,
         length' \in [Exchanges -> Nat \cup {None}],
         declared' \in [Exchanges -> BOOLEAN],
         \A y \in Exchanges : y # x \/ stage[x] # "none" => length'[y] = length[y]
  PROVE  IInv'
<1> USE DEF IInv, response, cache
<1>1. TypeOK'
  BY DEF TypeOK, Stages
<1>2. Progress'
  BY <1>1 DEF TypeOK, Progress, Before
<1>3. Calls'
  BY <1>1 DEF TypeOK, Calls
<1>4. Writers'
  BY <1>1 DEF TypeOK, Writers, After
<1>5. HeadHonest'
  BY DEF HeadHonest, Final
<1>6. DataWhole' /\ Maps'
  BY DEF DataWhole, Progress, Maps, Flushed
<1> QED BY <1>1, <1>2, <1>3, <1>4, <1>5, <1>6

LEMMA MovingSteps ==
  ASSUME IInv, NEW x \in Exchanges,
         \/ ClientRequest(x) \/ RunEntryPoint(x) \/ ResumeThread(x)
         \/ Sleep(x) \/ Wake(x)
  PROVE  IInv'
<1>1. CASE ClientRequest(x)
  <2>1. PICK n \in Lengths, known \in BOOLEAN :
          /\ length' = [length EXCEPT ![x] = n]
          /\ declared' = [declared EXCEPT ![x] = known]
    BY <1>1 DEF ClientRequest
  <2>2. /\ length' \in [Exchanges -> Nat \cup {None}]
        /\ declared' \in [Exchanges -> BOOLEAN]
    BY <2>1, LimitAssumption DEF IInv, TypeOK
  <2> QED BY <1>1, <2>1, <2>2, MovesKeep DEF ClientRequest, IInv, TypeOK
<1>2. CASE RunEntryPoint(x) \/ ResumeThread(x) \/ Sleep(x) \/ Wake(x)
  <2>1. UNCHANGED <<via, caller, captured, response, request, cache>>
    BY <1>2 DEF RunEntryPoint, ResumeThread, Sleep, Wake
  <2>2. PICK t \in {"queued", "lua", "waiting", "ready"} :
          stage' = [stage EXCEPT ![x] = t]
    BY <1>2 DEF RunEntryPoint, ResumeThread, Sleep, Wake
  <2>3. /\ stage[x] \in {"none", "queued", "lua", "waiting", "ready"}
        /\ stage[x] = "waiting" =>
             \A y \in Exchanges : caller[y] = x => stage[y] = "returned"
    BY <1>2 DEF RunEntryPoint, ResumeThread, Sleep, Wake
  <2> QED BY <2>1, <2>2, <2>3, MovesKeep DEF request, IInv, TypeOK
<1> QED BY <1>1, <1>2

LEMMA CaptureKeeps ==
  ASSUME IInv, NEW x \in Exchanges, NEW y \in Exchanges, Capture(x, y)
  PROVE  IInv'
<1> USE DEF IInv, Capture, response, request, cache
<1>1. TypeOK'
  BY DEF TypeOK, Stages
<1>2. Progress'
  BY DEF TypeOK, Progress, Before
<1>3. x # y /\ caller[y] = None
  BY DEF Progress, Calls
<1>4. \A z \in Exchanges : caller[z] = x => stage[z] = "returned"
  BY ExchangesAssumption DEF Calls
<1>5. Calls'
  <2>1. \A z \in Exchanges : via'[z] = "client" <=> caller'[z] = None
    BY ExchangesAssumption DEF TypeOK, Calls
  <2>2. ASSUME NEW z \in Exchanges, caller'[z] # None, stage'[z] # "returned"
        PROVE  stage'[caller'[z]] = "waiting"
    BY <1>3, <2>2 DEF TypeOK, Calls
  <2>3. ASSUME NEW w \in Exchanges, NEW z \in Exchanges,
               caller'[w] # None, caller'[w] = caller'[z],
               stage'[w] # "returned", stage'[z] # "returned"
        PROVE  w = z
    BY <1>3, <1>4, <2>3 DEF TypeOK, Calls
  <2> QED BY <2>1, <2>2, <2>3, ZenonT(40) DEF Calls
<1>6. Writers'
  BY DEF TypeOK, Writers, After, HeadHonest, Progress
<1>7. HeadHonest'
  BY DEF HeadHonest, Final
<1>8. DataWhole' /\ Maps'
  BY DEF DataWhole, Maps, Flushed
<1> QED BY <1>1, <1>2, <1>5, <1>6, <1>7, <1>8

LEMMA HeadStepsKeep ==
  ASSUME IInv, NEW x \in Exchanges,
         \/ \E s \in Statuses : StatusSet(x, s)
         \/ \E H \in SUBSET Headers : HeaderSet(x, H)
  PROVE  IInv'
<1> USE DEF IInv, lua, request, cache
<1>1. stage[x] = "lua" /\ ~sent[x]
  BY DEF StatusSet, HeaderSet
<1>2. UNCHANGED <<lua, sent, map, head, text, page, result, request, cache>>
  BY DEF StatusSet, HeaderSet
<1>3. /\ \A y \in Exchanges \ {x} : status'[y] = status[y] /\ headers'[y] = headers[y]
      /\ status' \in [Exchanges -> Statuses \cup {0}]
      /\ headers' \in [Exchanges -> SUBSET Headers]
  BY DEF StatusSet, HeaderSet, TypeOK
<1>4. TypeOK'
  BY <1>2, <1>3 DEF TypeOK
<1>5. Progress' /\ Calls' /\ Writers'
  BY <1>2 DEF Progress, Calls, Writers
<1>6. HeadHonest'
  <2>1. ASSUME NEW y \in Exchanges PROVE Honest(y)'
    <3>1. Honest(y)
      BY HonestEach
    <3>2. CASE y = x
      BY <1>1, <1>2, <3>1, <3>2 DEF Honest
    <3>3. CASE y # x
      BY <1>2, <1>3, <3>1, <3>3, HonestKept
    <3> QED BY <3>2, <3>3
  <2> QED BY <1>4, <2>1, HonestEachNext
<1>7. DataWhole' /\ Maps'
  BY <1>1, <1>2, <1>3 DEF DataWhole, Maps, Flushed, WithPage
<1> QED BY <1>4, <1>5, <1>6, <1>7

LEMMA OutputKeeps ==
  ASSUME IInv, NEW x \in Exchanges, Output(x) \/ OutputFails(x)
  PROVE  IInv'
<1> USE DEF IInv, lua, request, cache
<1>1. stage[x] = "lua" /\ UNCHANGED <<lua, status, headers, page, result, request, cache>>
  BY DEF Output, OutputFails
<1>2. Flushing(x)
  BY DEF Output, OutputFails
<1>3. text' \in [Exchanges -> Nat] /\ \A y \in Exchanges \ {x} : text'[y] = text[y]
  BY DEF Output, OutputFails, TypeOK
<1>13. ~page[x] /\ map[x] = Flushed(x)
  BY <1>1 DEF Writers, After, Maps
<1>4. /\ \A y \in Exchanges \ {x} : sent'[y] = sent[y] /\ head'[y] = head[y] /\ map'[y] = map[y]
      /\ sent' \in [Exchanges -> BOOLEAN]
      /\ head' \in [Exchanges -> Heads \cup {None}]
      /\ map' \in [Exchanges -> SUBSET Fields]
      /\ map'[x] = Flushed(x)'
  <2>1. CASE via[x] = "direct" \/ sent[x]
    BY <1>1, <1>2, <1>13, <2>1 DEF Flushing, FlushHeaders, TypeOK, Flushed
  <2>2. CASE via[x] # "direct" /\ ~sent[x]
    <3>1. map[x] \cup headers[x] = headers[x]
      BY <1>13, <2>2 DEF Flushed
    <3>2. FlushHeaders(x) /\ TypeOK
      BY <1>2, <2>2 DEF Flushing
    <3>3. sent' = [sent EXCEPT ![x] = TRUE]
      BY <3>2 DEF FlushHeaders
    <3>4. Written(x, headers[x])
      BY <2>2, <3>1, <3>2, FlushWrites
    <3> QED BY <1>1, <3>3, <3>4 DEF TypeOK, Flushed, Written
  <2> QED BY <2>1, <2>2
<1>5. head[x] # None <=> sent[x]
  BY <1>1, SentHasHead DEF Writers, After
<1>12. Honest(x)
  BY HonestEach
<1>6. IF via[x] = "direct" THEN sent'[x] = sent[x] /\ head'[x] = head[x]
      ELSE sent'[x] /\ head'[x] = [status |-> Final(x), headers |-> headers[x]]
  BY <1>2, <1>5, <1>12, <1>13 DEF Flushing, FlushHeaders, WriteHeader, TypeOK, Honest, Flushed
<1>7. TypeOK'
  BY <1>1, <1>3, <1>4 DEF TypeOK
<1>8. Progress' /\ Calls'
  BY <1>1, <1>3, <1>4 DEF Progress, Calls
<1>9. Writers'
  BY <1>1, <1>3, <1>4, <1>6 DEF Writers, After
<1>10. HeadHonest'
  <2>1. Honest(x)'
    BY <1>1, <1>6, <1>12 DEF Honest, Final
  <2>2. ASSUME NEW y \in Exchanges \ {x} PROVE Honest(y)'
    BY <1>1, <1>4, HonestEach, HonestKept
  <2> QED BY <1>7, <2>1, <2>2, HonestEachNext
<1>14. Maps'
  BY <1>1, <1>4, <1>13, MapKept DEF Maps
<1>11. DataWhole' /\ Maps'
  BY <1>1, <1>14 DEF DataWhole
<1> QED BY <1>7, <1>8, <1>9, <1>10, <1>11

\* LimitReader lets one byte more through than the limit: a body that fits is
\* read whole and any other is seen to be too large.
LEMMA ObtainedWhole ==
  ASSUME NEW n \in Nat, ~TooLarge(Obtained(n))
  PROVE  Obtained(n) = n /\ (Limit > 0 => n <= Limit)
BY LimitAssumption DEF TooLarge, Obtained, Smaller

LEMMA ReadBodyKeeps ==
  ASSUME IInv, NEW x \in Exchanges, ReadBody(x)
  PROVE  IInv'
<1> USE DEF IInv, ReadBody, lua, response, request
<1>1. ~TooLarge(Obtained(length[x])) /\ length[x] # None =>
        Obtained(length[x]) = length[x] /\ (Limit > 0 => length[x] <= Limit)
  BY ObtainedWhole DEF TypeOK
<1>2. /\ \A y \in Exchanges \ {x} : bodyData'[y] = bodyData[y] /\ bodyErr'[y] = bodyErr[y]
      /\ bodyData' \in [Exchanges -> Nat \cup {None}]
      /\ bodyErr' \in [Exchanges -> {"none", "read", "large"}]
  BY <1>1 DEF TypeOK
<1>3. TypeOK'
  BY <1>2 DEF TypeOK
<1>4. Progress'
  BY <1>2 DEF TypeOK, Progress, Before
<1>5. Calls' /\ Writers' /\ HeadHonest' /\ Maps'
  BY DEF Calls, Writers, HeadHonest, Final, Maps, Flushed
<1>6. bodyData[x] = None /\ bodyErr[x] = "none"
  BY DEF Progress
<1>7. bodyData'[x] # None =>
        /\ bodyData'[x] = length[x] /\ bodyErr'[x] = "none"
        /\ Limit > 0 => bodyData'[x] <= Limit
  BY <1>1, <1>6 DEF TypeOK
<1>8. DataWhole'
  BY <1>2, <1>7 DEF DataWhole
<1> QED BY <1>3, <1>4, <1>5, <1>8

LEMMA EndsKeep ==
  ASSUME IInv, NEW x \in Exchanges,
         (\E s \in Statuses \cup {0} : Exit(x, s)) \/ Finish(x) \/ Fail(x)
  PROVE  IInv'
<1> USE DEF IInv, request, cache
<1>1. PICK r \in {"ok", "error"} : Over(x, r)
  BY DEF Exit, Finish, Fail
<1>2. stage[x] = "lua"
  BY DEF Exit, Finish, Fail
<1>3. /\ \A y \in Exchanges \ {x} : status'[y] = status[y]
      /\ status' \in [Exchanges -> Statuses \cup {0}]
      /\ sent[x] => status'[x] = status[x]
  BY DEF Exit, Finish, Fail, TypeOK
<1>4. TypeOK'
  BY <1>1, <1>3 DEF Over, TypeOK, Stages
<1>5. Progress'
  BY <1>1, <1>2 DEF Over, TypeOK, Progress, Before
<1>6. Calls'
  BY <1>1, <1>2 DEF Over, TypeOK, Calls
<1>7. Writers'
  BY <1>1, <1>2 DEF Over, TypeOK, Writers, After
<1>8. HeadHonest'
  <2>1. Honest(x)'
    <3>1. Honest(x) /\ ~page[x]
      BY <1>2, HonestEach DEF Writers, After
    <3> QED BY <1>1, <1>3, <3>1 DEF Over, Honest, Final
  <2>2. ASSUME NEW y \in Exchanges \ {x} PROVE Honest(y)'
    BY <1>1, <1>3, HonestEach, HonestKept DEF Over
  <2> QED BY <1>4, <2>1, <2>2, HonestEachNext
<1>9. DataWhole' /\ Maps'
  BY <1>1 DEF Over, DataWhole, Maps, Flushed
<1> QED BY <1>4, <1>5, <1>6, <1>7, <1>8, <1>9

LEMMA AnswerKeeps ==
  ASSUME IInv, NEW x \in Exchanges, Answer(x)
  PROVE  IInv'
<1>0. /\ [status |-> Final(x), headers |-> headers[x]] \in Heads \ {None}
      /\ [status |-> 500, headers |-> PageHeaders] \in Heads \ {None}
  BY HeadType DEF IInv
<1> USE DEF IInv, Answer, request, cache
<1>14. ~page[x] /\ map[x] = Flushed(x) /\ map[x] \in SUBSET Fields /\ headers[x] \in SUBSET Headers
  BY DEF Writers, After, Maps, TypeOK
<1>1. /\ \A y \in Exchanges \ {x} : /\ sent'[y] = sent[y] /\ head'[y] = head[y]
                                    /\ page'[y] = page[y] /\ map'[y] = map[y]
      /\ sent' \in [Exchanges -> BOOLEAN]
      /\ page' \in [Exchanges -> BOOLEAN]
      /\ head' \in [Exchanges -> Heads \cup {None}]
      /\ map' \in [Exchanges -> SUBSET Fields]
      /\ map'[x] = (IF page[x] THEN WithPage(Flushed(x)) ELSE Flushed(x))'
  <2>1. CASE via[x] = "direct"
    BY <1>14, <2>1 DEF TypeOK, Flushed
  <2>2. CASE via[x] # "direct" /\ result[x] = "error"
    <3>1. PICK H : H = WithPage(map[x])
      OBVIOUS
    <3>2. WriteHeader(x, 500, H) /\ sent' = sent /\ page' = [page EXCEPT ![x] = TRUE]
      BY <2>2, <3>1 DEF HttpError
    <3>3. 500 \in 200 .. 999 /\ H \in SUBSET Fields /\ TypeOK
      BY <1>14, <3>1 DEF WithPage, Fields
    <3>4. Written(x, H)
      BY <3>2, <3>3, WritesHead
    <3> QED BY <1>14, <3>1, <3>2, <3>4 DEF TypeOK, Flushed, WithPage, Written
  <2>3. CASE via[x] # "direct" /\ result[x] # "error"
    <3>1. FlushHeaders(x) /\ page' = page
      BY <2>3
    <3>2. CASE sent[x]
      BY <1>14, <3>1, <3>2 DEF FlushHeaders, TypeOK, Flushed
    <3>3. CASE ~sent[x]
      <4>1. map[x] \cup headers[x] = headers[x]
        BY <1>14, <3>3 DEF Flushed
      <4>2. sent' = [sent EXCEPT ![x] = TRUE] /\ TypeOK
        BY <3>1, <3>3 DEF FlushHeaders
      <4>3. Written(x, headers[x])
        BY <3>1, <3>3, <4>1, <4>2, FlushWrites
      <4> QED BY <1>14, <3>1, <4>2, <4>3 DEF TypeOK, Flushed, Written
    <3> QED BY <3>2, <3>3
  <2> QED BY <2>1, <2>2, <2>3
<1>2. result[x] \in {"ok", "error"} /\ ~page[x]
  BY DEF Progress, Before, Writers, After, TypeOK
<1>3. head[x] # None <=> sent[x]
  BY <1>2, SentHasHead
<1>12. Honest(x)
  BY HonestEach
<1>4. IF via[x] = "direct"
      THEN sent'[x] = sent[x] /\ head'[x] = head[x] /\ page'[x] = page[x]
      ELSE IF result[x] = "error"
      THEN /\ sent'[x] = sent[x] /\ page'[x]
           /\ head'[x] = IF sent[x] THEN head[x] ELSE [status |-> 500, headers |-> PageHeaders]
      ELSE /\ sent'[x] /\ page'[x] = page[x]
           /\ head'[x] = [status |-> Final(x), headers |-> headers[x]]
  <2>1. CASE via[x] = "direct"
    BY <2>1
  <2>2. CASE via[x] # "direct" /\ result[x] = "error"
    <3>1. ~sent[x] => WithPage(map[x]) = PageHeaders
      BY <1>14 DEF Flushed, WithPage
    <3> QED BY <1>2, <1>3, <2>2, <3>1 DEF HttpError, WriteHeader, TypeOK
  <2>3. CASE via[x] # "direct" /\ result[x] # "error"
    <3>1. ~sent[x] => map[x] \cup headers[x] = headers[x]
      BY <1>14 DEF Flushed
    <3>2. FlushHeaders(x) /\ page' = page
      BY <2>3
    <3>3. CASE sent[x]
      BY <1>12, <2>3, <3>2, <3>3 DEF FlushHeaders, TypeOK, Honest
    <3>4. CASE ~sent[x]
      <4>1. PICK H \in SUBSET Fields : H = map[x] \cup headers[x]
        BY <1>14 DEF Fields
      <4>2. H = headers[x]
        BY <3>1, <3>4, <4>1
      <4>3. PICK f \in 200 .. 999 : f = Final(x)
        BY FinalType
      <4>4. WriteHeader(x, f, H) /\ sent' = [sent EXCEPT ![x] = TRUE]
        BY <3>2, <3>4, <4>1, <4>3 DEF FlushHeaders
      <4>5. head[x] = None /\ head \in [Exchanges -> Heads \cup {None}]
        BY <1>3, <3>4 DEF TypeOK
      <4>6. head'[x] = [status |-> f, headers |-> H]
        BY <4>4, <4>5 DEF WriteHeader
      <4>7. sent'[x] /\ page'[x] = page[x]
        BY <3>2, <4>4 DEF TypeOK
      <4> QED BY <2>3, <4>2, <4>3, <4>6, <4>7
    <3> QED BY <3>3, <3>4
  <2> QED BY <2>1, <2>2, <2>3
<1>5. head'[x] # None \/ via[x] = "direct"
  BY <1>0, <1>3, <1>4
<1>6. TypeOK'
  BY <1>1 DEF TypeOK, Stages
<1>7. Progress'
  BY <1>1 DEF TypeOK, Progress, Before
<1>8. Calls'
  BY DEF TypeOK, Calls
<1>9. Writers'
  BY <1>1, <1>2, <1>4, <1>5 DEF TypeOK, Writers, After
<1>10. HeadHonest'
  <2>1. Honest(x)'
    BY <1>2, <1>3, <1>4, <1>12 DEF Honest, Final
  <2>2. ASSUME NEW y \in Exchanges \ {x} PROVE Honest(y)'
    BY <1>1, HonestEach, HonestKept
  <2> QED BY <1>6, <2>1, <2>2, HonestEachNext
<1>15. Maps'
  BY <1>1, MapKept DEF Maps
<1>11. DataWhole' /\ Maps'
  BY <1>15 DEF DataWhole
<1> QED BY <1>6, <1>7, <1>8, <1>9, <1>10, <1>11

LEMMA CapturedType ==
  ASSUME IInv, NEW y \in Exchanges, stage[y] \in After
  PROVE  Captured(y) \in Answers
<1>1. CASE via[y] = "mux"
  <2>1. head[y] \in Heads
    BY <1>1 DEF IInv, Writers, TypeOK
  <2> QED BY <1>1, <2>1 DEF Heads, Captured, Answers, IInv, TypeOK
<1>2. CASE via[y] # "mux"
  BY <1>2, FinalType DEF Captured, Answers, Fields, IInv, TypeOK
<1> QED BY <1>1, <1>2

LEMMA CaptureReturnsKeeps ==
  ASSUME IInv, NEW y \in Exchanges, CaptureReturns(y)
  PROVE  IInv' /\ caller[y] \in Exchanges /\ stage[caller[y]] = "waiting"
<1> USE DEF IInv, CaptureReturns, response, request, cache
<1>1. caller[y] \in Exchanges /\ stage[caller[y]] = "waiting"
  BY DEF Calls, TypeOK
<1>2. Captured(y) \in Answers
  BY CapturedType DEF After
<1>3. TypeOK'
  BY <1>1, <1>2 DEF TypeOK, Stages
<1>4. /\ stage'[y] = "returned" /\ stage'[caller[y]] = "ready"
      /\ \A z \in Exchanges \ {y, caller[y]} : stage'[z] = stage[z]
  BY <1>1 DEF TypeOK
<1>5. Progress'
  <2> SUFFICES ASSUME NEW z \in Exchanges
               PROVE  /\ stage'[z] = "none" => via[z] = "client" /\ ~sent[z] /\ text[z] = 0 /\ ~bodyRead[z]
                      /\ result[z] = "none" <=> stage'[z] \in Before
                      /\ ~bodyRead[z] => bodyData[z] = None /\ bodyErr[z] = "none"
    BY DEF Progress
  <2>1. stage'[z] = "none" => stage[z] = "none"
    BY <1>1, <1>4
  <2>2. stage'[z] \in Before <=> stage[z] \in Before
    BY <1>1, <1>4 DEF Before
  <2> QED BY <2>1, <2>2 DEF Progress
<1>6. Calls'
  <2>1. ASSUME NEW z \in Exchanges, caller[z] # None, stage'[z] # "returned"
        PROVE  stage'[caller[z]] = "waiting"
    <3>1. z # y /\ stage[z] # "returned"
      BY <1>1, <1>4, <2>1
    <3>2. caller[z] \in Exchanges /\ caller[z] # caller[y] /\ stage[caller[z]] = "waiting"
      BY <1>1, <2>1, <3>1, ExchangesAssumption DEF Calls, TypeOK
    <3> QED BY <1>4, <3>2
  <2>2. \A z \in Exchanges : stage'[z] # "returned" => stage[z] # "returned"
    BY <1>1, <1>4
  <2> QED BY <2>1, <2>2 DEF Calls
<1>7. Writers'
  BY <1>1, <1>4 DEF Writers, After
<1>8. HeadHonest' /\ DataWhole' /\ Maps'
  BY DEF HeadHonest, Final, DataWhole, Maps, Flushed
<1> QED BY <1>1, <1>3, <1>5, <1>6, <1>7, <1>8

LEMMA NextKeeps == IInv /\ [Next]_vars => IInv'
<1> SUFFICES ASSUME IInv, [Next]_vars PROVE IInv'
  OBVIOUS
<1>1. CASE UNCHANGED vars
  BY <1>1 DEF vars, lua, response, request, cache, IInv, TypeOK, Progress, Calls,
     Writers, Maps, Flushed, HeadHonest, DataWhole, Final
<1>2. CASE Next
  <2>1. PICK x \in Exchanges :
          \/ ClientRequest(x) \/ RunEntryPoint(x) \/ ResumeThread(x)
          \/ LuaStep(x) \/ Wake(x) \/ Answer(x) \/ CaptureReturns(x)
    BY <1>2 DEF Next
  <2> QED BY <2>1, MovingSteps, CaptureKeeps, HeadStepsKeep, OutputKeeps,
          ReadBodyKeeps, EndsKeep, AnswerKeeps, CaptureReturnsKeeps DEF LuaStep
<1> QED BY <1>1, <1>2

-----------------------------------------------------------------------------
(* Theorems.                                                               *)

\* The invariant holds in every reachable state.
THEOREM Invariance == Spec => []IInv
<1>1. Init => IInv
  BY InitHolds
<1>2. IInv /\ [Next]_vars => IInv'
  BY NextKeeps
<1> QED BY <1>1, <1>2, PTL DEF Spec

\* Every field keeps its type; no head has a status that was never set.
THEOREM TypeCorrect == Spec => []TypeOK
<1>1. IInv => TypeOK
  BY DEF IInv
<1> QED BY <1>1, Invariance, PTL

\* What Lua code reads of status and headers after output is what was sent.
THEOREM HeadsHonest == Spec => []HeadHonest
<1>1. IInv => HeadHonest
  BY DEF IInv
<1> QED BY <1>1, Invariance, PTL

\* ReadBody leaves the whole body within the limit, or nothing, and get_body_data
\* returns all that is asked of it.
THEOREM BodiesWhole == Spec => []BodyWhole
<1>1. IInv => BodyWhole
  BY CutsWhole DEF IInv
<1> QED BY <1>1, Invariance, PTL

-----------------------------------------------------------------------------
(* What Response sees of an exchange.                                      *)

Opened == {"queued", "lua", "waiting", "ready"}
Said(x) == [status |-> status[x], headers |-> headers[x], text |-> text[x]]
Lives == [x \in Exchanges |-> Life(x)]
Sayings == [x \in Exchanges |-> Said(x)]
Givens == [x \in Exchanges |-> Given(x)]

\* What Response says of a failure.
Answered(x) ==
  IF via[x] = "direct" THEN P!ErrorPage({})
  ELSE IF ~sent[x] THEN P!ErrorPage(PageHeaders)
  ELSE IF via[x] = "client" THEN P!Whole(Said(x), TRUE)
  ELSE P!Whole(P!WithPage(Said(x)), TRUE)

\* The stages of an exchange in the words of Response.
LEMMA LifeOf ==
  ASSUME TypeOK, NEW x \in Exchanges
  PROVE  /\ stage[x] = "none" => Life(x) = "none"
         /\ stage[x] \in Opened => Life(x) = "open"
         /\ stage[x] = "over" /\ result[x] = "ok" => Life(x) = "ok"
         /\ stage[x] = "over" /\ result[x] # "ok" => Life(x) = "failed"
         /\ stage[x] \in After => Life(x) = "answered"
  BY DEF Life, Opened, After

\* An exchange of which nothing has changed but the place of an open one.
LEMMA SeenAlike ==
  ASSUME NEW y \in Exchanges,
         \/ stage'[y] = stage[y] /\ via'[y] = via[y]
         \/ stage[y] \in Opened /\ stage'[y] \in Opened
         \/ stage[y] = "done" /\ stage'[y] = "returned" /\ via'[y] = via[y],
         status'[y] = status[y], headers'[y] = headers[y], head'[y] = head[y], map'[y] = map[y],
         text'[y] = text[y], page'[y] = page[y], result'[y] = result[y]
  PROVE  Life(y)' = Life(y) /\ Given(y)' = Given(y)
<1>1. Life(y)' = Life(y)
  BY DEF Life, Opened
<1>2. Captured(y)' = Captured(y) \/ (stage[y] \in Opened /\ stage'[y] \in Opened)
  BY DEF Captured, Final
<1>3. Given(y)' = Given(y)
  BY <1>2 DEF Given, OnTheWire, Opened
<1> QED BY <1>1, <1>3

\* Steps that Response does not see.
LEMMA NothingSeen ==
  ASSUME UNCHANGED <<response, captured, via>>,
         \A y \in Exchanges :
            stage'[y] = stage[y] \/ (stage[y] \in Opened /\ stage'[y] \in Opened)
  PROVE  UNCHANGED P!vars
<1>1. \A y \in Exchanges : Life(y)' = Life(y) /\ Given(y)' = Given(y)
  BY SeenAlike DEF response
<1> QED BY <1>1 DEF P!vars, response

LEMMA QuietMaps ==
  ASSUME IInv, NEW x \in Exchanges,
         RunEntryPoint(x) \/ ResumeThread(x) \/ Sleep(x) \/ Wake(x) \/ ReadBody(x)
  PROVE  UNCHANGED P!vars
<1>1. UNCHANGED <<response, captured, via>>
  BY DEF RunEntryPoint, ResumeThread, Sleep, Wake, ReadBody, lua
<1>2. \A y \in Exchanges :
         stage'[y] = stage[y] \/ (stage[y] \in Opened /\ stage'[y] \in Opened)
  BY DEF IInv, TypeOK, Opened, RunEntryPoint, ResumeThread, Sleep, Wake, ReadBody, lua
<1> QED BY <1>1, <1>2, NothingSeen

-----------------------------------------------------------------------------
(* One lemma for each step that Response sees.                             *)

\* A request or subrequest that nobody has seen is opened.
LEMMA OpenMaps ==
  ASSUME IInv, NEW x \in Exchanges, ClientRequest(x)
  PROVE  P!Open(x)
<1>1. \A y \in Exchanges \ {x} : Life(y)' = Life(y) /\ Given(y)' = Given(y)
  BY SeenAlike DEF IInv, TypeOK, ClientRequest, response
<1>2. Life(x) = "none" /\ Life(x)' = "open" /\ Given(x)' = Given(x)
  BY DEF IInv, TypeOK, ClientRequest, Life, Given
<1>3. Lives' = [Lives EXCEPT ![x] = "open"] /\ Givens' = Givens
  BY <1>1, <1>2 DEF Lives, Givens
<1>4. UNCHANGED <<Sayings, sent, captured>>
  BY DEF ClientRequest, response, Sayings, Said
<1>5. \E w \in {"client", "mux", "direct"} : via' = [via EXCEPT ![x] = w]
  BY DEF IInv, TypeOK, ClientRequest
<1> QED BY <1>2, <1>3, <1>4, <1>5 DEF P!Open, Lives, Givens, Sayings, Said

LEMMA CaptureMaps ==
  ASSUME IInv, NEW x \in Exchanges, NEW y \in Exchanges, Capture(x, y)
  PROVE  P!Open(y)
<1>1. \A z \in Exchanges \ {y} : Life(z)' = Life(z) /\ Given(z)' = Given(z)
  BY SeenAlike DEF IInv, TypeOK, Capture, response, Opened
<1>2. Life(y) = "none" /\ Life(y)' = "open" /\ Given(y)' = Given(y)
  BY DEF IInv, TypeOK, Capture, Life, Given
<1>3. Lives' = [Lives EXCEPT ![y] = "open"] /\ Givens' = Givens
  BY <1>1, <1>2 DEF Lives, Givens
<1>4. UNCHANGED <<Sayings, sent, captured>>
  BY DEF Capture, response, Sayings, Said
<1>5. \E w \in {"client", "mux", "direct"} : via' = [via EXCEPT ![y] = w]
  BY DEF Capture
<1> QED BY <1>2, <1>3, <1>4, <1>5 DEF P!Open, Lives, Givens, Sayings, Said

\* Setting the status or the headers.
LEMMA SetHeadMaps ==
  ASSUME IInv, NEW x \in Exchanges,
         \/ \E s \in Statuses : StatusSet(x, s)
         \/ \E H \in SUBSET Headers : HeaderSet(x, H)
  PROVE  P!SetHead(x)
<1>1. /\ stage[x] = "lua" /\ ~sent[x]
      /\ UNCHANGED <<lua, sent, map, head, text, page, result>>
      /\ \A y \in Exchanges \ {x} : status'[y] = status[y] /\ headers'[y] = headers[y]
  BY DEF IInv, TypeOK, StatusSet, HeaderSet
<1>2. /\ status' = [status EXCEPT ![x] = status'[x]] /\ status'[x] \in Statuses \cup {0}
      /\ headers' = [headers EXCEPT ![x] = headers'[x]] /\ headers'[x] \in SUBSET Headers
  BY DEF IInv, TypeOK, StatusSet, HeaderSet
<1>3. \A y \in Exchanges \ {x} : Life(y)' = Life(y) /\ Given(y)' = Given(y)
  BY <1>1, SeenAlike DEF lua
<1>4. Life(x) = "open" /\ Life(x)' = "open" /\ Given(x)' = Given(x)
  BY <1>1 DEF Life, Given, lua
<1>5. UNCHANGED <<Lives, Givens, via, sent, captured>>
  BY <1>1, <1>3, <1>4 DEF Lives, Givens, lua
<1>6. PICK s \in Statuses \cup {0}, H \in SUBSET Headers : s = status'[x] /\ H = headers'[x]
  BY <1>2
<1>7. Said(x)' = [status |-> s, headers |-> H, text |-> text[x]]
  BY <1>1, <1>6 DEF Said
<1>8. \A y \in Exchanges \ {x} : Said(y)' = Said(y)
  BY <1>1 DEF Said
<1>9. Sayings' = [Sayings EXCEPT ![x].status = s, ![x].headers = H]
  BY <1>7, <1>8 DEF Sayings, Said
<1> QED BY <1>1, <1>4, <1>5, <1>9 DEF P!SetHead, Lives, Givens, Sayings, Said

\* Output, whether the writer takes it or not.
LEMMA SayMaps ==
  ASSUME IInv, NEW x \in Exchanges, Output(x) \/ OutputFails(x)
  PROVE  P!Say(x)
<1>1. stage[x] = "lua" /\ UNCHANGED <<lua, status, headers, page, result>>
  BY DEF Output, OutputFails
<1>2. \A y \in Exchanges \ {x} : head'[y] = head[y] /\ map'[y] = map[y] /\ text'[y] = text[y]
  BY DEF IInv, TypeOK, Output, OutputFails, Flushing, FlushHeaders, WriteHeader
<1>3. \A y \in Exchanges \ {x} : Life(y)' = Life(y) /\ Given(y)' = Given(y)
  BY <1>1, <1>2, SeenAlike DEF lua
<1>4. Life(x) = "open" /\ Life(x)' = "open" /\ Given(x)' = Given(x)
  BY <1>1 DEF Life, Given, lua
<1>5. UNCHANGED <<Lives, Givens, via, captured>>
  BY <1>1, <1>3, <1>4 DEF Lives, Givens, lua
<1>6. CASE Output(x)
  <2>1. text' = [text EXCEPT ![x] = @ + 1] /\ sent' \in {sent, [sent EXCEPT ![x] = TRUE]}
    BY <1>6 DEF Output, Flushing, FlushHeaders
  <2>2. \A y \in Exchanges : Said(y)' = IF y = x THEN [Said(y) EXCEPT !.text = @ + 1]
                                         ELSE Said(y)
    BY <1>1, <2>1 DEF Said, IInv, TypeOK
  <2>3. Sayings' = [Sayings EXCEPT ![x].text = @ + 1]
    BY <2>2 DEF Sayings, Said
  <2> QED BY <1>4, <1>5, <2>1, <2>3 DEF P!Say, Lives, Givens, Sayings, Said
<1>7. CASE OutputFails(x)
  <2>1. UNCHANGED Sayings /\ sent' = [sent EXCEPT ![x] = TRUE]
    BY <1>7 DEF OutputFails, Flushing, FlushHeaders, Sayings, Said
  <2> QED BY <1>4, <1>5, <2>1 DEF P!Say, Lives, Givens, Sayings, Said
<1> QED BY <1>6, <1>7

\* The thread ends: by itself, with exit or with an error.
LEMMA EndMaps ==
  ASSUME IInv, NEW x \in Exchanges,
         (\E s \in Statuses \cup {0} : Exit(x, s)) \/ Finish(x) \/ Fail(x)
  PROVE  P!End(x)
<1>1. PICK r \in {"ok", "error"} :
        /\ stage[x] = "lua" /\ Over(x, r)
        /\ \/ status' = status
           \/ /\ r = "ok" /\ ~sent[x]
              /\ \E s \in Statuses : status' = [status EXCEPT ![x] = s]
  BY DEF IInv, TypeOK, Exit, Finish, Fail
<1>2. /\ UNCHANGED <<via, caller, captured, headers, sent, map, head, text, page>>
      /\ stage' = [stage EXCEPT ![x] = "over"] /\ result' = [result EXCEPT ![x] = r]
  BY <1>1 DEF Over
<1>3. \A y \in Exchanges \ {x} : status'[y] = status[y]
  BY <1>1 DEF IInv, TypeOK
<1>4. \A y \in Exchanges \ {x} : Life(y)' = Life(y) /\ Given(y)' = Given(y)
  BY <1>2, <1>3, SeenAlike DEF IInv, TypeOK
<1>5. /\ Life(x) = "open" /\ Given(x)' = Given(x)
      /\ Life(x)' = IF r = "ok" THEN "ok" ELSE "failed"
  BY <1>1, <1>2 DEF Life, Given, IInv, TypeOK
<1>6. /\ Lives' = [Lives EXCEPT ![x] = IF r = "ok" THEN "ok" ELSE "failed"]
      /\ UNCHANGED <<Givens, via, sent, captured>>
  BY <1>2, <1>4, <1>5 DEF Lives, Givens
<1>7. CASE status' = status
  <2>1. UNCHANGED Sayings
    BY <1>2, <1>7 DEF Sayings, Said
  <2> QED BY <1>5, <1>6, <2>1 DEF P!End, Lives, Givens, Sayings, Said
<1>8. ASSUME NEW s \in Statuses, r = "ok", ~sent[x], status' = [status EXCEPT ![x] = s]
      PROVE  P!End(x)
  <2>1. \A y \in Exchanges : Said(y)' = IF y = x THEN [Said(y) EXCEPT !.status = s]
                                         ELSE Said(y)
    BY <1>2, <1>8 DEF Said, IInv, TypeOK
  <2>2. Sayings' = [Sayings EXCEPT ![x].status = s]
    BY <2>1 DEF Sayings, Said
  <2> QED BY <1>5, <1>6, <1>8, <2>2 DEF P!End, Lives, Givens, Sayings, Said
<1> QED BY <1>1, <1>7, <1>8

\* What the receiver gets is what the code said, or an error page.
LEMMA AnswerGiven ==
  ASSUME IInv, NEW x \in Exchanges, Answer(x)
  PROVE  /\ result[x] = "ok" => Given(x)' = P!Whole(Said(x), FALSE)
         /\ result[x] # "ok" => Given(x)' = Answered(x)
<1> DEFINE h == [status |-> Final(x), headers |-> headers[x]]
           e == [status |-> 500, headers |-> PageHeaders]
<1>1. /\ UNCHANGED <<via, caller, captured, status, headers, text, result>>
      /\ stage[x] = "over" /\ stage'[x] = "done" /\ Final(x)' = Final(x)
      /\ via[x] \in {"client", "mux", "direct"}
  BY DEF Answer, Final, IInv, TypeOK
<1>2. Honest(x) /\ ~page[x] /\ (via[x] # "direct" /\ ~sent[x] => text[x] = 0)
      /\ map[x] = Flushed(x)
  BY <1>1, HonestEach DEF IInv, Writers, After, Maps
<1>3. result[x] \in {"ok", "error"}
  BY <1>1 DEF IInv, TypeOK, Progress, Before
<1>4. h # None /\ e # None
  BY HeadType DEF IInv
<1>5. CASE via[x] = "direct"
  <2>1. Given(x)' = Captured(x)'
    BY <1>1, <1>5 DEF Given
  <2>2. result[x] = "error" => Given(x)' = Answered(x)
    BY <1>1, <1>5, <2>1 DEF Captured, Answered, P!ErrorPage
  <2>3. result[x] = "ok" => Given(x)' = P!Whole(Said(x), FALSE)
    BY <1>1, <1>5, <2>1 DEF Captured, P!Whole, Said, Final
  <2> QED BY <1>3, <2>2, <2>3
<1>6. CASE via[x] # "direct" /\ result[x] = "error"
  <2>1. head'[x] = IF sent[x] THEN h ELSE e
    <3>1. CASE sent[x]
      BY <1>2, <1>4, <1>6, <3>1 DEF Answer, HttpError, WriteHeader, Honest, IInv, TypeOK
    <3>2. CASE ~sent[x]
      <4>1. head[x] = None
        BY <1>2, <3>2 DEF Honest
      <4>2. WithPage(map[x]) = PageHeaders
        BY <1>2, <3>2 DEF Flushed, WithPage
      <4> QED BY <1>6, <3>2, <4>1, <4>2 DEF Answer, HttpError, WriteHeader, IInv, TypeOK
    <3> QED BY <3>1, <3>2
  <2>2. page'[x] = TRUE /\ map'[x] = WithPage(Flushed(x))
    BY <1>2, <1>6 DEF Answer, HttpError, WriteHeader, IInv, TypeOK
  <2>3. Given(x)' = [status |-> head'[x].status,
                     headers |-> IF via[x] = "mux" THEN map'[x] ELSE head'[x].headers,
                     text |-> text[x], page |-> TRUE]
    BY <1>1, <1>6, <2>2 DEF Given, OnTheWire, Captured
  <2>4. CASE sent[x]
    <3>1. head'[x].status = Final(x) /\ head'[x].headers = headers[x]
          /\ map'[x] = WithPage(headers[x])
      BY <2>1, <2>2, <2>4 DEF Flushed
    <3>2. CASE via[x] = "client"
      <4>1. Given(x)' = [status |-> Final(x), headers |-> headers[x], text |-> text[x], page |-> TRUE]
        BY <2>3, <3>1, <3>2
      <4> QED BY <1>6, <2>4, <3>2, <4>1 DEF Answered, P!Whole, Said, Final
    <3>3. CASE via[x] = "mux"
      <4>1. Given(x)' = [status |-> Final(x), headers |-> WithPage(headers[x]), text |-> text[x],
                         page |-> TRUE]
        BY <2>3, <3>1, <3>3
      <4> QED BY <1>6, <2>4, <3>3, <4>1 DEF Answered, P!Whole, P!WithPage, WithPage, Said, Final
    <3> QED BY <1>1, <1>6, <3>2, <3>3
  <2>5. CASE ~sent[x]
    <3>1. /\ head'[x].status = 500 /\ head'[x].headers = PageHeaders /\ text[x] = 0
          /\ map'[x] = PageHeaders
      BY <1>2, <1>6, <2>1, <2>2, <2>5 DEF Flushed, WithPage
    <3>2. Given(x)' = P!ErrorPage(PageHeaders)
      BY <2>3, <3>1 DEF P!ErrorPage
    <3> QED BY <1>6, <2>5, <3>2 DEF Answered
  <2> QED BY <1>6, <2>4, <2>5
<1>7. CASE via[x] # "direct" /\ result[x] # "error"
  <2>1. head'[x] = h /\ map'[x] = headers[x]
    <3>1. CASE sent[x]
      BY <1>2, <1>7, <3>1 DEF Answer, FlushHeaders, Honest, Flushed
    <3>2. CASE ~sent[x]
      <4>1. head[x] = None
        BY <1>2, <3>2 DEF Honest
      <4>2. map[x] \cup headers[x] = headers[x]
        BY <1>2, <3>2 DEF Flushed
      <4>3. PICK H : H = map[x] \cup headers[x]
        OBVIOUS
      <4>4. PICK f : f = Final(x)
        OBVIOUS
      <4>5. WriteHeader(x, f, H)
        BY <1>7, <3>2, <4>3, <4>4 DEF Answer, FlushHeaders
      <4>6. head'[x] = [status |-> f, headers |-> H] /\ map'[x] = H
        BY <4>1, <4>5 DEF WriteHeader, IInv, TypeOK
      <4> QED BY <4>2, <4>3, <4>4, <4>6
    <3> QED BY <3>1, <3>2
  <2>2. page'[x] = FALSE
    BY <1>2, <1>7 DEF Answer, IInv, TypeOK
  <2>3. Given(x)' = [status |-> Final(x), headers |-> headers[x], text |-> text[x], page |-> FALSE]
    <3>1. head'[x].status = Final(x) /\ head'[x].headers = headers[x]
      BY <2>1
    <3>2. CASE via[x] = "client"
      BY <1>1, <2>2, <3>1, <3>2 DEF Given, OnTheWire
    <3>3. CASE via[x] = "mux"
      BY <1>1, <2>1, <2>2, <3>1, <3>3 DEF Given, Captured
    <3> QED BY <1>1, <1>7, <3>2, <3>3
  <2> QED BY <1>3, <1>7, <2>3 DEF P!Whole, Said, Final
<1> QED BY <1>5, <1>6, <1>7

\* P!Failure in the words of an exchange.
LEMMA FailureIs ==
  ASSUME TypeOK, NEW x \in Exchanges
  PROVE  P!Failure(x) = Answered(x)
BY DEF TypeOK, P!Failure, Answered, Said

\* The handler, or the goroutine of a capture, completes the answer.
LEMMA AnswerMaps ==
  ASSUME IInv, NEW x \in Exchanges, Answer(x)
  PROVE  P!Answer(x)
<1>1. /\ UNCHANGED <<via, captured, status, headers, text, result>>
      /\ stage[x] = "over" /\ stage' = [stage EXCEPT ![x] = "done"]
  BY DEF Answer
<1>2. \A y \in Exchanges \ {x} : head'[y] = head[y] /\ map'[y] = map[y] /\ page'[y] = page[y]
  BY DEF Answer, FlushHeaders, HttpError, WriteHeader, IInv, TypeOK
<1>3. \A y \in Exchanges \ {x} : Life(y)' = Life(y) /\ Given(y)' = Given(y)
  BY <1>1, <1>2, SeenAlike DEF IInv, TypeOK
<1>4. /\ Life(x)' = "answered"
      /\ Life(x) = IF result[x] = "ok" THEN "ok" ELSE "failed"
  BY <1>1 DEF Life, IInv, TypeOK
<1>5. /\ Lives' = [Lives EXCEPT ![x] = "answered"]
      /\ Givens' = [Givens EXCEPT ![x] = Given(x)']
      /\ UNCHANGED <<Sayings, via, captured>>
  BY <1>1, <1>3, <1>4 DEF Lives, Givens, Sayings, Said
<1>6. /\ sent' \in {sent, [sent EXCEPT ![x] = TRUE]}
      /\ result[x] # "ok" => sent' = sent
  <2>1. result[x] \in {"ok", "error"}
    BY <1>1 DEF IInv, TypeOK, Progress, Before
  <2> QED BY <2>1 DEF Answer, FlushHeaders
<1>7. CASE result[x] = "ok"
  <2>1. Given(x)' = P!Whole(Said(x), FALSE)
    BY <1>7, AnswerGiven
  <2> QED BY <1>4, <1>5, <1>6, <1>7, <2>1 DEF P!Answer, Lives, Givens, Sayings, Said
<1>8. CASE result[x] # "ok"
  <2>1. Given(x)' = P!Failure(x)
    BY <1>8, AnswerGiven, FailureIs DEF IInv
  <2> QED BY <1>4, <1>5, <1>6, <1>8, <2>1 DEF P!Answer, Lives, Givens, Sayings, Said
<1> QED BY <1>7, <1>8

\* The capturing thread gets the answer.
LEMMA TellMaps ==
  ASSUME IInv, NEW y \in Exchanges, CaptureReturns(y)
  PROVE  \E x \in Exchanges : P!Tell(x, y)
<1>1. PICK x \in Exchanges : x = caller[y] /\ stage[x] = "waiting"
  BY CaptureReturnsKeeps
<1>2. /\ stage[y] = "done" /\ stage' = [stage EXCEPT ![y] = "returned", ![x] = "ready"]
      /\ captured' = [captured EXCEPT ![x] = Captured(y)]
      /\ UNCHANGED <<via, response>>
  BY <1>1 DEF CaptureReturns
<1>3. /\ stage'[y] = "returned" /\ stage'[x] = "ready"
      /\ \A z \in Exchanges \ {x, y} : stage'[z] = stage[z]
  BY <1>1, <1>2 DEF IInv, TypeOK
<1>4. \A z \in Exchanges : Life(z)' = Life(z) /\ Given(z)' = Given(z)
  BY <1>1, <1>2, <1>3, SeenAlike DEF response, Opened
<1>5. Life(x) = "open" /\ Life(y) = "answered" /\ Given(y) = Captured(y)
  BY <1>1, <1>2 DEF Life, Given, CaptureReturns
<1>6. UNCHANGED <<Lives, Givens, Sayings, via, sent>>
  BY <1>2, <1>4 DEF Lives, Givens, Sayings, Said, response
<1> QED BY <1>2, <1>5, <1>6 DEF P!Tell, Lives, Givens, Sayings, Said

LEMMA InitMaps == Init => P!Init
  BY DEF Init, P!Init, Life, Given

\* Every step is a step of Response or changes nothing there.
LEMMA NextMaps ==
  ASSUME IInv, [Next]_vars
  PROVE  [P!Next]_(P!vars)
<1>1. CASE UNCHANGED vars
  BY <1>1, NothingSeen DEF vars, lua, response
<1>2. CASE Next
  <2>1. PICK x \in Exchanges :
          \/ ClientRequest(x) \/ RunEntryPoint(x) \/ ResumeThread(x)
          \/ LuaStep(x) \/ Wake(x) \/ Answer(x) \/ CaptureReturns(x)
    BY <1>2 DEF Next
  <2>2. CASE LuaStep(x)
    BY <2>2, QuietMaps, CaptureMaps, SetHeadMaps, SayMaps, EndMaps DEF LuaStep, P!Next
  <2> QED BY <2>1, <2>2, QuietMaps, OpenMaps, AnswerMaps, TellMaps DEF P!Next
<1> QED BY <1>1, <1>2

\* Clients and capturing threads get the response that the code made: the
\* last status and headers before the first output, every output once; or,
\* if it failed, an error page, which a client finds behind the head that
\* was sent, and a capture through the mux with the headers of the page
\* mixed into those that the code had set.
THEOREM PromiseKept == Spec => KeepsPromise
<1>1. Init => P!Init
  BY InitMaps
<1>2. IInv /\ [Next]_vars => [P!Next]_(P!vars)
  BY NextMaps
<1> QED BY <1>1, <1>2, Invariance, PTL DEF Spec, KeepsPromise, P!Spec
=============================================================================
