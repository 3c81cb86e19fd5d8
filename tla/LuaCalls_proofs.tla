-------------------------- MODULE LuaCalls_proofs --------------------------
(***************************************************************************)
(* Proofs about LuaCalls, for all inputs with the types that the code      *)
(* gives them, and any server that does not redirect for ever:             *)
(* http.request keeps its promises, the C interpreter does with a batch    *)
(* what the operations mean, unescape_uri undoes escape_uri, the limit of  *)
(* get_headers cuts and reports what it should, the tables of arguments    *)
(* and of a captured response are those that were meant, and say, print    *)
(* and send write all of what they are given or nothing.  All are proved   *)
(* by induction, in the form of sets of numbers: along the answers of the  *)
(* server, the bytes of a number, the operations of a batch, the parts of  *)
(* a text, the headers and keys of a map, and the levels of tables.        *)
(***************************************************************************)
EXTENDS LuaCalls, TLAPS, WellFoundedInduction, SequenceTheorems, FiniteSetTheorems

-----------------------------------------------------------------------------
(* Numbers, and recursion over them.                                       *)

\* a non-empty set of natural numbers has a least one
LEMMA LeastNumber ==
  ASSUME NEW T, T \subseteq Nat, T # {}
  PROVE  \E x \in T : \A y \in T : x <= y
<1> DEFINE R == OpToRel(<, Nat)
<1>1. IsWellFoundedOn(R, Nat)
  BY NatLessThanWellFounded
<1>2. PICK x \in T : \A y \in T : ~ (<<y, x>> \in R)
  BY <1>1, WFMin
<1>3. \A y \in T : y < x => <<y, x>> \in R
  <2> SUFFICES ASSUME NEW y \in T, y < x PROVE <<y, x>> \in R
    OBVIOUS
  <2>1. <<y, x>> \in Nat \X Nat /\ <<y, x>>[1] < <<y, x>>[2]
    OBVIOUS
  <2> QED BY <2>1 DEF OpToRel
<1> HIDE DEF R
<1>4. \A y \in T : ~(y < x)
  BY <1>2, <1>3
<1> QED BY <1>4

\* Induction along a sequence: S is the set of the numbers for which it holds.
LEMMA UpTo ==
  ASSUME NEW N \in Nat, NEW S, 0 \in S,
         \A n \in 1..N : n - 1 \in S => n \in S
  PROVE  \A n \in 0..N : n \in S
<1> DEFINE T == {n \in 0..N : n \notin S}
<1> SUFFICES ASSUME T # {} PROVE FALSE
  OBVIOUS
<1>1. PICK n \in T : \A m \in T : n <= m
  <2>1. T \subseteq Nat
    OBVIOUS
  <2> HIDE DEF T
  <2> QED BY <2>1, LeastNumber
<1>2. n \in 1..N /\ n - 1 \notin T
  BY <1>1
<1> QED BY <1>1, <1>2

\* f solves a recursion over the numbers up to n.
Solves(f, n, D, base, step) ==
  /\ f \in [0..n -> D] /\ f[0] = base
  /\ \A m \in 1..n : f[m] = step[m][f[m - 1]]

\* a recursion over the numbers up to N has a solution
LEMMA StepsSolve ==
  ASSUME NEW N \in Nat, NEW D, NEW base \in D, NEW step \in [1..N -> [D -> D]]
  PROVE  \E f : Solves(f, N, D, base, step)
<1> DEFINE S == {n \in 0..N : \E f : Solves(f, n, D, base, step)}
<1>1. 0 \in S
  <2>1. Solves([m \in 0..0 |-> base], 0, D, base, step)
    BY DEF Solves
  <2> QED BY <2>1
<1>2. \A n \in 1..N : n - 1 \in S => n \in S
  <2> SUFFICES ASSUME NEW n \in 1..N, n - 1 \in S PROVE \E f : Solves(f, n, D, base, step)
    OBVIOUS
  <2>1. PICK f : Solves(f, n - 1, D, base, step)
    OBVIOUS
  <2> DEFINE g == [m \in 0..n |-> IF m = n THEN step[n][f[n - 1]] ELSE f[m]]
  <2>2. f \in [0..n - 1 -> D] /\ f[n - 1] \in D /\ step[n][f[n - 1]] \in D
    BY <2>1 DEF Solves
  <2>3. g \in [0..n -> D] /\ g[0] = base
    BY <2>1, <2>2 DEF Solves
  <2>4. \A m \in 1..n : g[m] = step[m][g[m - 1]]
    <3> SUFFICES ASSUME NEW m \in 1..n PROVE g[m] = step[m][g[m - 1]]
      OBVIOUS
    <3>1. g[m - 1] = f[m - 1]
      OBVIOUS
    <3>2. CASE m = n
      <4>1. g[m] = step[n][f[n - 1]]
        BY <3>2
      <4> QED BY <3>1, <3>2, <4>1
    <3>3. CASE m # n
      BY <2>1, <3>1, <3>3 DEF Solves
    <3> QED BY <3>2, <3>3
  <2>5. Solves(g, n, D, base, step)
    BY <2>3, <2>4 DEF Solves
  <2> QED BY <2>5
<1>3. N \in S
  <2>1. N \in 0..N
    OBVIOUS
  <2> HIDE DEF S
  <2> QED BY <1>1, <1>2, <2>1, UpTo
<1> QED BY <1>3

-----------------------------------------------------------------------------
(* The redirects a request follows.                                        *)

\* What the answers 1..n of a server lead to; the k-th is the first that is not
\* a redirect.
Exchanged(go, answers, k, n, acc) ==
  \/ /\ acc = [asked |-> n, outcome |-> "going"]
     /\ n < k /\ (n > 0 => go.redirect /\ n <= go.maxredirects)
  \/ acc = [asked |-> 1, outcome |-> "redirect"] /\ ~go.redirect /\ k > 1
  \/ /\ \/ acc = [asked |-> k, outcome |-> "final"] /\ answers[k] = "final"
        \/ acc = [asked |-> k, outcome |-> "error"] /\ answers[k] = "fails"
     /\ k > 1 => go.redirect /\ k - 1 <= go.maxredirects
  \/ /\ \E m \in 1..k - 1 : /\ acc = [asked |-> m, outcome |-> "error"]
                            /\ m > go.maxredirects /\ (m = 1 \/ m - 1 <= go.maxredirects)
     /\ go.redirect

Answers == Seq({"redirect", "final", "fails"})

\* client.Do stops at the first answer that is not a redirect, or at the first
\* redirect too many.
LEMMA DoAnswers ==
  ASSUME NEW go, go.redirect \in BOOLEAN, go.maxredirects \in Int,
         NEW server, server.answers \in Answers,
         NEW k \in 1..Len(server.answers), server.answers[k] # "redirect",
         \A i \in 1..k - 1 : server.answers[i] = "redirect"
  PROVE  Exchanged(go, server.answers, k, Len(server.answers), Do(go, server))
<1> DEFINE N == Len(server.answers)
           D == [asked : Nat, outcome : {"going", "final", "error", "redirect"}]
           none == [asked |-> 0, outcome |-> "going"]
           R(f) == f = [n \in 0..N |-> IF n = 0 THEN none
                                       ELSE Exchange(go, f[n - 1], server.answers[n])]
<1>1. N \in Nat /\ N > 0 /\ \A n \in 1..N : server.answers[n] \in {"redirect", "final", "fails"}
  BY DEF Answers
<1>2. \A acc \in D, n \in 1..N : Exchange(go, acc, server.answers[n]) \in D
  BY <1>1 DEF Exchange
<1>3. \E f : R(f)
  <2> DEFINE step == [n \in 1..N |-> [acc \in D |-> Exchange(go, acc, server.answers[n])]]
  <2>1. step \in [1..N -> [D -> D]] /\ none \in D /\ N \in Nat
    BY <1>1, <1>2
  <2>2. PICK f : Solves(f, N, D, none, step)
    <3> HIDE DEF step, D, none, N
    <3> QED BY <2>1, StepsSolve
  <2>3. f \in [0..N -> D] /\ f[0] = none
        /\ \A n \in 1..N : f[n] = Exchange(go, f[n - 1], server.answers[n])
    <3>1. \A n \in 1..N : f[n] = step[n][f[n - 1]]
      BY <2>2 DEF Solves
    <3>2. f \in [0..N -> D] /\ f[0] = none
      BY <2>2 DEF Solves
    <3>3. \A n \in 1..N : f[n - 1] \in D
      BY <1>1, <3>2
    <3> QED BY <3>1, <3>2, <3>3
  <2>4. R(f)
    BY <2>3
  <2> HIDE DEF R
  <2> QED BY <2>4
<1>4. PICK f : R(f) /\ Do(go, server) = f[N]
  <2> DEFINE g == CHOOSE f : R(f)
  <2>1. Do(go, server) = g[N]
    BY DEF Do
  <2>2. R(g)
    <3> HIDE DEF R
    <3> QED BY <1>3
  <2> HIDE DEF g, R
  <2> QED BY <2>1, <2>2
<1> DEFINE S == {n \in 0..N : Exchanged(go, server.answers, k, n, f[n])}
<1>5. 0 \in S
  BY <1>1, <1>4 DEF Exchanged
<1>6. \A n \in 1..N : n - 1 \in S => n \in S
  <2> SUFFICES ASSUME NEW n \in 1..N, Exchanged(go, server.answers, k, n - 1, f[n - 1])
               PROVE  Exchanged(go, server.answers, k, n, f[n])
    OBVIOUS
  <2>1. f[n] = Exchange(go, f[n - 1], server.answers[n])
    BY <1>1, <1>4
  <2>2. PICK acc : acc = f[n - 1]
    OBVIOUS
  <2>3. Exchanged(go, server.answers, k, n - 1, acc)
    BY <2>2, Zenon
  <2>4. acc = [asked |-> n - 1, outcome |-> "going"] \/ acc.outcome # "going"
    BY <2>3 DEF Exchanged
  <2>5. CASE acc.outcome # "going"
    <3>1. f[n] = acc
      BY <2>1, <2>2, <2>5 DEF Exchange
    <3>2. acc # [asked |-> n - 1, outcome |-> "going"]
      BY <2>5
    <3> QED BY <2>2, <3>1, <3>2 DEF Exchanged
  <2>6. CASE acc = [asked |-> n - 1, outcome |-> "going"]
    <3>1. n - 1 < k /\ (n - 1 > 0 => go.redirect /\ n - 1 <= go.maxredirects)
      <4>1. acc.outcome = "going"
        BY <2>6
      <4> QED BY <2>3, <4>1 DEF Exchanged
    <3>2. f[n] = [asked |-> n, outcome |->
                    IF server.answers[n] = "final" THEN "final"
                    ELSE IF server.answers[n] = "fails" \/ (go.redirect /\ n > go.maxredirects) THEN "error"
                    ELSE IF go.redirect THEN "going" ELSE "redirect"]
      BY <2>1, <2>2, <2>6 DEF Exchange, TooMany
    <3>3. CASE n = k
      BY <1>1, <3>1, <3>2, <3>3 DEF Exchanged
    <3>4. CASE n < k
      <4>1. server.answers[n] = "redirect"
        BY <3>4
      <4> QED BY <3>1, <3>2, <3>4, <4>1 DEF Exchanged
    <3> QED BY <1>1, <3>1, <3>3, <3>4
  <2> QED BY <2>4, <2>5, <2>6
<1>7. N \in S
  <2>1. N \in Nat /\ N \in 0..N
    BY <1>1
  <2> HIDE DEF S, R, N
  <2> QED BY <1>5, <1>6, <2>1, UpTo
<1> QED BY <1>4, <1>7

\* Redirects counts the redirects before another answer.
LEMMA RedirectsAre ==
  ASSUME NEW server, server.answers \in Answers,
         \E i \in DOMAIN server.answers : server.answers[i] # "redirect"
  PROVE  \E k \in 1..Len(server.answers) :
           /\ server.answers[k] # "redirect" /\ \A i \in 1..k - 1 : server.answers[i] = "redirect"
           /\ Redirects(server) = k - 1
<1> DEFINE Others == {i \in 1..Len(server.answers) : server.answers[i] # "redirect"}
<1>1. Others \subseteq Nat /\ Others # {}
  BY DEF Answers
<1>2. \E k \in Others : \A j \in Others : k <= j
  <2> HIDE DEF Others
  <2> QED BY <1>1, LeastNumber
<1>3. PICK k \in Others : (\A j \in Others : k <= j) /\ Min(Others) = k
  <2>1. Min(Others) \in Others /\ \A j \in Others : Min(Others) <= j
    <3> HIDE DEF Others
    <3> QED BY <1>2 DEF Min
  <2> QED BY <2>1
<1>4. Redirects(server) = k - 1
  BY <1>1, <1>3, Zenon DEF Redirects, SelectInSeq
<1>5. Len(server.answers) \in Nat
  BY DEF Answers
<1>6. \A i \in 1..k - 1 : server.answers[i] = "redirect"
  BY <1>3, <1>5
<1> QED BY <1>3, <1>4, <1>6

\* The same, for all answers.
Settled(go, answers, k, acc) ==
  /\ acc.asked \in 1..k
  /\ acc.outcome \in {"final", "error", "redirect"}
  /\ acc.outcome # "error" <=>
       IF ~go.redirect THEN answers[1] # "fails"
       ELSE (k = 1 \/ k - 1 <= go.maxredirects) /\ answers[k] = "final"
  /\ acc.outcome = "redirect" <=> ~go.redirect /\ k > 1
  /\ acc.asked <= go.maxredirects + 1 \/ acc.asked = 1

LEMMA ExchangesSettle ==
  ASSUME NEW go, go.redirect \in BOOLEAN, go.maxredirects \in Int,
         NEW answers, NEW k \in Nat, k > 0, NEW n \in Nat, n >= k,
         answers[k] \in {"final", "fails"}, k > 1 => answers[1] = "redirect",
         NEW acc, Exchanged(go, answers, k, n, acc)
  PROVE  Settled(go, answers, k, acc)
<1>1. CASE acc = [asked |-> 1, outcome |-> "redirect"] /\ ~go.redirect /\ k > 1
  BY <1>1 DEF Settled
<1>2. CASE acc = [asked |-> k, outcome |-> "final"] /\ answers[k] = "final"
           /\ (k > 1 => go.redirect /\ k - 1 <= go.maxredirects)
  BY <1>2 DEF Settled
<1>3. CASE acc = [asked |-> k, outcome |-> "error"] /\ answers[k] = "fails"
           /\ (k > 1 => go.redirect /\ k - 1 <= go.maxredirects)
  BY <1>3 DEF Settled
<1>4. CASE \E m \in 1..k - 1 : /\ acc = [asked |-> m, outcome |-> "error"]
                               /\ m > go.maxredirects /\ (m = 1 \/ m - 1 <= go.maxredirects)
                               /\ go.redirect
  <2>1. PICK m \in 1..k - 1 : /\ acc = [asked |-> m, outcome |-> "error"]
                              /\ m > go.maxredirects /\ (m = 1 \/ m - 1 <= go.maxredirects)
                              /\ go.redirect
    BY <1>4
  <2> QED BY <2>1 DEF Settled
<1> QED BY <1>1, <1>2, <1>3, <1>4 DEF Exchanged

-----------------------------------------------------------------------------
(* ClientHonest.                                                           *)

\* What ClientHonest says of an answer.
Honest(reqt, server, a) ==
  LET sourced == reqt.source # Unset
      good    == (sourced => reqt.source.end = "nil") /\ reqt.url = "valid"
      passes  == reqt.sink \in {Unset, "accepts", "silent"}
  IN  /\ a.ok <=> good /\ Answered(reqt, server) /\ passes
      /\ a.ok => /\ a.first = IF reqt.sink = Unset THEN "body" ELSE "1"
                 /\ a.status = "redirect" <=> reqt.redirect = FALSE /\ Redirects(server) > 0
      /\ a.asked > 0 <=> good
      /\ a.asked > 0 /\ sourced =>
           /\ a.sent.body = FlattenSeq(reqt.source.chunks)
           /\ a.sent.length = IF reqt.length = Unset THEN Len(a.sent.body) ELSE reqt.length
      /\ a.asked <= Redirects(server) + 1
      /\ a.asked <= Limit(reqt) + 1 \/ a.asked <= 1
      /\ a.calls # <<>> => Answered(reqt, server) /\ IsPrefix(a.calls, <<"data", "end">>)
      /\ a.ok /\ reqt.sink # Unset => a.calls = <<"data", "end">>

LEMMA RequestIsHonest ==
  ASSUME NEW reqt, NEW server, NEW f \in Fetches, reqt = f.reqt, server = f.server
  PROVE  Honest(reqt, server, HttpRequest(reqt, server))
<1>1. PICK k \in 1..Len(server.answers) :
        /\ server.answers[k] # "redirect" /\ \A i \in 1..k - 1 : server.answers[i] = "redirect"
        /\ Redirects(server) = k - 1
  BY FetchesAssumption, RedirectsAre DEF Answers
<1>2. /\ server.answers \in Answers /\ k \in Nat /\ k > 0
      /\ Len(server.answers) \in Nat /\ k <= Len(server.answers)
      /\ server.answers[k] \in {"final", "fails"}
      /\ k > 1 => server.answers[1] = "redirect"
  BY <1>1, FetchesAssumption DEF Answers
<1>3. PICK go : go = GoRequest(reqt)
  OBVIOUS
<1>4. /\ go.redirect \in BOOLEAN
      /\ go.redirect <=> (reqt.redirect # FALSE)
      /\ go.maxredirects \in Int /\ go.maxredirects = Limit(reqt)
      /\ reqt.source # Unset /\ reqt.source.end = "nil" =>
           /\ go.body = FlattenSeq(reqt.source.chunks)
           /\ go.length = IF reqt.length = Unset THEN Len(go.body) ELSE reqt.length
  <2>1. PICK no : no = (reqt.redirect # FALSE)
    OBVIOUS
  <2>2. go.redirect = no /\ no \in BOOLEAN
    BY <1>3, <2>1, Zenon DEF GoRequest
  <2>3. go.maxredirects \in Int /\ go.maxredirects = Limit(reqt)
    BY <1>3, FetchesAssumption DEF GoRequest, Limit
  <2>4. reqt.source # Unset /\ reqt.source.end = "nil" =>
          /\ go.body = FlattenSeq(reqt.source.chunks)
          /\ go.length = IF reqt.length = Unset THEN Len(go.body) ELSE reqt.length
    BY <1>3 DEF GoRequest, Pump, LengthHeader
  <2> QED BY <2>1, <2>2, <2>3, <2>4
<1>5. PICK done : done = Do(go, server)
  OBVIOUS
<1>6. Settled(go, server.answers, k, done)
  <2>1. Exchanged(go, server.answers, k, Len(server.answers), done)
    BY <1>1, <1>2, <1>4, <1>5, DoAnswers
  <2>2. PICK answers, n : answers = server.answers /\ n = Len(answers)
    OBVIOUS
  <2> QED BY <1>2, <1>4, <2>1, <2>2, ExchangesSettle
<1>7. Answered(reqt, server) <=> server.readable /\ done.outcome # "error"
  <2>1. Redirects(server) = k - 1 /\ Redirects(server) + 1 = k
    BY <1>1, <1>2
  <2>2. CASE reqt.redirect = FALSE
    <3>1. ~go.redirect
      BY <1>4, <2>2
    <3>2. done.outcome # "error" <=> server.answers[1] # "fails"
      BY <1>6, <3>1 DEF Settled
    <3> QED BY <2>2, <3>2 DEF Answered
  <2>3. CASE reqt.redirect # FALSE
    <3>1. go.redirect
      BY <1>4, <2>3
    <3>2. done.outcome # "error" <=>
            (k = 1 \/ k - 1 <= Limit(reqt)) /\ server.answers[k] = "final"
      BY <1>4, <1>6, <3>1 DEF Settled
    <3>3. k = 1 <=> k - 1 = 0
      BY <1>2
    <3> QED BY <2>1, <2>3, <3>2, <3>3 DEF Answered
  <2> QED BY <2>2, <2>3
<1>8. /\ done.asked \in Nat /\ done.asked > 0 /\ done.asked <= Redirects(server) + 1
      /\ done.asked <= Limit(reqt) + 1 \/ done.asked <= 1
      /\ done.outcome = "redirect" <=> reqt.redirect = FALSE /\ Redirects(server) > 0
  <2>1. /\ done.asked \in 1..k
        /\ done.outcome = "redirect" <=> ~go.redirect /\ k > 1
        /\ done.asked <= go.maxredirects + 1 \/ done.asked = 1
    BY <1>6 DEF Settled
  <2>2. ~go.redirect <=> reqt.redirect = FALSE
    BY <1>4
  <2> QED BY <1>1, <1>2, <1>4, <2>1, <2>2
<1>9. PICK a : a = HttpRequest(reqt, server)
  OBVIOUS
<1> DEFINE good == (reqt.source # Unset => reqt.source.end = "nil") /\ reqt.url = "valid"
<1>10. Pump(reqt.source).ok <=> reqt.source.end = "nil"
  BY DEF Pump
<1>11. CASE ~good
  <2>1. a = Failed(Unset, 0, <<>>) \/ a = Failed(go, 0, <<>>)
    BY <1>3, <1>9, <1>10, <1>11 DEF HttpRequest
  <2>2. ~a.ok /\ a.asked = 0 /\ a.calls = <<>>
    BY <2>1 DEF Failed
  <2>3. 0 <= Redirects(server) + 1
    BY <1>1, <1>2
  <2> QED BY <1>9, <1>11, <2>2, <2>3 DEF Honest
<1>12. CASE good /\ ~Answered(reqt, server)
  <2>1. a = Failed(go, done.asked, <<>>)
    BY <1>3, <1>5, <1>7, <1>9, <1>10, <1>12 DEF HttpRequest
  <2>2. ~a.ok /\ a.asked = done.asked /\ a.calls = <<>> /\ a.sent = go
    BY <2>1 DEF Failed
  <2> QED BY <1>4, <1>8, <1>9, <1>12, <2>2 DEF Honest
<1>13. CASE good /\ Answered(reqt, server) /\ reqt.sink = Unset
  <2>1. a = [ok |-> TRUE, first |-> "body", status |-> done.outcome, sent |-> go,
             asked |-> done.asked, calls |-> <<>>]
    BY <1>3, <1>5, <1>7, <1>9, <1>10, <1>13 DEF HttpRequest
  <2> QED BY <1>4, <1>8, <1>9, <1>13, <2>1 DEF Honest
<1>14. CASE /\ good /\ Answered(reqt, server) /\ reqt.sink # Unset
            /\ reqt.sink \in {"failsAtData", "failsAtEnd"}
  <2>1. a = Failed(go, done.asked, SinkCalls(reqt.sink))
    BY <1>3, <1>5, <1>7, <1>9, <1>10, <1>14 DEF HttpRequest
  <2>2. ~a.ok /\ a.asked = done.asked /\ a.sent = go /\ a.calls = SinkCalls(reqt.sink)
    BY <2>1 DEF Failed
  <2>3. IsPrefix(SinkCalls(reqt.sink), <<"data", "end">>)
    BY DEF IsPrefix, SinkCalls
  <2> QED BY <1>4, <1>8, <1>9, <1>14, <2>2, <2>3 DEF Honest
<1>15. CASE /\ good /\ Answered(reqt, server) /\ reqt.sink # Unset
            /\ reqt.sink \notin {"failsAtData", "failsAtEnd"}
  <2>1. a = [ok |-> TRUE, first |-> "1", status |-> done.outcome, sent |-> go,
             asked |-> done.asked, calls |-> SinkCalls(reqt.sink)]
    BY <1>3, <1>5, <1>7, <1>9, <1>10, <1>15 DEF HttpRequest
  <2>2. reqt.sink \in {Unset, "accepts", "silent"} /\ SinkCalls(reqt.sink) = <<"data", "end">>
    BY <1>15, FetchesAssumption DEF SinkCalls
  <2>3. IsPrefix(SinkCalls(reqt.sink), <<"data", "end">>)
    BY DEF IsPrefix, SinkCalls
  <2> QED BY <1>4, <1>8, <1>9, <1>15, <2>1, <2>2, <2>3 DEF Honest
<1> QED BY <1>11, <1>12, <1>13, <1>14, <1>15

\* http.request keeps what the README says of its results, for every server that
\* does not redirect for ever: the source is read before anything is sent, the
\* sink gets only an answer that was read, and redirects end at the limit.
THEOREM ClientIsHonest == Spec => []ClientHonest
<1>1. Init => ClientHonest
  BY DEF Init, NoCall, ClientHonest
<1>2. ClientHonest /\ [Next]_last => ClientHonest'
  <2> SUFFICES ASSUME ClientHonest, [Next]_last PROVE ClientHonest'
    OBVIOUS
  <2>1. CASE \E f \in Fetches : Fetch(f)
    <3>1. PICK f \in Fetches : Fetch(f)
      BY <2>1
    <3>2. PICK reqt, server : reqt = f.reqt /\ server = f.server
      OBVIOUS
    <3>3. Honest(reqt, server, HttpRequest(reqt, server))
      BY <3>2, RequestIsHonest
    <3>4. last' = [call |-> "fetch", fetch |-> f, answer |-> HttpRequest(reqt, server)]
      BY <3>1, <3>2 DEF Fetch, Calls
    <3>5. /\ last'.fetch.reqt = reqt /\ last'.fetch.server = server
          /\ last'.answer = HttpRequest(reqt, server)
      BY <3>2, <3>4
    <3> QED BY <3>3, <3>5 DEF ClientHonest, Honest
  <2>2. CASE last'.call # "fetch"
    BY <2>2 DEF ClientHonest
  <2>3. CASE UNCHANGED last
    BY <2>3 DEF ClientHonest
  <2> QED BY <2>1, <2>2, <2>3 DEF Next, Call, Calls, GetArgs, ReqGetHeaders, Unescape, Escape,
     PushBatch, PushCapture, Say, Send
<1> QED BY <1>1, <1>2, PTL DEF Spec

-----------------------------------------------------------------------------
(* Numbers in bytes.                                                       *)

\* what is left of v after each byte
Divided(rest, v, n) ==
  /\ rest \in [0..n -> Int] /\ rest[0] = v
  /\ \A i \in 1..n : rest[i] = rest[i - 1] \div 256

Remainders(rest, n) == [i \in 1..n |-> rest[i - 1] % 256]

\* Le writes the remainders
LEMMA LeIs ==
  ASSUME NEW v \in Int, NEW n \in Nat
  PROVE  \E rest : Divided(rest, v, n) /\ Le(v, n) = Remainders(rest, n)
<1> DEFINE R(f) == f = [i \in 0..n |-> IF i = 0 THEN v ELSE f[i - 1] \div 256]
           step == [i \in 1..n |-> [x \in Int |-> x \div 256]]
<1>1. \E f : R(f)
  <2>1. step \in [1..n -> [Int -> Int]]
    OBVIOUS
  <2>2. PICK f : Solves(f, n, Int, v, step)
    <3> HIDE DEF step
    <3> QED BY <2>1, StepsSolve
  <2>3. f \in [0..n -> Int] /\ f[0] = v
    BY <2>2 DEF Solves
  <2>4. \A i \in 1..n : f[i] = f[i - 1] \div 256
    <3>1. \A i \in 1..n : f[i] = step[i][f[i - 1]]
      BY <2>2 DEF Solves
    <3>2. \A i \in 1..n : f[i - 1] \in Int
      BY <2>3
    <3> QED BY <3>1, <3>2
  <2>5. R(f)
    BY <2>3, <2>4
  <2> HIDE DEF R
  <2> QED BY <2>5
<1> DEFINE g == CHOOSE f : R(f)
<1>2. Le(v, n) = Remainders(g, n)
  BY DEF Le, Remainders
<1>3. R(g)
  <2> HIDE DEF R
  <2> QED BY <1>1
<1> HIDE DEF g
<1>4. \A i \in 0..n : g[i] = IF i = 0 THEN v ELSE g[i - 1] \div 256
  BY <1>3
<1> DEFINE S == {i \in 0..n : g[i] \in Int}
<1>5. \A i \in 0..n : i \in S
  <2>1. 0 \in S
    BY <1>4
  <2>2. \A i \in 1..n : i - 1 \in S => i \in S
    BY <1>4
  <2> HIDE DEF S
  <2> QED BY <2>1, <2>2, UpTo
<1>6. g \in [0..n -> Int]
  <2>1. g = [i \in 0..n |-> g[i]]
    BY <1>3
  <2> QED BY <1>5, <2>1
<1>7. Divided(g, v, n)
  BY <1>4, <1>6 DEF Divided
<1> QED BY <1>2, <1>7

\* the bytes after position p are those of q
Holds(buf, p, q, n) == \A i \in 1..n : buf[p + i] = q[i]

\* the sign of a number, given its last byte
Extension(signed, byte) == IF signed /\ byte >= 128 THEN -1 ELSE 0

\* a number whose sign is in its last byte is read as it was written
LEMMA ReadsBack ==
  ASSUME NEW v \in Int, NEW n \in Nat, NEW p \in Nat, NEW buf, NEW signed \in BOOLEAN, n > 0,
         NEW rest, Divided(rest, v, n), Le(v, n) = Remainders(rest, n),
         Holds(buf, p, Le(v, n), n), rest[n] = Extension(signed, Le(v, n)[n])
  PROVE  ReadFrom(buf, p, n, signed) = v
<1> DEFINE R(f) == f = [i \in 0..n |->
              IF i = 0 THEN IF signed /\ buf[p + n] >= 128 THEN -1 ELSE 0
              ELSE f[i - 1] * 256 + buf[p + n + 1 - i]]
           up == [i \in 0..n |-> rest[n - i]]
<1>1. /\ rest \in [0..n -> Int] /\ rest[0] = v
      /\ \A i \in 1..n : rest[i - 1] = rest[i] * 256 + (rest[i - 1] % 256)
  <2>1. \A x \in Int : x = (x \div 256) * 256 + (x % 256)
    OBVIOUS
  <2>2. \A i \in 1..n : rest[i - 1] \in Int /\ rest[i] = rest[i - 1] \div 256
    BY DEF Divided
  <2>3. rest \in [0..n -> Int] /\ rest[0] = v
    BY DEF Divided
  <2> QED BY <2>1, <2>2, <2>3
<1>2. \A i \in 1..n : buf[p + i] = rest[i - 1] % 256
  BY DEF Holds, Remainders
<1>3. rest[n] = IF signed /\ buf[p + n] >= 128 THEN -1 ELSE 0
  BY DEF Holds, Extension
<1>4. \A i \in 1..n : rest[n - i] = rest[n - (i - 1)] * 256 + buf[p + n + 1 - i]
  <2> SUFFICES ASSUME NEW i \in 1..n
               PROVE  rest[n - i] = rest[n - (i - 1)] * 256 + buf[p + n + 1 - i]
    OBVIOUS
  <2>1. PICK j : j = n + 1 - i
    OBVIOUS
  <2>2. j \in 1..n /\ n - i = j - 1 /\ n - (i - 1) = j /\ p + n + 1 - i = p + j
    BY <2>1
  <2>3. rest[j - 1] = rest[j] * 256 + buf[p + j]
    BY <1>1, <1>2, <2>2
  <2> QED BY <2>2, <2>3
<1>5. R(up)
  BY <1>3, <1>4
<1> DEFINE g == CHOOSE f : R(f)
<1>6. ReadFrom(buf, p, n, signed) = g[n]
  BY DEF ReadFrom
<1>7. R(g)
  <2> HIDE DEF R, up
  <2> QED BY <1>5
<1> HIDE DEF g
<1> DEFINE S == {i \in 0..n : g[i] = rest[n - i]}
<1>8. \A i \in 0..n : i \in S
  <2>1. 0 \in S
    BY <1>3, <1>7
  <2>2. \A i \in 1..n : i - 1 \in S => i \in S
    <3> SUFFICES ASSUME NEW i \in 1..n, g[i - 1] = rest[n - (i - 1)] PROVE g[i] = rest[n - i]
      OBVIOUS
    <3>1. g[i] = g[i - 1] * 256 + buf[p + n + 1 - i]
      BY <1>7
    <3> QED BY <1>4, <3>1
  <2> HIDE DEF S
  <2> QED BY <2>1, <2>2, UpTo
<1>9. g[n] = rest[n - n]
  BY <1>8
<1> QED BY <1>1, <1>6, <1>9

LEMMA ThirdQuotient ==
  ASSUME NEW v, NEW x, NEW y, NEW z, x = v \div 256, y = x \div 256, z = y \div 256
  PROVE  z = Above24(v)
BY DEF Above24

\* the types of the encoder's arguments
LEMMA U32ReadsBack ==
  ASSUME NEW v, IsUint32(v), NEW p \in Nat, NEW buf, NEW n \in {4, 8}, Holds(buf, p, Le(v, n), n)
  PROVE  U(buf, p, n) = v
<1>1. v \in Nat /\ Above24(v) < 256
  BY DEF IsUint32
<1>2. PICK rest : Divided(rest, v, n) /\ Le(v, n) = Remainders(rest, n)
  BY <1>1, LeIs
<1>3. /\ rest[0] = v /\ rest[1] = rest[0] \div 256 /\ rest[2] = rest[1] \div 256
      /\ rest[3] = rest[2] \div 256 /\ rest[4] = rest[3] \div 256
      /\ rest[0] \in Int /\ rest[1] \in Int /\ rest[2] \in Int /\ rest[3] \in Int /\ rest[4] \in Int
  <2>1. n = 4 \/ n = 8
    OBVIOUS
  <2>2. rest[0] = v /\ \A i \in 1..n : rest[i] = rest[i - 1] \div 256
    BY <1>2 DEF Divided
  <2>3. \A i \in 0..n : rest[i] \in Int
    BY <1>2 DEF Divided
  <2> QED BY <2>1, <2>2, <2>3
<1>4. rest[3] = Above24(v)
  BY <1>3, ThirdQuotient
<1>5. rest[4] = 0
  <2>1. rest[1] >= 0 /\ rest[2] >= 0 /\ rest[3] >= 0
    BY <1>1, <1>3
  <2> QED BY <1>1, <1>3, <1>4, <2>1
<1>6. rest[n] = 0
  <2>1. CASE n = 4
    BY <1>5, <2>1
  <2>2. CASE n = 8
    <3>1. /\ rest[5] = rest[4] \div 256 /\ rest[6] = rest[5] \div 256
          /\ rest[7] = rest[6] \div 256 /\ rest[8] = rest[7] \div 256
      BY <1>2, <2>2 DEF Divided
    <3> QED BY <1>5, <2>2, <3>1
  <2> QED BY <2>1, <2>2
<1>7. ReadFrom(buf, p, n, FALSE) = v
  <2>1. rest[n] = Extension(FALSE, Le(v, n)[n])
    BY <1>6 DEF Extension
  <2>2. v \in Int /\ n \in Nat /\ n > 0
    BY <1>1
  <2> QED BY <1>2, <2>1, <2>2, ReadsBack
<1> QED BY <1>7 DEF U

LEMMA I32ReadsBack ==
  ASSUME NEW v, IsInt32(v), NEW p \in Nat, NEW buf, Holds(buf, p, Le(v, 4), 4)
  PROVE  I(buf, p, 4) = v
<1>1. v \in Int /\ Above24(v) >= -128 /\ Above24(v) <= 127
  BY DEF IsInt32
<1>2. PICK rest : Divided(rest, v, 4) /\ Le(v, 4) = Remainders(rest, 4)
  BY <1>1, LeIs
<1>3. /\ rest[0] = v /\ rest[1] = rest[0] \div 256 /\ rest[2] = rest[1] \div 256
      /\ rest[3] = rest[2] \div 256 /\ rest[4] = rest[3] \div 256
      /\ rest[0] \in Int /\ rest[1] \in Int /\ rest[2] \in Int /\ rest[3] \in Int /\ rest[4] \in Int
  BY <1>2 DEF Divided
<1>4. rest[3] = Above24(v)
  BY <1>3, ThirdQuotient
<1>5. rest[3] >= -128 /\ rest[3] <= 127
  BY <1>1, <1>4
<1>6. PICK n \in Nat, signed \in BOOLEAN : n = 4 /\ signed = TRUE
  OBVIOUS
<1>7. Divided(rest, v, n) /\ Le(v, n) = Remainders(rest, n) /\ Holds(buf, p, Le(v, n), n) /\ n > 0
  BY <1>2, <1>6
<1>8. rest[n] = Extension(signed, Le(v, n)[n])
  <2>1. Le(v, n)[n] = rest[3] % 256
    BY <1>6, <1>7 DEF Remainders
  <2>2. rest[n] = rest[4] /\ signed
    BY <1>6
  <2> QED BY <1>3, <1>5, <2>1, <2>2 DEF Extension
<1>9. ReadFrom(buf, p, n, signed) = v
  BY <1>1, <1>7, <1>8, ReadsBack
<1>10. ReadFrom(buf, p, 4, TRUE) = v
  BY <1>6, <1>9, Zenon
<1> QED BY <1>10 DEF I

LEMMA I64ReadsBack ==
  ASSUME NEW v, IsInt64(v), NEW p \in Nat, NEW buf, Holds(buf, p, Le(v, 8), 8)
  PROVE  I(buf, p, 8) = v
<1>1. /\ v \in Int
      /\ Above24(Above24(v)) \div 256 >= -128 /\ Above24(Above24(v)) \div 256 <= 127
  BY DEF IsInt64
<1>2. PICK rest : Divided(rest, v, 8) /\ Le(v, 8) = Remainders(rest, 8)
  BY <1>1, LeIs
<1>3. /\ rest[0] = v /\ \A i \in 1..8 : rest[i] = rest[i - 1] \div 256
      /\ \A i \in 0..8 : rest[i] \in Int
  BY <1>2 DEF Divided
<1>4. /\ rest[3] = Above24(v) /\ rest[6] = Above24(rest[3])
      /\ rest[7] = rest[6] \div 256 /\ rest[8] = rest[7] \div 256
      /\ rest[7] \in Int /\ rest[8] \in Int
  <2>1. rest[1] = rest[0] \div 256 /\ rest[2] = rest[1] \div 256 /\ rest[3] = rest[2] \div 256
    BY <1>3
  <2>2. rest[4] = rest[3] \div 256 /\ rest[5] = rest[4] \div 256 /\ rest[6] = rest[5] \div 256
    BY <1>3
  <2>3. /\ rest[7] = rest[6] \div 256 /\ rest[8] = rest[7] \div 256
        /\ rest[7] \in Int /\ rest[8] \in Int
    BY <1>3
  <2>4. rest[3] = Above24(rest[0])
    BY ONLY <2>1, ThirdQuotient
  <2>5. rest[6] = Above24(rest[3])
    BY ONLY <2>2, ThirdQuotient
  <2> QED BY <1>3, <2>3, <2>4, <2>5
<1>5. rest[7] >= -128 /\ rest[7] <= 127
  BY <1>1, <1>4
<1>6. PICK n \in Nat, signed \in BOOLEAN : n = 8 /\ signed = TRUE
  OBVIOUS
<1>7. Divided(rest, v, n) /\ Le(v, n) = Remainders(rest, n) /\ Holds(buf, p, Le(v, n), n) /\ n > 0
  BY <1>2, <1>6
<1>8. rest[n] = Extension(signed, Le(v, n)[n])
  <2>1. Le(v, n)[n] = rest[7] % 256
    BY <1>6, <1>7 DEF Remainders
  <2>2. rest[n] = rest[8] /\ signed
    BY <1>6
  <2> QED BY <1>3, <1>5, <2>1, <2>2 DEF Extension
<1>9. ReadFrom(buf, p, n, signed) = v
  BY <1>1, <1>7, <1>8, ReadsBack
<1>10. ReadFrom(buf, p, 8, TRUE) = v
  BY <1>6, <1>9, Zenon
<1> QED BY <1>10 DEF I

-----------------------------------------------------------------------------
(* One operation in the buffer.                                            *)

Buffers == [buf : Seq(Byte), strings : Seq(Seq(Byte))]

LEMMA LeType ==
  ASSUME NEW v \in Int, NEW n \in Nat
  PROVE  Le(v, n) \in Seq(Byte) /\ Len(Le(v, n)) = n
<1>1. PICK rest : Divided(rest, v, n) /\ Le(v, n) = Remainders(rest, n)
  BY LeIs
<1>2. Remainders(rest, n) \in [1..n -> Byte]
  <2>1. \A i \in 1..n : rest[i - 1] \in Int
    BY <1>1 DEF Divided
  <2>2. \A i \in 1..n : rest[i - 1] % 256 \in Byte
    BY <2>1 DEF Byte
  <2> QED BY <2>2 DEF Remainders
<1>3. PICK q : q = Le(v, n)
  OBVIOUS
<1>4. q \in [1..n -> Byte]
  BY <1>1, <1>2, <1>3
<1>5. q \in Seq(Byte) /\ Len(q) = n
  BY <1>4
<1> QED BY <1>3, <1>5

\* u is s and then t
Joined(u, s, t) ==
  /\ Len(u) = Len(s) + Len(t)
  /\ \A i \in 1..Len(s) : u[i] = s[i]
  /\ \A i \in 1..Len(t) : u[Len(s) + i] = t[i]

LEMMA Joins ==
  ASSUME NEW S, NEW s \in Seq(S), NEW t \in Seq(S)
  PROVE  s \o t \in Seq(S) /\ Joined(s \o t, s, t)
<1>1. PICK u : u = s \o t
  OBVIOUS
<1>2. /\ u \in Seq(S) /\ Len(u) = Len(s) + Len(t)
      /\ \A i \in 1 .. Len(s) + Len(t) : u[i] = IF i <= Len(s) THEN s[i] ELSE t[i - Len(s)]
  BY <1>1, ConcatProperties
<1>3. PICK n \in Nat, m \in Nat : n = Len(s) /\ m = Len(t)
  OBVIOUS
<1>4. \A i \in 1..n : u[i] = s[i]
  BY <1>2, <1>3
<1>5. \A i \in 1..m : u[n + i] = t[i]
  <2> SUFFICES ASSUME NEW i \in 1..m PROVE u[n + i] = t[i]
    OBVIOUS
  <2>1. n + i \in 1..n + m /\ ~(n + i <= n) /\ n + i - n = i
    OBVIOUS
  <2> QED BY <1>2, <1>3, <2>1
<1> QED BY <1>1, <1>2, <1>3, <1>4, <1>5 DEF Joined

\* c is a with an operation added: its code and its operands q
Put(a, c, code, q) ==
  /\ c \in Buffers
  /\ Len(c.buf) = Len(a.buf) + 1 + Len(q)
  /\ c.buf[Len(a.buf) + 1] = code
  /\ \A i \in 1..Len(q) : c.buf[Len(a.buf) + 1 + i] = q[i]
  /\ \A i \in 1..Len(a.buf) : c.buf[i] = a.buf[i]

LEMMA PutIs ==
  ASSUME NEW a \in Buffers, NEW code \in Byte, NEW q \in Seq(Byte),
         NEW strings \in Seq(Seq(Byte))
  PROVE  Put(a, [buf |-> a.buf \o (<<code>> \o q), strings |-> strings], code, q)
<1>1. PICK buf \in Seq(Byte) : buf = a.buf
  BY DEF Buffers
<1>2. PICK added : added = <<code>> \o q
  OBVIOUS
<1>3. /\ added \in Seq(Byte) /\ Len(added) = 1 + Len(q) /\ added[1] = code
      /\ \A i \in 1..Len(q) : added[1 + i] = q[i]
  BY <1>2
<1>4. PICK all : all = buf \o added
  OBVIOUS
<1>5. /\ all \in Seq(Byte) /\ Len(all) = Len(buf) + Len(added)
      /\ \A i \in 1..Len(buf) : all[i] = buf[i]
      /\ \A i \in 1..Len(added) : all[Len(buf) + i] = added[i]
  <2>1. all \in Seq(Byte) /\ Joined(all, buf, added)
    BY <1>3, <1>4, Joins
  <2> QED BY <2>1 DEF Joined
<1>6. PICK n \in Nat, m \in Nat : n = Len(buf) /\ m = Len(q)
  OBVIOUS
<1>7. Len(all) = n + 1 + m /\ all[n + 1] = code
  BY <1>3, <1>5, <1>6
<1>8. \A i \in 1..m : all[n + 1 + i] = q[i]
  <2> SUFFICES ASSUME NEW i \in 1..m PROVE all[n + 1 + i] = q[i]
    OBVIOUS
  <2>1. 1 + i \in 1..Len(added) /\ n + (1 + i) = n + 1 + i
    BY <1>3, <1>6
  <2>2. all[n + (1 + i)] = added[1 + i]
    BY <1>5, <1>6, <2>1
  <2> QED BY <1>3, <1>6, <2>1, <2>2
<1>9. PICK c : c = [buf |-> all, strings |-> strings]
  OBVIOUS
<1>10. c \in Buffers /\ c.buf = all
  BY <1>5, <1>9 DEF Buffers
<1>11. Put(a, c, code, q)
  BY <1>1, <1>5, <1>6, <1>7, <1>8, <1>10 DEF Put
<1> QED BY <1>1, <1>2, <1>4, <1>9, <1>11

\* b goes on where a ends
Extends(a, b) ==
  /\ Len(a.buf) <= Len(b.buf) /\ \A i \in 1..Len(a.buf) : b.buf[i] = a.buf[i]
  /\ Len(a.strings) <= Len(b.strings)
  /\ \A i \in 1..Len(a.strings) : b.strings[i] = a.strings[i]

\* an operation and its operands at position p of the buffer
Stands(b, p, code, q) ==
  /\ b.buf[p + 1] = code /\ Holds(b.buf, p + 1, q, Len(q))
  /\ p + 1 + Len(q) <= Len(b.buf)

LEMMA PutStands ==
  ASSUME NEW a \in Buffers, NEW c, NEW code, NEW q \in Seq(Byte), Put(a, c, code, q),
         NEW b \in Buffers, Extends(c, b)
  PROVE  Stands(b, Len(a.buf), code, q)
<1>1. Len(a.buf) \in Nat /\ Len(q) \in Nat /\ Len(b.buf) \in Nat
  BY DEF Buffers
<1>2. /\ Len(c.buf) = Len(a.buf) + 1 + Len(q) /\ c.buf[Len(a.buf) + 1] = code
      /\ \A i \in 1..Len(q) : c.buf[Len(a.buf) + 1 + i] = q[i]
      /\ Len(c.buf) <= Len(b.buf) /\ \A i \in 1..Len(c.buf) : b.buf[i] = c.buf[i]
  BY DEF Put, Extends
<1>3. b.buf[Len(a.buf) + 1] = code
  <2>1. PICK k \in Nat : k = Len(a.buf) + 1
    BY <1>1
  <2>2. k \in 1..Len(c.buf) /\ c.buf[k] = code
    BY <1>1, <1>2, <2>1
  <2>3. b.buf[k] = c.buf[k]
    BY <1>2, <2>2
  <2> QED BY <2>1, <2>2, <2>3, Zenon
<1>4. \A i \in 1..Len(q) : b.buf[Len(a.buf) + 1 + i] = q[i]
  <2> SUFFICES ASSUME NEW i \in 1..Len(q) PROVE b.buf[Len(a.buf) + 1 + i] = q[i]
    OBVIOUS
  <2>1. Len(a.buf) + 1 + i \in 1..Len(c.buf)
    BY <1>1, <1>2
  <2> QED BY <1>2, <2>1
<1> QED BY <1>1, <1>2, <1>3, <1>4 DEF Stands, Holds

\* what an operation does to the strings
Anchors(a, c) ==
  c.strings = a.strings \/ \E s \in Seq(Byte) : c.strings = Append(a.strings, s)

LEMMA PutExtends ==
  ASSUME NEW a \in Buffers, NEW c, NEW code, NEW q \in Seq(Byte), Put(a, c, code, q), Anchors(a, c)
  PROVE  Extends(a, c) /\ Len(c.strings) <= Len(a.strings) + 1
<1>1. Len(a.buf) \in Nat /\ Len(q) \in Nat /\ a.strings \in Seq(Seq(Byte))
  BY DEF Buffers
<1>2. Len(a.buf) <= Len(c.buf) /\ \A i \in 1..Len(a.buf) : c.buf[i] = a.buf[i]
  BY <1>1 DEF Put
<1>3. /\ Len(a.strings) <= Len(c.strings) /\ Len(c.strings) <= Len(a.strings) + 1
      /\ \A i \in 1..Len(a.strings) : c.strings[i] = a.strings[i]
  <2>1. CASE c.strings = a.strings
    BY <1>1, <2>1
  <2>2. CASE \E s \in Seq(Byte) : c.strings = Append(a.strings, s)
    BY <1>1, <2>2
  <2> QED BY <2>1, <2>2 DEF Anchors
<1> QED BY <1>2, <1>3 DEF Extends

LEMMA ExtendsOn ==
  ASSUME NEW a \in Buffers, NEW b \in Buffers, NEW c \in Buffers, Extends(a, b), Extends(b, c)
  PROVE  Extends(a, c)
<1>1. /\ Len(a.buf) \in Nat /\ Len(b.buf) \in Nat /\ Len(c.buf) \in Nat
      /\ Len(a.strings) \in Nat /\ Len(b.strings) \in Nat /\ Len(c.strings) \in Nat
  BY DEF Buffers
<1> QED BY <1>1 DEF Extends

LEMMA WritePuts ==
  ASSUME NEW a \in Buffers, NEW code \in Byte, NEW q \in Seq(Byte)
  PROVE  Put(a, Write(a, <<code>> \o q), code, q) /\ Anchors(a, Write(a, <<code>> \o q))
<1>1. PICK x : x = <<code>> \o q
  OBVIOUS
<1>2. Write(a, x) = [buf |-> a.buf \o x, strings |-> a.strings]
  <2>1. PICK buf, strings : a = [buf |-> buf, strings |-> strings]
    BY DEF Buffers
  <2>2. PICK new : new = buf \o x
    OBVIOUS
  <2>3. [a EXCEPT !.buf = new] = [buf |-> new, strings |-> strings]
    BY <2>1
  <2>4. a.buf = buf /\ a.strings = strings
    BY <2>1
  <2> QED BY <2>2, <2>3, <2>4 DEF Write
<1>3. a.strings \in Seq(Seq(Byte))
  BY DEF Buffers
<1>4. Put(a, [buf |-> a.buf \o x, strings |-> a.strings], code, q)
  BY <1>1, <1>3, PutIs
<1>5. Put(a, Write(a, x), code, q) /\ Write(a, x).strings = a.strings
  BY <1>2, <1>4
<1> QED BY <1>1, <1>5, Zenon DEF Anchors

\* the operands of an operation with a pointer
Pointer(a, s) == Le(IF s = <<>> THEN 0 ELSE Len(a.strings) + 1, 8) \o Le(Len(s), 4)

LEMMA PointerType ==
  ASSUME NEW a \in Buffers, NEW s \in Seq(Byte)
  PROVE  /\ Pointer(a, s) \in Seq(Byte) /\ Len(Pointer(a, s)) = 12
         /\ Joined(Pointer(a, s), Le(IF s = <<>> THEN 0 ELSE Len(a.strings) + 1, 8), Le(Len(s), 4))
<1>1. PICK at : at = IF s = <<>> THEN 0 ELSE Len(a.strings) + 1
  OBVIOUS
<1>2. at \in Int /\ Len(s) \in Int
  BY <1>1 DEF Buffers
<1>3. PICK x, y : x = Le(at, 8) /\ y = Le(Len(s), 4)
  OBVIOUS
<1>4. x \in Seq(Byte) /\ Len(x) = 8 /\ y \in Seq(Byte) /\ Len(y) = 4
  BY <1>2, <1>3, LeType
<1>5. x \o y \in Seq(Byte) /\ Joined(x \o y, x, y)
  BY <1>4, Joins
<1>6. Len(x \o y) = 12
  BY <1>4, <1>5 DEF Joined
<1>7. Pointer(a, s) = x \o y
  BY <1>1, <1>3 DEF Pointer
<1> QED BY <1>1, <1>3, <1>5, <1>6, <1>7, Zenon

LEMMA PointerPuts ==
  ASSUME NEW a \in Buffers, NEW code \in Byte, NEW s \in Seq(Byte)
  PROVE  /\ Put(a, WriteStringPtr(a, code, s), code, Pointer(a, s))
         /\ WriteStringPtr(a, code, s).strings = Append(a.strings, s)
<1>1. PICK at : at = IF s = <<>> THEN 0 ELSE Len(a.strings) + 1
  OBVIOUS
<1>2. at \in Int /\ Len(s) \in Int
  BY <1>1 DEF Buffers
<1>3. PICK x, y : x = Le(at, 8) /\ y = Le(Len(s), 4)
  OBVIOUS
<1>4. x \in Seq(Byte) /\ y \in Seq(Byte)
  BY <1>2, <1>3, LeType
<1>5. PICK buf \in Seq(Byte), strings \in Seq(Seq(Byte)) : buf = a.buf /\ strings = Append(a.strings, s)
  <2>1. a.buf \in Seq(Byte) /\ a.strings \in Seq(Seq(Byte))
    BY DEF Buffers
  <2>2. Append(a.strings, s) \in Seq(Seq(Byte))
    BY <2>1
  <2> QED BY <2>1, <2>2
<1>6. ((buf \o <<code>>) \o x) \o y = buf \o (<<code>> \o (x \o y))
  <2>1. <<code>> \in Seq(Byte)
    OBVIOUS
  <2>2. buf \o <<code>> \in Seq(Byte) /\ x \o y \in Seq(Byte)
    BY <1>4, <2>1
  <2>3. ((buf \o <<code>>) \o x) \o y = (buf \o <<code>>) \o (x \o y)
    <3>1. PICK d \in Seq(Byte) : d = buf \o <<code>>
      BY <2>2, Zenon
    <3>2. (d \o x) \o y = d \o (x \o y)
      BY <1>4, ConcatAssociative
    <3> QED BY <3>1, <3>2, Zenon
  <2>4. (buf \o <<code>>) \o (x \o y) = buf \o (<<code>> \o (x \o y))
    <3>1. PICK c \in Seq(Byte), z \in Seq(Byte) : c = <<code>> /\ z = x \o y
      BY <2>1, <2>2, Zenon
    <3>2. (buf \o c) \o z = buf \o (c \o z)
      BY ConcatAssociative
    <3> QED BY <3>1, <3>2, Zenon
  <2> QED BY <2>3, <2>4
<1>7. WriteStringPtr(a, code, s) = [buf |-> buf \o (<<code>> \o (x \o y)), strings |-> strings]
  BY <1>1, <1>3, <1>5, <1>6, Zenon DEF WriteStringPtr
<1>8. Pointer(a, s) = x \o y
  BY <1>1, <1>3 DEF Pointer
<1>9. x \o y \in Seq(Byte)
  BY <1>4
<1>10. Put(a, [buf |-> a.buf \o (<<code>> \o (x \o y)), strings |-> strings], code, x \o y)
  BY <1>9, PutIs
<1>11. Put(a, WriteStringPtr(a, code, s), code, Pointer(a, s))
  BY <1>5, <1>7, <1>8, <1>10, Zenon
<1> QED BY <1>5, <1>7, <1>11

\* three sequences, written one after the other
LEMMA Three ==
  ASSUME NEW code \in Byte, NEW x \in Seq(Byte), NEW y \in Seq(Byte)
  PROVE  <<code>> \o x \o y = <<code>> \o (x \o y) /\ x \o y \in Seq(Byte)
<1>1. <<code>> \in Seq(Byte) /\ x \o y \in Seq(Byte)
  OBVIOUS
<1> QED BY <1>1, ConcatAssociative

LEMMA WriteTwoPuts ==
  ASSUME NEW a \in Buffers, NEW code \in Byte, NEW x \in Seq(Byte), NEW y \in Seq(Byte)
  PROVE  /\ Put(a, Write(a, <<code>> \o x \o y), code, x \o y)
         /\ Anchors(a, Write(a, <<code>> \o x \o y))
<1>1. PICK q : q = x \o y
  OBVIOUS
<1>2. q \in Seq(Byte) /\ <<code>> \o x \o y = <<code>> \o q
  BY <1>1, Three
<1>3. Put(a, Write(a, <<code>> \o q), code, q) /\ Anchors(a, Write(a, <<code>> \o q))
  BY <1>2, WritePuts
<1> QED BY <1>1, <1>2, <1>3, Zenon

LEMMA WriteCodePuts ==
  ASSUME NEW a \in Buffers, NEW code \in Byte
  PROVE  Put(a, Write(a, <<code>>), code, <<>>) /\ Anchors(a, Write(a, <<code>>))
<1>1. <<code>> = <<code>> \o <<>> /\ <<>> \in Seq(Byte)
  OBVIOUS
<1>2. PICK q \in Seq(Byte), x \in {<<code>>} : q = <<>> /\ x = <<code>> \o q
  BY <1>1
<1>3. Put(a, Write(a, x), code, q) /\ Anchors(a, Write(a, x))
  BY <1>2, WritePuts
<1> QED BY <1>1, <1>2, <1>3, Zenon

-----------------------------------------------------------------------------
(* One operation in the interpreter.                                       *)

Reached(p, s) == [pos |-> p, stack |-> s, ok |-> TRUE]

\* After an operation that is not cut short the interpreter is behind it.
Behind(b, p, code, q) ==
  /\ code \in 1..14
  /\ p + 1 + Operand(code) + InlineLength(b, code, p + 1) = p + 1 + Len(q)
  /\ ~(p + 1 + Operand(code) > Len(b.buf))
  /\ ~(p + 1 + Operand(code) + InlineLength(b, code, p + 1) > Len(b.buf))

LEMMA IsBehind ==
  ASSUME NEW b \in Buffers, NEW p \in Nat, NEW q \in Seq(Byte), NEW code \in 1..14,
         Stands(b, p, code, q), NEW n \in Nat, InlineLength(b, code, p + 1) = n,
         Operand(code) + n = Len(q)
  PROVE  Behind(b, p, code, q)
<1>1. Operand(code) \in Nat /\ Len(q) \in Nat /\ Len(b.buf) \in Nat
  BY DEF Operand, Buffers
<1>2. p + 1 + Len(q) <= Len(b.buf)
  BY DEF Stands
<1> QED BY <1>1, <1>2 DEF Behind

LEMMA StepIs ==
  ASSUME NEW b, NEW p, NEW s, NEW code, NEW q, Stands(b, p, code, q), Behind(b, p, code, q)
  PROVE  Step(b, Reached(p, s)) = Reached(p + 1 + Len(q), Effect(b, code, p + 1, s))
<1>1. PICK st : st = Reached(p, s)
  OBVIOUS
<1>2. st.pos = p /\ st.stack = s /\ b.buf[st.pos + 1] = code
  BY <1>1 DEF Reached, Stands
<1>3. ~Short(b, code, p + 1)
  BY DEF Behind, Short
<1>4. Step(b, st) = Reached(p + 1 + Operand(code) + InlineLength(b, code, p + 1),
                           Effect(b, code, p + 1, s))
  BY <1>2, <1>3, Zenon DEF Step, Reached
<1>5. p + 1 + Operand(code) + InlineLength(b, code, p + 1) = p + 1 + Len(q)
  BY DEF Behind
<1> QED BY <1>1, <1>4, <1>5

\* a text in the buffer
LEMMA Slice ==
  ASSUME NEW buf \in Seq(Byte), NEW p \in Nat, NEW s \in Seq(Byte),
         NEW n \in Nat, n = p + Len(s), n <= Len(buf), NEW m \in Nat, m = p + 1,
         Holds(buf, p, s, Len(s))
  PROVE  SubSeq(buf, m, n) = s
<1>1. PICK t : t = SubSeq(buf, m, n)
  OBVIOUS
<1>2. Len(s) \in Nat /\ Len(buf) \in Nat
  OBVIOUS
<1>3. t \in Seq(Byte) /\ Len(t) = Len(s)
  BY <1>1, <1>2
<1>4. \A i \in 1..Len(s) : t[i] = buf[p + i]
  <2> SUFFICES ASSUME NEW i \in 1..Len(s) PROVE t[i] = buf[p + i]
    OBVIOUS
  <2>1. i \in 1..n - m + 1 /\ m + i - 1 = p + i
    BY <1>2
  <2>2. t[i] = buf[m + i - 1]
    BY <1>1, <1>2, <2>1
  <2> QED BY <2>1, <2>2
<1>5. \A i \in 1..Len(s) : t[i] = s[i]
  BY <1>4 DEF Holds
<1>6. t = s
  BY <1>3, <1>5, SeqEqual
<1> QED BY <1>1, <1>6

LEMMA HoldsPart ==
  ASSUME NEW buf, NEW p \in Nat, NEW u \in Seq(Byte), NEW x \in Seq(Byte), NEW y \in Seq(Byte),
         Joined(u, x, y), Holds(buf, p, u, Len(u))
  PROVE  Holds(buf, p, x, Len(x)) /\ Holds(buf, p + Len(x), y, Len(y))
<1>1. Len(x) \in Nat /\ Len(y) \in Nat /\ Len(u) = Len(x) + Len(y)
  BY DEF Joined
<1>2. \A i \in 1..Len(x) : i \in 1..Len(u) /\ u[i] = x[i]
  BY <1>1 DEF Joined
<1>3. \A i \in 1..Len(y) : Len(x) + i \in 1..Len(u) /\ u[Len(x) + i] = y[i]
  BY <1>1 DEF Joined
<1>4. \A i \in 1..Len(y) : p + Len(x) + i = p + (Len(x) + i)
  BY <1>1
<1> QED BY <1>2, <1>3, <1>4 DEF Holds

\* the string that a pointer and a length lead to
LEMMA FollowsPointer ==
  ASSUME NEW a \in Buffers, NEW s \in Seq(Byte), NEW c, c.strings = Append(a.strings, s),
         IsUint32(Len(a.strings) + 1), IsUint32(Len(s)),
         NEW b \in Buffers, Extends(c, b), NEW p \in Nat, Holds(b.buf, p, Pointer(a, s), 12)
  PROVE  PointedTo(b, p) = s
<1>1. PICK at : at = IF s = <<>> THEN 0 ELSE Len(a.strings) + 1
  OBVIOUS
<1>2. IsUint32(at) /\ at \in Int /\ Len(s) \in Int
  <2>1. IsUint32(0)
    BY DEF IsUint32, Above24
  <2>2. IsUint32(at)
    BY <1>1, <2>1
  <2> QED BY <2>2 DEF IsUint32
<1>3. PICK u, x, y : u = Pointer(a, s) /\ x = Le(at, 8) /\ y = Le(Len(s), 4)
  OBVIOUS
<1>4. /\ u \in Seq(Byte) /\ Len(u) = 12 /\ x \in Seq(Byte) /\ Len(x) = 8
      /\ y \in Seq(Byte) /\ Len(y) = 4 /\ Joined(u, x, y)
  BY <1>1, <1>2, <1>3, PointerType, LeType
<1>5. Holds(b.buf, p, x, 8) /\ Holds(b.buf, p + 8, y, 4)
  <2>1. Holds(b.buf, p, u, Len(u))
    BY <1>3, <1>4
  <2>2. Holds(b.buf, p, x, Len(x)) /\ Holds(b.buf, p + Len(x), y, Len(y))
    BY <1>4, <2>1, HoldsPart
  <2> QED BY <1>4, <2>2
<1>6. U(b.buf, p, 8) = at
  BY <1>2, <1>3, <1>5, U32ReadsBack
<1>7. U(b.buf, p + 8, 4) = Len(s)
  BY <1>3, <1>5, U32ReadsBack
<1>8. CASE s = <<>>
  BY <1>1, <1>6, <1>8 DEF PointedTo
<1>9. CASE s # <<>>
  <2>1. PICK strings \in Seq(Seq(Byte)) : strings = a.strings
    BY DEF Buffers
  <2>2. PICK all : all = Append(strings, s)
    OBVIOUS
  <2>3. Len(all) = Len(strings) + 1 /\ all[Len(strings) + 1] = s /\ Len(strings) \in Nat
    BY <2>1, <2>2
  <2>4. \A i \in 1..Len(all) : b.strings[i] = all[i]
    BY <2>1, <2>2 DEF Extends
  <2>5. at = Len(strings) + 1 /\ at # 0 /\ at \in 1..Len(all)
    BY <1>1, <1>9, <2>1, <2>3
  <2>6. b.strings[at] = s
    BY <2>3, <2>4, <2>5
  <2>7. SubSeq(s, 1, Len(s)) = s
    OBVIOUS
  <2> QED BY <1>6, <1>7, <2>5, <2>6, <2>7 DEF PointedTo
<1> QED BY <1>8, <1>9

\* the bytes u after p are the length of a text and the text itself
Inlined(b, p, s, u) ==
  /\ IsUint32(Len(s)) /\ u = Le(Len(s), 4) \o s
  /\ Holds(b.buf, p, u, Len(u)) /\ p + Len(u) <= Len(b.buf)

\* the text of an inline string
LEMMA ReadsInline ==
  ASSUME NEW b \in Buffers, NEW p \in Nat, NEW s \in Seq(Byte), NEW u, Inlined(b, p, s, u)
  PROVE  /\ U(b.buf, p, 4) = Len(s) /\ InlineText(b, p) = s /\ Len(u) = 4 + Len(s)
<1> /\ IsUint32(Len(s)) /\ u = Le(Len(s), 4) \o s
    /\ Holds(b.buf, p, u, Len(u)) /\ p + Len(u) <= Len(b.buf)
  BY DEF Inlined
<1>1. Len(s) \in Nat /\ Len(s) \in Int
  OBVIOUS
<1>2. PICK x : x = Le(Len(s), 4)
  OBVIOUS
<1>3. x \in Seq(Byte) /\ Len(x) = 4
  BY <1>1, <1>2, LeType
<1>4. u \in Seq(Byte) /\ Joined(u, x, s)
  BY <1>2, <1>3, Joins
<1>5. Len(u) = 4 + Len(s)
  BY <1>3, <1>4 DEF Joined
<1>6. Holds(b.buf, p, x, 4) /\ Holds(b.buf, p + 4, s, Len(s))
  BY <1>3, <1>4, HoldsPart
<1>7. U(b.buf, p, 4) = Len(s)
  BY <1>2, <1>6, U32ReadsBack
<1>8. PICK n, m, k \in Nat : n = p + 4 + Len(s) /\ m = p + 5 /\ k = p + 4
  BY <1>1
<1>9. n = k + Len(s) /\ m = k + 1 /\ n <= Len(b.buf) /\ Holds(b.buf, k, s, Len(s))
  BY <1>1, <1>5, <1>6, <1>8
<1>10. PICK buf \in Seq(Byte) : buf = b.buf
  BY DEF Buffers
<1>11. SubSeq(buf, m, n) = s
  <2>1. n = k + Len(s) /\ m = k + 1 /\ n <= Len(buf) /\ Holds(buf, k, s, Len(s))
    BY <1>9, <1>10
  <2> QED BY <2>1, Slice, Zenon
<1> QED BY <1>5, <1>7, <1>8, <1>10, <1>11 DEF InlineText

-----------------------------------------------------------------------------
(* Each operation, written and read.                                       *)

\* the interpreter finds the operands q after p and does what op says
Reads(b, p, code, q, op) ==
  /\ InlineLength(b, code, p) \in Nat
  /\ Operand(code) + InlineLength(b, code, p) = Len(q)
  /\ \A s : Effect(b, code, p, s) = Perform(s, op)

\* code and q stand for op in the buffer, after a
Means(a, op, code, q) ==
  /\ code \in 1..14 /\ q \in Seq(Byte)
  /\ Put(a, Encode(a, op), code, q) /\ Anchors(a, Encode(a, op))
  /\ \A b \in Buffers :
       Stands(b, Len(a.buf), code, q) /\ Extends(Encode(a, op), b) =>
         Reads(b, Len(a.buf) + 1, code, q, op)

LEMMA IntTypes == \A v : (IsInt64(v) => v \in Int) /\ (IsInt32(v) => v \in Int)
<1>1. ASSUME NEW v, IsInt64(v) PROVE v \in Int
  BY <1>1, Zenon DEF IsInt64
<1>2. ASSUME NEW v, IsInt32(v) PROVE v \in Int
  BY <1>2, Zenon DEF IsInt32
<1> QED BY <1>1, <1>2, Zenon

LEMMA EightBytes == ASSUME NEW q \in [1..8 -> Byte] PROVE q \in Seq(Byte) /\ Len(q) = 8
<1>1. PICK n \in Nat : n = 8
  OBVIOUS
<1>2. q \in [1..n -> Byte]
  BY <1>1
<1>3. q \in Seq(Byte) /\ Len(q) = n
  BY <1>2
<1> QED BY <1>1, <1>3

LEMMA NilMeans ==
  ASSUME NEW a \in Buffers, NEW op, op[1] \in {"nil", "table", "set"}
  PROVE  \E code, q : Means(a, op, code, q)
<1>1. PICK code \in {1, 8, 10} :
        /\ op[1] = "nil" => code = 1
        /\ op[1] = "table" => code = 8
        /\ op[1] = "set" => code = 10
  OBVIOUS
<1>2. code \in Byte /\ code \in 1..14 /\ <<>> \in Seq(Byte)
  BY DEF Byte
<1>3. Encode(a, op) = Write(a, <<code>>)
  BY <1>1 DEF Encode
<1>4. Put(a, Encode(a, op), code, <<>>) /\ Anchors(a, Encode(a, op))
  BY <1>2, <1>3, WriteCodePuts
<1>5. \A b, p : Reads(b, p, code, <<>>, op)
  <2>1. CASE op[1] = "nil"
    <3>1. \A b, p, s : Effect(b, 1, p, s) = Push(s, LuaNil) /\ Perform(s, op) = Push(s, LuaNil)
      BY <2>1 DEF Effect, Perform
    <3> QED BY <1>1, <2>1, <3>1 DEF Reads, InlineLength, Operand
  <2>2. CASE op[1] = "table"
    <3>1. \A b, p, s : Effect(b, 8, p, s) = Push(s, NewTable) /\ Perform(s, op) = Push(s, NewTable)
      BY <2>2 DEF Effect, Perform
    <3> QED BY <1>1, <2>2, <3>1 DEF Reads, InlineLength, Operand
  <2>3. CASE op[1] = "set"
    <3>1. \A b, p, s : Effect(b, 10, p, s) = SetsTop(s) /\ Perform(s, op) = SetsTop(s)
      BY <2>3 DEF Effect, Perform
    <3> QED BY <1>1, <2>3, <3>1 DEF Reads, InlineLength, Operand
  <2> QED BY <2>1, <2>2, <2>3
<1>6. Means(a, op, code, <<>>)
  BY <1>2, <1>4, <1>5, Zenon DEF Means
<1> QED BY <1>6

LEMMA BoolMeans ==
  ASSUME NEW a \in Buffers, NEW op, op[1] = "bool", op[2] \in BOOLEAN
  PROVE  \E code, q : Means(a, op, code, q)
<1>1. PICK code \in {2, 3} : code = IF op[2] THEN 2 ELSE 3
  OBVIOUS
<1>2. code \in Byte /\ code \in 1..14 /\ <<>> \in Seq(Byte)
  BY DEF Byte
<1>3. Encode(a, op) = Write(a, <<code>>)
  BY <1>1 DEF Encode
<1>4. Put(a, Encode(a, op), code, <<>>) /\ Anchors(a, Encode(a, op))
  BY <1>2, <1>3, WriteCodePuts
<1>5. \A b, p : Reads(b, p, code, <<>>, op)
  <2>1. \A s : Perform(s, op) = Push(s, LuaBool(op[2]))
    BY DEF Perform
  <2>2. CASE op[2] = TRUE
    <3>1. \A b, p, s : Effect(b, 2, p, s) = Push(s, LuaBool(TRUE))
      BY DEF Effect
    <3>2. code = 2 /\ LuaBool(op[2]) = LuaBool(TRUE)
      BY <1>1, <2>2, Zenon
    <3>3. \A b, p, s : Effect(b, code, p, s) = Perform(s, op)
      BY <2>1, <3>1, <3>2, Zenon
    <3> QED BY <1>1, <3>2, <3>3 DEF Reads, InlineLength, Operand
  <2>3. CASE op[2] = FALSE
    <3>1. \A b, p, s : Effect(b, 3, p, s) = Push(s, LuaBool(FALSE))
      BY DEF Effect
    <3>2. code = 3 /\ LuaBool(op[2]) = LuaBool(FALSE)
      BY <1>1, <2>3, Zenon
    <3>3. \A b, p, s : Effect(b, code, p, s) = Perform(s, op)
      BY <2>1, <3>1, <3>2, Zenon
    <3> QED BY <1>1, <3>2, <3>3 DEF Reads, InlineLength, Operand
  <2> QED BY <2>2, <2>3
<1>6. Means(a, op, code, <<>>)
  BY <1>2, <1>4, <1>5, Zenon DEF Means
<1> QED BY <1>6

LEMMA IntMeans ==
  ASSUME NEW a \in Buffers, NEW op, op[1] = "int", IsInt64(op[2])
  PROVE  \E code, q : Means(a, op, code, q)
<1>1. PICK q : q = Le(op[2], 8)
  OBVIOUS
<1>2. q \in Seq(Byte) /\ Len(q) = 8 /\ 4 \in Byte /\ 4 \in 1..14
  <2>1. op[2] \in Int
    BY IntTypes
  <2>2. q \in Seq(Byte) /\ Len(q) = 8
    BY <1>1, <2>1, LeType
  <2> QED BY <2>2 DEF Byte
<1>3. Encode(a, op) = Write(a, <<4>> \o q)
  BY <1>1 DEF Encode
<1>4. Put(a, Encode(a, op), 4, q) /\ Anchors(a, Encode(a, op))
  BY <1>2, <1>3, WritePuts
<1>5. ASSUME NEW b \in Buffers, Stands(b, Len(a.buf), 4, q)
      PROVE  Reads(b, Len(a.buf) + 1, 4, q, op)
  <2>1. PICK p \in Nat : p = Len(a.buf) + 1
    BY DEF Buffers
  <2>2. Holds(b.buf, p, Le(op[2], 8), 8)
    BY <1>1, <1>2, <1>5, <2>1 DEF Stands
  <2>3. I(b.buf, p, 8) = op[2]
    BY <2>2, I64ReadsBack
  <2>4. \A s : Effect(b, 4, p, s) = Push(s, LuaInt(op[2])) /\ Perform(s, op) = Push(s, LuaInt(op[2]))
    BY <2>3 DEF Effect, Perform
  <2> QED BY <1>2, <2>1, <2>4 DEF Reads, InlineLength, Operand
<1>6. Means(a, op, 4, q)
  BY <1>2, <1>4, <1>5 DEF Means
<1> QED BY <1>6

LEMMA EightSlice ==
  ASSUME NEW buf \in Seq(Byte), NEW p \in Nat, NEW q \in Seq(Byte), Len(q) = 8,
         Holds(buf, p, q, Len(q)), p + Len(q) <= Len(buf)
  PROVE  SubSeq(buf, p + 1, p + 8) = q
<1>1. PICK m \in Nat, n \in Nat : m = p + 1 /\ n = p + 8
  OBVIOUS
<1>2. n = p + Len(q) /\ n <= Len(buf)
  BY <1>1
<1>3. SubSeq(buf, m, n) = q
  BY <1>1, <1>2, Slice
<1> QED BY <1>1, <1>3

LEMMA NumberMeans ==
  ASSUME NEW a \in Buffers, NEW op, op[1] = "number", op[2] \in [1..8 -> Byte]
  PROVE  \E code, q : Means(a, op, code, q)
<1>1. PICK q : q = op[2]
  OBVIOUS
<1>2. q \in Seq(Byte) /\ Len(q) = 8 /\ 5 \in Byte /\ 5 \in 1..14
  <2>1. q \in [1..8 -> Byte]
    BY <1>1
  <2>2. q \in Seq(Byte) /\ Len(q) = 8
    BY <2>1, EightBytes
  <2> QED BY <2>2 DEF Byte
<1>3. Encode(a, op) = Write(a, <<5>> \o q)
  BY <1>1 DEF Encode
<1>4. Put(a, Encode(a, op), 5, q) /\ Anchors(a, Encode(a, op))
  BY <1>2, <1>3, WritePuts
<1>5. ASSUME NEW b \in Buffers, Stands(b, Len(a.buf), 5, q)
      PROVE  Reads(b, Len(a.buf) + 1, 5, q, op)
  <2>1. PICK p \in Nat : p = Len(a.buf) + 1
    BY DEF Buffers
  <2>2. Holds(b.buf, p, q, Len(q)) /\ p + Len(q) <= Len(b.buf) /\ b.buf \in Seq(Byte)
    BY <1>5, <2>1 DEF Stands, Buffers
  <2>3. SubSeq(b.buf, p + 1, p + 8) = q
    BY <1>2, <2>2, EightSlice
  <2>4. \A s : Effect(b, 5, p, s) = Push(s, LuaNum(SubSeq(b.buf, p + 1, p + 8)))
    BY DEF Effect
  <2>5. \A s : Perform(s, op) = Push(s, LuaNum(op[2]))
    BY DEF Perform
  <2>6. \A s : Effect(b, 5, p, s) = Perform(s, op)
    BY <1>1, <2>3, <2>4, <2>5, Zenon
  <2> QED BY <1>2, <2>1, <2>6 DEF Reads, InlineLength, Operand
<1>6. Means(a, op, 5, q)
  BY <1>2, <1>4, <1>5 DEF Means
<1> QED BY <1>6

LEMMA SetIndexMeans ==
  ASSUME NEW a \in Buffers, NEW op, op[1] = "setIndex", IsInt32(op[2])
  PROVE  \E code, q : Means(a, op, code, q)
<1>1. PICK q : q = Le(op[2], 4)
  OBVIOUS
<1>2. q \in Seq(Byte) /\ Len(q) = 4 /\ 13 \in Byte /\ 13 \in 1..14
  <2>1. op[2] \in Int
    BY IntTypes
  <2>2. q \in Seq(Byte) /\ Len(q) = 4
    BY <1>1, <2>1, LeType
  <2> QED BY <2>2 DEF Byte
<1>3. Encode(a, op) = Write(a, <<13>> \o q)
  BY <1>1 DEF Encode
<1>4. Put(a, Encode(a, op), 13, q) /\ Anchors(a, Encode(a, op))
  BY <1>2, <1>3, WritePuts
<1>5. ASSUME NEW b \in Buffers, Stands(b, Len(a.buf), 13, q)
      PROVE  Reads(b, Len(a.buf) + 1, 13, q, op)
  <2>1. PICK p \in Nat : p = Len(a.buf) + 1
    BY DEF Buffers
  <2>2. Holds(b.buf, p, Le(op[2], 4), 4)
    BY <1>1, <1>2, <1>5, <2>1 DEF Stands
  <2>3. I(b.buf, p, 4) = op[2]
    BY <2>2, I32ReadsBack
  <2>4. \A s : /\ Effect(b, 13, p, s) = SetsField(s, LuaInt(op[2]))
               /\ Perform(s, op) = SetsField(s, LuaInt(op[2]))
    BY <2>3 DEF Effect, Perform
  <2> QED BY <1>2, <2>1, <2>4 DEF Reads, InlineLength, Operand
<1>6. Means(a, op, 13, q)
  BY <1>2, <1>4, <1>5 DEF Means
<1> QED BY <1>6

LEMMA PopMeans ==
  ASSUME NEW a \in Buffers, NEW op, op[1] = "pop", op[2] \in Byte
  PROVE  \E code, q : Means(a, op, code, q)
<1>1. PICK q : q = <<op[2]>>
  OBVIOUS
<1>2. q \in Seq(Byte) /\ Len(q) = 1 /\ q[1] = op[2] /\ 14 \in Byte /\ 14 \in 1..14
  BY <1>1 DEF Byte
<1>3. Encode(a, op) = Write(a, <<14>> \o q)
  <2>1. op[2] % 256 = op[2]
    BY DEF Byte
  <2>2. <<14, op[2] % 256>> = <<14>> \o q
    BY <1>1, <2>1
  <2> QED BY <2>2 DEF Encode
<1>4. Put(a, Encode(a, op), 14, q) /\ Anchors(a, Encode(a, op))
  BY <1>2, <1>3, WritePuts
<1>5. ASSUME NEW b \in Buffers, Stands(b, Len(a.buf), 14, q)
      PROVE  Reads(b, Len(a.buf) + 1, 14, q, op)
  <2>1. PICK p \in Nat : p = Len(a.buf) + 1
    BY DEF Buffers
  <2>2. b.buf[p + 1] = op[2]
    BY <1>2, <1>5, <2>1 DEF Stands, Holds
  <2>3. \A s : Effect(b, 14, p, s) = Drop(s, op[2]) /\ Perform(s, op) = Drop(s, op[2])
    BY <2>2 DEF Effect, Perform
  <2> QED BY <1>2, <2>1, <2>3 DEF Reads, InlineLength, Operand
<1>6. Means(a, op, 14, q)
  BY <1>2, <1>4, <1>5 DEF Means
<1> QED BY <1>6

LEMMA SizedMeans ==
  ASSUME NEW a \in Buffers, NEW op, op[1] = "tableSized", op[2] \in Int, op[3] \in Int
  PROVE  \E code, q : Means(a, op, code, q)
<1>1. PICK x, y : x = Le(op[2], 4) /\ y = Le(op[3], 4)
  OBVIOUS
<1>2. x \in Seq(Byte) /\ Len(x) = 4 /\ y \in Seq(Byte) /\ Len(y) = 4 /\ 9 \in Byte /\ 9 \in 1..14
  <2>1. x \in Seq(Byte) /\ Len(x) = 4 /\ y \in Seq(Byte) /\ Len(y) = 4
    BY <1>1, LeType
  <2> QED BY <2>1 DEF Byte
<1>3. PICK q : q = x \o y
  OBVIOUS
<1>4. q \in Seq(Byte) /\ Len(q) = 8
  <2>1. q \in Seq(Byte) /\ Joined(q, x, y)
    BY <1>2, <1>3, Joins
  <2> QED BY <1>2, <2>1 DEF Joined
<1>5. Encode(a, op) = Write(a, <<9>> \o x \o y)
  BY <1>1 DEF Encode
<1>6. Put(a, Encode(a, op), 9, q) /\ Anchors(a, Encode(a, op))
  BY <1>2, <1>3, <1>5, WriteTwoPuts
<1>7. \A b \in Buffers : Reads(b, Len(a.buf) + 1, 9, q, op)
  BY <1>4 DEF Reads, InlineLength, Operand, Effect, Perform
<1>8. Means(a, op, 9, q)
  BY <1>4, <1>2, <1>6, <1>7, Zenon DEF Means
<1> QED BY <1>8

LEMMA StringMeans ==
  ASSUME NEW a \in Buffers, NEW op, op[1] \in {"string", "setField"}, op[2] \in Seq(Byte),
         IsUint32(Len(op[2])), IsUint32(Len(a.strings) + 1)
  PROVE  \E code, q : Means(a, op, code, q)
<1>1. PICK code \in {6, 11} : code = IF op[1] = "string" THEN 6 ELSE 11
  OBVIOUS
<1>2. PICK s \in Seq(Byte), q \in {Pointer(a, op[2])} : s = op[2] /\ q = Pointer(a, s)
  OBVIOUS
<1>3. q \in Seq(Byte) /\ Len(q) = 12 /\ code \in Byte /\ code \in 1..14
  BY <1>2, PointerType DEF Byte
<1>4. Encode(a, op) = WriteStringPtr(a, code, s)
  BY <1>1, <1>2 DEF Encode
<1>5. Put(a, Encode(a, op), code, q) /\ Encode(a, op).strings = Append(a.strings, s)
  BY <1>2, <1>3, <1>4, PointerPuts
<1>6. Anchors(a, Encode(a, op))
  BY <1>5 DEF Anchors
<1>7. ASSUME NEW b \in Buffers, Stands(b, Len(a.buf), code, q), Extends(Encode(a, op), b)
      PROVE  Reads(b, Len(a.buf) + 1, code, q, op)
  <2>1. PICK p \in Nat : p = Len(a.buf) + 1
    BY DEF Buffers
  <2>2. Holds(b.buf, p, Pointer(a, s), 12)
    BY <1>2, <1>3, <1>7, <2>1 DEF Stands
  <2>3. PointedTo(b, p) = s
    BY <1>2, <1>5, <1>7, <2>2, FollowsPointer
  <2>4. CASE op[1] = "string"
    <3>1. \A t : Effect(b, 6, p, t) = Push(t, LuaStr(s)) /\ Perform(t, op) = Push(t, LuaStr(s))
      BY <1>2, <2>3, <2>4 DEF Effect, Perform
    <3> QED BY <1>1, <1>3, <2>1, <2>4, <3>1 DEF Reads, InlineLength, Operand
  <2>5. CASE op[1] = "setField"
    <3>1. \A t : /\ Effect(b, 11, p, t) = SetsField(t, LuaStr(s))
                 /\ Perform(t, op) = SetsField(t, LuaStr(s))
      BY <1>2, <2>3, <2>5 DEF Effect, Perform
    <3> QED BY <1>1, <1>3, <2>1, <2>5, <3>1 DEF Reads, InlineLength, Operand
  <2> QED BY <2>4, <2>5
<1>8. Means(a, op, code, q)
  BY <1>3, <1>5, <1>6, <1>7 DEF Means
<1> QED BY <1>8

LEMMA InlineMeans ==
  ASSUME NEW a \in Buffers, NEW op, op[1] \in {"inlineString", "setFieldInline"},
         op[2] \in Seq(Byte), IsUint32(Len(op[2]))
  PROVE  \E code, q : Means(a, op, code, q)
<1>1. PICK code \in {7, 12} : code = IF op[1] = "inlineString" THEN 7 ELSE 12
  OBVIOUS
<1>2. PICK s \in Seq(Byte), x \in {Le(Len(op[2]), 4)}, q \in {Le(Len(op[2]), 4) \o op[2]} :
        s = op[2] /\ x = Le(Len(s), 4) /\ q = x \o s
  OBVIOUS
<1>3. x \in Seq(Byte) /\ q \in Seq(Byte) /\ code \in Byte /\ code \in 1..14
  <2>1. x \in Seq(Byte)
    BY <1>2, LeType
  <2> QED BY <1>2, <2>1 DEF Byte
<1>4. Encode(a, op) = Write(a, <<code>> \o x \o s)
  BY <1>1, <1>2 DEF Encode, WriteInline
<1>5. Put(a, Encode(a, op), code, q) /\ Anchors(a, Encode(a, op))
  BY <1>2, <1>3, <1>4, WriteTwoPuts
<1>6. ASSUME NEW b \in Buffers, Stands(b, Len(a.buf), code, q)
      PROVE  Reads(b, Len(a.buf) + 1, code, q, op)
  <2>1. PICK p \in Nat : p = Len(a.buf) + 1
    BY DEF Buffers
  <2>2. Holds(b.buf, p, q, Len(q)) /\ p + Len(q) <= Len(b.buf)
    BY <1>6, <2>1 DEF Stands
  <2>3. U(b.buf, p, 4) = Len(s) /\ InlineText(b, p) = s /\ Len(q) = 4 + Len(s)
    <3>1. q = Le(Len(s), 4) \o s /\ IsUint32(Len(s))
      BY <1>2
    <3>2. Inlined(b, p, s, q)
      BY <2>2, <3>1, Zenon DEF Inlined
    <3> QED BY <3>2, ReadsInline
  <2>4. InlineLength(b, code, p) = Len(s) /\ Operand(code) = 4
    BY <1>1, <2>3 DEF InlineLength, Operand
  <2>5. CASE op[1] = "inlineString"
    <3>1. \A t : Effect(b, 7, p, t) = Push(t, LuaStr(s)) /\ Perform(t, op) = Push(t, LuaStr(s))
      BY <1>2, <2>3, <2>5 DEF Effect, Perform
    <3> QED BY <1>1, <2>1, <2>3, <2>4, <2>5, <3>1 DEF Reads
  <2>6. CASE op[1] = "setFieldInline"
    <3>1. \A t : /\ Effect(b, 12, p, t) = SetsField(t, LuaStr(s))
                 /\ Perform(t, op) = SetsField(t, LuaStr(s))
      BY <1>2, <2>3, <2>6 DEF Effect, Perform
    <3> QED BY <1>1, <2>1, <2>3, <2>4, <2>6, <3>1 DEF Reads
  <2> QED BY <2>5, <2>6
<1>7. Means(a, op, code, q)
  BY <1>3, <1>5, <1>6 DEF Means
<1> QED BY <1>7

LEMMA OperationMeans ==
  ASSUME NEW a \in Buffers, NEW op, IsOperation(op), IsUint32(Len(a.strings) + 1)
  PROVE  \E code, q : Means(a, op, code, q)
BY NilMeans, BoolMeans, IntMeans, NumberMeans, SetIndexMeans, PopMeans, SizedMeans, StringMeans,
   InlineMeans DEF IsOperation

-----------------------------------------------------------------------------
(* A whole batch.                                                          *)

\* enc[n] is the batch after n operations, and so is perf[n] the stack
Writes(enc, ops) ==
  enc[0] = Reset /\ \A n \in 1..Len(ops) : enc[n] = Encode(enc[n - 1], ops[n])

Performs(perf, ops) ==
  perf[0] = <<>> /\ \A n \in 1..Len(ops) : perf[n] = Perform(perf[n - 1], ops[n])

LEMMA EncodeSolves ==
  ASSUME NEW ops, NEW N \in Nat
  PROVE  \E f : f = [n \in 0..N |-> IF n = 0 THEN Reset ELSE Encode(f[n - 1], ops[n])]
<1> DEFINE R(f, n) == f = [m \in 0..n |-> IF m = 0 THEN Reset ELSE Encode(f[m - 1], ops[m])]
           S == {n \in 0..N : \E f : R(f, n)}
<1>1. 0 \in S
  <2>1. R([m \in 0..0 |-> Reset], 0)
    OBVIOUS
  <2> HIDE DEF R
  <2> QED BY <2>1
<1>2. \A n \in 1..N : n - 1 \in S => n \in S
  <2> HIDE DEF R
  <2> SUFFICES ASSUME NEW n \in 1..N, n - 1 \in S PROVE \E f : R(f, n)
    OBVIOUS
  <2>1. PICK f : R(f, n - 1)
    OBVIOUS
  <2> USE DEF R
  <2> DEFINE g == [m \in 0..n |-> IF m = n THEN Encode(f[n - 1], ops[n]) ELSE f[m]]
  <2>2. \A m \in 0..n - 1 : g[m] = f[m] /\ f[m] = IF m = 0 THEN Reset ELSE Encode(f[m - 1], ops[m])
    BY <2>1
  <2>3. \A m \in 0..n : g[m] = IF m = 0 THEN Reset ELSE Encode(g[m - 1], ops[m])
    <3> SUFFICES ASSUME NEW m \in 0..n PROVE g[m] = IF m = 0 THEN Reset ELSE Encode(g[m - 1], ops[m])
      OBVIOUS
    <3>1. CASE m = 0
      <4>1. 0 \in 0..n - 1
        OBVIOUS
      <4>2. g[0] = f[0] /\ f[0] = Reset
        BY <2>2, <4>1
      <4> HIDE DEF g
      <4> QED BY <3>1, <4>2
    <3>2. CASE m # 0 /\ m # n
      <4>1. m \in 0..n - 1 /\ m - 1 \in 0..n - 1
        BY <3>2
      <4>2. g[m] = f[m] /\ g[m - 1] = f[m - 1] /\ f[m] = Encode(f[m - 1], ops[m])
        BY <2>2, <3>2, <4>1
      <4> HIDE DEF g
      <4> QED BY <3>2, <4>2
    <3>3. CASE m # 0 /\ m = n
      <4>1. n - 1 \in 0..n - 1
        OBVIOUS
      <4>2. g[n - 1] = f[n - 1] /\ g[n] = Encode(f[n - 1], ops[n])
        BY <2>2, <4>1
      <4> HIDE DEF g
      <4> QED BY <3>3, <4>2
    <3> QED BY <3>1, <3>2, <3>3
  <2>4. g = [m \in 0..n |-> g[m]]
    OBVIOUS
  <2>5. R(g, n)
    <3> HIDE DEF g
    <3> QED BY <2>3, <2>4
  <2> HIDE DEF R
  <2> QED BY <2>5
<1>3. N \in S
  <2>1. N \in 0..N
    OBVIOUS
  <2> HIDE DEF S
  <2> QED BY <1>1, <1>2, <2>1, UpTo
<1> QED BY <1>3

LEMMA PerformSolves ==
  ASSUME NEW ops, NEW N \in Nat
  PROVE  \E f : f = [n \in 0..N |-> IF n = 0 THEN <<>> ELSE Perform(f[n - 1], ops[n])]
<1> DEFINE R(f, n) == f = [m \in 0..n |-> IF m = 0 THEN <<>> ELSE Perform(f[m - 1], ops[m])]
           S == {n \in 0..N : \E f : R(f, n)}
<1>1. 0 \in S
  <2>1. R([m \in 0..0 |-> <<>>], 0)
    OBVIOUS
  <2> HIDE DEF R
  <2> QED BY <2>1
<1>2. \A n \in 1..N : n - 1 \in S => n \in S
  <2> HIDE DEF R
  <2> SUFFICES ASSUME NEW n \in 1..N, n - 1 \in S PROVE \E f : R(f, n)
    OBVIOUS
  <2>1. PICK f : R(f, n - 1)
    OBVIOUS
  <2> USE DEF R
  <2> DEFINE g == [m \in 0..n |-> IF m = n THEN Perform(f[n - 1], ops[n]) ELSE f[m]]
  <2>2. \A m \in 0..n - 1 : g[m] = f[m] /\ f[m] = IF m = 0 THEN <<>> ELSE Perform(f[m - 1], ops[m])
    BY <2>1
  <2>3. \A m \in 0..n : g[m] = IF m = 0 THEN <<>> ELSE Perform(g[m - 1], ops[m])
    <3> SUFFICES ASSUME NEW m \in 0..n PROVE g[m] = IF m = 0 THEN <<>> ELSE Perform(g[m - 1], ops[m])
      OBVIOUS
    <3>1. CASE m = 0
      <4>1. 0 \in 0..n - 1
        OBVIOUS
      <4>2. g[0] = f[0] /\ f[0] = <<>>
        BY <2>2, <4>1
      <4> HIDE DEF g
      <4> QED BY <3>1, <4>2
    <3>2. CASE m # 0 /\ m # n
      <4>1. m \in 0..n - 1 /\ m - 1 \in 0..n - 1
        BY <3>2
      <4>2. g[m] = f[m] /\ g[m - 1] = f[m - 1] /\ f[m] = Perform(f[m - 1], ops[m])
        BY <2>2, <3>2, <4>1
      <4> HIDE DEF g
      <4> QED BY <3>2, <4>2
    <3>3. CASE m # 0 /\ m = n
      <4>1. n - 1 \in 0..n - 1
        OBVIOUS
      <4>2. g[n - 1] = f[n - 1] /\ g[n] = Perform(f[n - 1], ops[n])
        BY <2>2, <4>1
      <4> HIDE DEF g
      <4> QED BY <3>3, <4>2
    <3> QED BY <3>1, <3>2, <3>3
  <2>4. g = [m \in 0..n |-> g[m]]
    OBVIOUS
  <2>5. R(g, n)
    <3> HIDE DEF g
    <3> QED BY <2>3, <2>4
  <2> HIDE DEF R
  <2> QED BY <2>5
<1>3. N \in S
  <2>1. N \in 0..N
    OBVIOUS
  <2> HIDE DEF S
  <2> QED BY <1>1, <1>2, <2>1, UpTo
<1> QED BY <1>3

LEMMA Encoding ==
  ASSUME NEW ops, Len(ops) \in Nat
  PROVE  \E enc : Writes(enc, ops) /\ EncodeAll(ops) = enc[Len(ops)]
<1> DEFINE R(f) == f = [n \in 0..Len(ops) |-> IF n = 0 THEN Reset ELSE Encode(f[n - 1], ops[n])]
           g == CHOOSE f : R(f)
<1>1. EncodeAll(ops) = g[Len(ops)]
  BY DEF EncodeAll
<1>2. R(g)
  <2>1. \E f : R(f)
    BY EncodeSolves
  <2> HIDE DEF R
  <2> QED BY <2>1
<1> HIDE DEF g
<1>3. g[0] = Reset /\ \A n \in 1..Len(ops) : g[n] = Encode(g[n - 1], ops[n])
  BY <1>2
<1> QED BY <1>1, <1>3 DEF Writes

LEMMA Performing ==
  ASSUME NEW ops, Len(ops) \in Nat
  PROVE  \E perf : Performs(perf, ops) /\ Performed(ops) = perf[Len(ops)]
<1> DEFINE R(f) == f = [n \in 0..Len(ops) |-> IF n = 0 THEN <<>> ELSE Perform(f[n - 1], ops[n])]
           g == CHOOSE f : R(f)
<1>1. Performed(ops) = g[Len(ops)]
  BY DEF Performed
<1>2. R(g)
  <2>1. \E f : R(f)
    BY PerformSolves
  <2> HIDE DEF R
  <2> QED BY <2>1
<1> HIDE DEF g
<1>3. g[0] = <<>> /\ \A n \in 1..Len(ops) : g[n] = Perform(g[n - 1], ops[n])
  BY <1>2
<1> QED BY <1>1, <1>3 DEF Performs

LEMMA FewerFit ==
  ASSUME NEW N, IsUint32(N), NEW n \in Nat, n <= N
  PROVE  IsUint32(n)
<1>1. N \in Nat /\ Above24(N) < 256
  BY DEF IsUint32
<1>2. \A x \in Nat, y \in Nat : x <= y => x \div 256 <= y \div 256 /\ x \div 256 \in Nat
  OBVIOUS
<1>3. Above24(n) \in Nat /\ Above24(N) \in Nat /\ Above24(n) <= Above24(N)
  BY <1>1, <1>2 DEF Above24
<1>4. Above24(n) < 256
  BY <1>1, <1>3
<1> QED BY <1>4 DEF IsUint32

\* the n-th operation has been added
Added(enc, ops, n) ==
  /\ enc[n] \in Buffers /\ Extends(enc[n - 1], enc[n])
  /\ Len(enc[n - 1].buf) < Len(enc[n].buf)
  /\ \E code, q : Means(enc[n - 1], ops[n], code, q)

LEMMA OneAdded ==
  ASSUME NEW a \in Buffers, NEW op, NEW c, c = Encode(a, op), NEW code, NEW q, Means(a, op, code, q)
  PROVE  /\ c \in Buffers /\ Extends(a, c) /\ Len(a.buf) < Len(c.buf)
         /\ Len(c.strings) <= Len(a.strings) + 1
<1>1. q \in Seq(Byte) /\ Put(a, c, code, q) /\ Anchors(a, c)
  BY DEF Means
<1>2. c \in Buffers /\ Len(c.buf) = Len(a.buf) + 1 + Len(q)
  BY <1>1 DEF Put
<1>3. Len(q) \in Nat /\ Len(a.buf) \in Nat
  BY <1>1 DEF Buffers
<1>4. Len(a.buf) < Len(c.buf)
  BY <1>2, <1>3
<1> QED BY <1>1, <1>2, <1>4, PutExtends

LEMMA AllAdded ==
  ASSUME NEW ops, IsUint32(Len(ops)), \A n \in 1..Len(ops) : IsOperation(ops[n]),
         NEW enc, Writes(enc, ops)
  PROVE  /\ enc[0] \in Buffers /\ Len(enc[0].buf) = 0
         /\ \A n \in 1..Len(ops) : Added(enc, ops, n)
<1> DEFINE S == {n \in 0..Len(ops) : /\ enc[n] \in Buffers /\ Len(enc[n].strings) <= n
                                     /\ n > 0 => Added(enc, ops, n)}
<1>1. Len(ops) \in Nat
  BY DEF IsUint32
<1>2. enc[0] = [buf |-> <<>>, strings |-> <<>>]
  BY DEF Writes, Reset
<1>3. enc[0] \in Buffers /\ Len(enc[0].buf) = 0 /\ Len(enc[0].strings) <= 0
  BY <1>2 DEF Buffers
<1>4. 0 \in S
  BY <1>1, <1>3
<1>5. \A n \in 1..Len(ops) : n - 1 \in S => n \in S
  <2> SUFFICES ASSUME NEW n \in 1..Len(ops), n - 1 \in S PROVE n \in S
    OBVIOUS
  <2>1. PICK a \in Buffers : a = enc[n - 1] /\ Len(a.strings) <= n - 1
    OBVIOUS
  <2>2. PICK op, c : op = ops[n] /\ c = Encode(a, op)
    OBVIOUS
  <2>3. IsOperation(op) /\ enc[n] = c
    BY <2>1, <2>2 DEF Writes
  <2>4. IsUint32(Len(a.strings) + 1)
    <3>1. PICK m \in Nat : m = Len(a.strings) + 1
      BY DEF Buffers
    <3>2. m <= Len(ops)
      BY <1>1, <2>1, <3>1 DEF Buffers
    <3>3. IsUint32(m)
      BY <3>2, FewerFit
    <3> QED BY <3>1, <3>3
  <2>5. PICK code, q : Means(a, op, code, q)
    BY <2>3, <2>4, OperationMeans
  <2>6. /\ c \in Buffers /\ Extends(a, c) /\ Len(a.buf) < Len(c.buf)
        /\ Len(c.strings) <= Len(a.strings) + 1
    BY <2>2, <2>5, OneAdded
  <2>7. Added(enc, ops, n)
    BY <2>1, <2>2, <2>3, <2>5, <2>6 DEF Added
  <2>8. Len(c.strings) <= n
    BY <1>1, <2>1, <2>6 DEF Buffers
  <2> QED BY <2>3, <2>6, <2>7, <2>8
<1>6. \A n \in 0..Len(ops) : n \in S
  <2> HIDE DEF S
  <2> QED BY <1>1, <1>4, <1>5, UpTo
<1> QED BY <1>1, <1>3, <1>6

\* What follows an operation leaves it as it is.
Lasting(enc, N, n) ==
  /\ enc[n] \in Buffers /\ Extends(enc[n], enc[N])
  /\ Len(enc[n].buf) + (N - n) <= Len(enc[N].buf)

LEMMA AllKept ==
  ASSUME NEW ops, Len(ops) \in Nat, NEW enc, enc[0] \in Buffers,
         \A n \in 1..Len(ops) : Added(enc, ops, n)
  PROVE  \A n \in 0..Len(ops) : Lasting(enc, Len(ops), n)
<1> DEFINE N == Len(ops)
           S == {k \in 0..N : Lasting(enc, N, N - k)}
<1>1. \A n \in 0..N : enc[n] \in Buffers
  <2> SUFFICES ASSUME NEW n \in 0..N PROVE enc[n] \in Buffers
    OBVIOUS
  <2>1. CASE n = 0
    BY <2>1
  <2>2. CASE n # 0
    <3>1. Added(enc, ops, n)
      BY <2>2
    <3> QED BY <3>1 DEF Added
  <2> QED BY <2>1, <2>2
<1>2. 0 \in S
  <2>1. enc[N] \in Buffers
    BY <1>1
  <2>2. Extends(enc[N], enc[N]) /\ Len(enc[N].buf) \in Nat
    BY <2>1 DEF Extends, Buffers
  <2>3. Lasting(enc, N, N)
    BY <2>1, <2>2 DEF Lasting
  <2> QED BY <2>3
<1>3. \A k \in 1..N : k - 1 \in S => k \in S
  <2> SUFFICES ASSUME NEW k \in 1..N, Lasting(enc, N, N - (k - 1)) PROVE Lasting(enc, N, N - k)
    OBVIOUS
  <2>1. PICK n \in 1..N : n = N - (k - 1)
    OBVIOUS
  <2>2. N - k = n - 1 /\ n - 1 \in 0..N
    BY <2>1
  <2>3. PICK a \in Buffers, b \in Buffers, c \in Buffers : a = enc[n - 1] /\ b = enc[n] /\ c = enc[N]
    BY <1>1, <2>2
  <2>4. Extends(a, b) /\ Len(a.buf) < Len(b.buf)
    BY <2>3 DEF Added
  <2>5. Extends(b, c) /\ Len(b.buf) + (N - n) <= Len(c.buf)
    BY <2>1, <2>3 DEF Lasting
  <2>6. Extends(a, c)
    BY <2>4, <2>5, ExtendsOn
  <2>7. Len(a.buf) + (N - (n - 1)) <= Len(c.buf)
    <3>0. Len(a.buf) \in Nat /\ Len(b.buf) \in Nat /\ Len(c.buf) \in Nat
      BY DEF Buffers
    <3>1. PICK x \in Nat, y \in Nat, z \in Nat : x = Len(a.buf) /\ y = Len(b.buf) /\ z = Len(c.buf)
      BY <3>0, Zenon
    <3>2. PICK m \in Nat : m = N
      OBVIOUS
    <3>3. n \in 1..m /\ x < y /\ y + (m - n) <= z
      BY <2>4, <2>5, <3>1, <3>2
    <3>4. x + (m - (n - 1)) <= z
      BY <3>3
    <3> QED BY <3>1, <3>2, <3>4
  <2>8. Lasting(enc, N, n - 1)
    BY <2>3, <2>6, <2>7 DEF Lasting
  <2> QED BY <2>2, <2>8
<1>4. \A k \in 0..N : k \in S
  <2> HIDE DEF S, N
  <2>1. N \in Nat
    BY DEF N
  <2> QED BY <1>2, <1>3, <2>1, UpTo
<1>5. \A n \in 0..N : N - n \in 0..N /\ N - (N - n) = n
  OBVIOUS
<1> QED BY <1>4, <1>5

\* An operation is run as it was meant.
LEMMA Runs ==
  ASSUME NEW a \in Buffers, NEW op, NEW c, c = Encode(a, op), NEW code, NEW q,
         Means(a, op, code, q), NEW b \in Buffers, Extends(c, b), NEW s
  PROVE  Step(b, Reached(Len(a.buf), s)) = Reached(Len(c.buf), Perform(s, op))
<1>1. /\ q \in Seq(Byte) /\ Put(a, c, code, q) /\ code \in 1..14
      /\ Stands(b, Len(a.buf), code, q) => Reads(b, Len(a.buf) + 1, code, q, op)
  BY DEF Means
<1>2. PICK p \in Nat : p = Len(a.buf)
  BY DEF Buffers
<1>3. Stands(b, p, code, q)
  BY <1>1, <1>2, PutStands
<1>4. Reads(b, p + 1, code, q, op)
  BY <1>1, <1>2, <1>3
<1>5. Behind(b, p, code, q)
  BY <1>1, <1>3, <1>4, IsBehind DEF Reads
<1>6. Step(b, Reached(p, s)) = Reached(p + 1 + Len(q), Effect(b, code, p + 1, s))
  BY ONLY <1>3, <1>5, StepIs
<1>7. Effect(b, code, p + 1, s) = Perform(s, op)
  BY <1>4 DEF Reads
<1>8. Len(c.buf) = p + 1 + Len(q)
  BY <1>1, <1>2 DEF Put
<1> QED BY <1>2, <1>6, <1>7, <1>8

\* The interpreter reads the whole buffer and has then done what ops say.
LEMMA BatchRuns ==
  ASSUME NEW ops, IsUint32(Len(ops)), \A n \in 1..Len(ops) : IsOperation(ops[n])
  PROVE  Pushed(ops) = Reached(Len(EncodeAll(ops).buf), Performed(ops))
<1> DEFINE N == Len(ops)
<1>1. N \in Nat
  BY DEF IsUint32
<1>2. PICK enc : Writes(enc, ops) /\ EncodeAll(ops) = enc[N]
  BY <1>1, Encoding
<1>3. PICK perf : Performs(perf, ops) /\ Performed(ops) = perf[N]
  BY <1>1, Performing
<1>4. /\ enc[0] \in Buffers /\ Len(enc[0].buf) = 0
      /\ \A n \in 1..N : Added(enc, ops, n)
  BY <1>2, AllAdded
<1>5. \A n \in 0..N : Lasting(enc, N, n)
  BY <1>1, <1>4, AllKept
<1>6. PICK b \in Buffers : b = enc[N]
  BY <1>1, <1>5 DEF Lasting
<1>7. PICK L \in Nat : L = Len(b.buf)
  BY DEF Buffers
<1>8. \A n \in 0..N : Len(enc[n].buf) \in Nat /\ Len(enc[n].buf) + (N - n) <= L
  BY <1>5, <1>6, <1>7 DEF Lasting, Buffers
<1>9. L >= N
  BY <1>1, <1>4, <1>8
<1> DEFINE at == [n \in 0..N |-> Reached(Len(enc[n].buf), perf[n])]
           M(k) == IF k <= N THEN k ELSE N
           R(f) == f = [k \in 0..Len(b.buf) |->
                     IF k = 0 THEN [pos |-> 0, stack |-> <<>>, ok |-> TRUE]
                     ELSE LET st == f[k - 1]
                          IN  IF st.ok /\ st.pos < Len(b.buf) THEN Step(b, st) ELSE st]
           g == CHOOSE f : R(f)
           ran == [k \in 0..L |-> at[M(k)]]
<1>10. \A n \in 1..N : Step(b, at[n - 1]) = at[n]
  <2> SUFFICES ASSUME NEW n \in 1..N PROVE Step(b, at[n - 1]) = at[n]
    OBVIOUS
  <2>1. PICK a, c, op, s : a = enc[n - 1] /\ c = enc[n] /\ op = ops[n] /\ s = perf[n - 1]
    OBVIOUS
  <2>2. c = Encode(a, op) /\ perf[n] = Perform(s, op)
    BY <1>2, <1>3, <2>1 DEF Writes, Performs
  <2>3. n - 1 \in 0..N /\ n \in 0..N
    BY <1>1
  <2>4. a \in Buffers /\ Extends(c, b)
    BY <1>5, <1>6, <2>1, <2>3 DEF Lasting
  <2>5. PICK code, q : Means(a, op, code, q)
    BY <1>4, <2>1 DEF Added
  <2>6. Step(b, Reached(Len(a.buf), s)) = Reached(Len(c.buf), Perform(s, op))
    BY <2>2, <2>4, <2>5, Runs
  <2>7. at[n - 1] = Reached(Len(a.buf), s) /\ at[n] = Reached(Len(c.buf), perf[n])
    BY <2>1, <2>3
  <2> HIDE DEF at
  <2> QED BY <2>2, <2>6, <2>7
<1>11. /\ at[0] = [pos |-> 0, stack |-> <<>>, ok |-> TRUE]
       /\ \A n \in 0..N : at[n].ok /\ (at[n].pos < L <=> n < N)
       /\ at[N] = Reached(L, perf[N])
  <2>1. \A n \in 0..N : at[n].ok /\ at[n].pos = Len(enc[n].buf)
    BY DEF Reached
  <2>2. at[0] = [pos |-> 0, stack |-> <<>>, ok |-> TRUE]
    <3>1. at[0] = Reached(Len(enc[0].buf), perf[0])
      BY <1>1
    <3>2. perf[0] = <<>> /\ Len(enc[0].buf) = 0
      BY <1>3, <1>4 DEF Performs
    <3> HIDE DEF at
    <3> QED BY <3>1, <3>2 DEF Reached
  <2>3. Len(enc[N].buf) = L
    BY <1>6, <1>7
  <2>4. \A n \in 0..N : n < N => Len(enc[n].buf) < L
    BY <1>1, <1>8
  <2>5. at[N] = Reached(L, perf[N])
    BY <1>1, <2>3
  <2> HIDE DEF at
  <2>6. \A n \in 0..N : at[n].pos < L <=> n < N
    <3> SUFFICES ASSUME NEW n \in 0..N PROVE at[n].pos < L <=> n < N
      OBVIOUS
    <3>1. CASE n = N
      BY <2>1, <2>3, <3>1
    <3>2. CASE n < N
      BY <2>1, <2>4, <3>2
    <3> QED BY <1>1, <3>1, <3>2
  <2> QED BY <2>1, <2>2, <2>5, <2>6
<1> HIDE DEF at
<1>12. \A k \in 1..L : M(k) = (IF k - 1 < N THEN M(k - 1) + 1 ELSE M(k - 1)) /\ M(k - 1) \in 0..N
                      /\ (M(k - 1) < N <=> k - 1 < N)
  BY <1>1
<1>13. \A k \in 1..L :
          at[M(k)] = IF at[M(k - 1)].ok /\ at[M(k - 1)].pos < L
                     THEN Step(b, at[M(k - 1)]) ELSE at[M(k - 1)]
  <2> SUFFICES ASSUME NEW k \in 1..L
               PROVE  at[M(k)] = IF at[M(k - 1)].ok /\ at[M(k - 1)].pos < L
                                 THEN Step(b, at[M(k - 1)]) ELSE at[M(k - 1)]
    OBVIOUS
  <2>1. PICK m \in 0..N : m = M(k - 1)
    BY <1>12
  <2>2. M(k) = (IF k - 1 < N THEN m + 1 ELSE m) /\ (m < N <=> k - 1 < N)
    BY <1>12, <2>1
  <2>3. CASE m < N
    <3>1. m + 1 \in 1..N /\ m + 1 - 1 = m /\ M(k) = m + 1
      BY <1>1, <2>2, <2>3
    <3>2. Step(b, at[m]) = at[m + 1] /\ at[m].ok /\ at[m].pos < L
      BY <1>10, <1>11, <2>3, <3>1
    <3> QED BY <2>1, <3>1, <3>2
  <2>4. CASE ~(m < N)
    <3>1. M(k) = m /\ ~(at[m].pos < L)
      BY <1>11, <2>2, <2>4
    <3> QED BY <2>1, <3>1
  <2> QED BY <2>3, <2>4
<1>14. M(0) = 0 /\ M(L) = N
  BY <1>1, <1>9
<1>15. R(ran)
  <2>1. \A k \in 0..L : ran[k] = IF k = 0 THEN [pos |-> 0, stack |-> <<>>, ok |-> TRUE]
          ELSE LET st == ran[k - 1] IN IF st.ok /\ st.pos < L THEN Step(b, st) ELSE st
    <3> SUFFICES ASSUME NEW k \in 0..L
                 PROVE  ran[k] = IF k = 0 THEN [pos |-> 0, stack |-> <<>>, ok |-> TRUE]
          ELSE LET st == ran[k - 1] IN IF st.ok /\ st.pos < L THEN Step(b, st) ELSE st
      OBVIOUS
    <3>1. CASE k = 0
      BY <1>11, <1>14, <3>1
    <3>2. CASE k # 0
      <4>1. k \in 1..L /\ ran[k] = at[M(k)] /\ ran[k - 1] = at[M(k - 1)]
        BY <3>2
      <4> HIDE DEF ran, M
      <4> QED BY <1>13, <3>2, <4>1
    <3> QED BY <3>1, <3>2
  <2>2. ran = [k \in 0..L |-> ran[k]]
    OBVIOUS
  <2> HIDE DEF ran
  <2> QED BY <1>7, <2>1, <2>2
<1>16. R(g)
  <2> HIDE DEF R, ran
  <2> QED BY <1>15
<1>17. Pushed(ops) = g[L]
  BY <1>2, <1>6, <1>7 DEF Pushed, Run
<1> HIDE DEF g
<1>18. \A k \in 0..L : g[k] = IF k = 0 THEN [pos |-> 0, stack |-> <<>>, ok |-> TRUE]
          ELSE LET st == g[k - 1] IN IF st.ok /\ st.pos < L THEN Step(b, st) ELSE st
  BY <1>7, <1>16
<1> DEFINE S == {k \in 0..L : g[k] = at[M(k)]}
<1>19. 0 \in S
  BY <1>11, <1>14, <1>18
<1>20. \A k \in 1..L : k - 1 \in S => k \in S
  <2> SUFFICES ASSUME NEW k \in 1..L, g[k - 1] = at[M(k - 1)] PROVE g[k] = at[M(k)]
    OBVIOUS
  <2> HIDE DEF M
  <2> QED BY <1>13, <1>18
<1>21. L \in S
  <2>1. L \in 0..L
    OBVIOUS
  <2> HIDE DEF S
  <2> QED BY <1>19, <1>20, <2>1, UpTo
<1>22. g[L] = Reached(L, perf[N])
  BY <1>11, <1>14, <1>21
<1> QED BY <1>2, <1>3, <1>6, <1>7, <1>17, <1>22

\* For every batch of operations that Go code can write, the interpreter in C does
\* just these, with the operands that were meant, and ends where the buffer ends:
\* numbers keep their sign and width, and no text is taken for an operation.
THEOREM BatchIsFaithful == Spec => []BatchFaithful
<1>1. Init => BatchFaithful
  BY DEF Init, NoCall, BatchFaithful
<1>2. BatchFaithful /\ [Next]_last => BatchFaithful'
  <2> SUFFICES ASSUME BatchFaithful, [Next]_last PROVE BatchFaithful'
    OBVIOUS
  <2>1. CASE \E ops \in Programs : PushBatch(ops)
    <3>1. PICK ops \in Programs : PushBatch(ops)
      BY <2>1
    <3>2. PICK ran : ran = Pushed(ops)
      OBVIOUS
    <3>3. ran = Reached(Len(EncodeAll(ops).buf), Performed(ops))
      BY <3>2, ProgramsAssumption, BatchRuns
    <3>4. last' = [call |-> "batch", ops |-> ops, bytes |-> Len(EncodeAll(ops).buf), ran |-> ran]
      BY <3>1, <3>2 DEF PushBatch, Calls
    <3>5. last'.ran = ran /\ last'.bytes = Len(EncodeAll(ops).buf) /\ last'.ops = ops
      BY <3>4
    <3>6. ran.ok /\ ran.pos = Len(EncodeAll(ops).buf) /\ ran.stack = Performed(ops)
      BY <3>3 DEF Reached
    <3> QED BY <3>5, <3>6 DEF BatchFaithful
  <2>2. CASE last'.call # "batch"
    BY <2>2 DEF BatchFaithful
  <2>3. CASE UNCHANGED last
    BY <2>3 DEF BatchFaithful
  <2> QED BY <2>1, <2>2, <2>3 DEF Next, Call, Calls, GetArgs, ReqGetHeaders, Unescape, Escape,
     PushCapture, Say, Send, Fetch
<1> QED BY <1>1, <1>2, PTL DEF Spec

-----------------------------------------------------------------------------
(* Decoding, as a recursion from the end of a string.                      *)

\* Induction downwards.
LEMMA DownTo ==
  ASSUME NEW N \in Nat, NEW S, N \in S,
         \A n \in 1..N : n \in S => n - 1 \in S
  PROVE  \A n \in 0..N : n \in S
<1> DEFINE T == {k \in 0..N : N - k \in S}
<1>1. 0 \in T
  OBVIOUS
<1>2. \A k \in 1..N : k - 1 \in T => k \in T
  <2> SUFFICES ASSUME NEW k \in 1..N, k - 1 \in T PROVE k \in T
    OBVIOUS
  <2>1. PICK n \in 1..N : n = N - (k - 1)
    OBVIOUS
  <2>2. n \in S /\ n - 1 = N - k
    BY <2>1
  <2>3. n - 1 \in S
    BY <2>2
  <2> QED BY <2>2, <2>3
<1>3. \A k \in 0..N : k \in T
  <2> HIDE DEF T
  <2> QED BY <1>1, <1>2, UpTo
<1> SUFFICES ASSUME NEW n \in 0..N PROVE n \in S
  OBVIOUS
<1>4. N - n \in T /\ N - (N - n) = n
  BY <1>3
<1> QED BY <1>4

\* the position behind what stands at i
After(s, i) == IF EscapedAt(s, i) THEN i + 3 ELSE i + 1

\* from has, for each position, what is decoded from there on.
Decodes(from, s) ==
  /\ from[Len(s) + 1] = <<>>
  /\ \A i \in 1..Len(s) : from[i] = <<StandsFor(s, i)>> \o from[After(s, i)]

LEMMA AfterIs ==
  ASSUME NEW s \in Seq(Byte), NEW i \in 1..Len(s)
  PROVE  After(s, i) \in i + 1 .. Len(s) + 1
BY DEF After, EscapedAt

LEMMA UnescapeIs ==
  ASSUME NEW s \in Seq(Byte)
  PROVE  \E from : Decodes(from, s) /\ UnescapeURI(s) = from[1]
<1> DEFINE N == Len(s)
           Next1(f, i) == IF i > N THEN <<>> ELSE <<StandsFor(s, i)>> \o f[After(s, i)]
           R(f) == f = [i \in 1 .. N + 1 |->
                     IF i > N THEN <<>>
                     ELSE IF EscapedAt(s, i) THEN <<UnHex(s[i + 1], s[i + 2])>> \o f[i + 3]
                     ELSE <<IF s[i] = Plus THEN Space ELSE s[i]>> \o f[i + 1]]
           Upper1(f, n) == /\ f = [i \in 1 .. N + 1 |-> f[i]]
                           /\ \A i \in n + 1 .. N + 1 : f[i] = Next1(f, i)
           S == {n \in 0..N : \E f : Upper1(f, n)}
<1>1. N \in Nat
  OBVIOUS
<1>2. N \in S
  <2> DEFINE f == [i \in 1 .. N + 1 |-> <<>>]
  <2>1. f[N + 1] = Next1(f, N + 1)
    BY <1>1
  <2>2. \A i \in N + 1 .. N + 1 : i = N + 1
    BY <1>1
  <2>3. Upper1(f, N)
    BY <2>1, <2>2
  <2> QED BY <1>1, <2>3
<1>3. \A n \in 1..N : n \in S => n - 1 \in S
  <2> SUFFICES ASSUME NEW n \in 1..N, NEW f, Upper1(f, n) PROVE \E h : Upper1(h, n - 1)
    BY <1>1
  <2> DEFINE h == [i \in 1 .. N + 1 |-> IF i = n THEN Next1(f, n) ELSE f[i]]
  <2>1. \A i \in n .. N : After(s, i) \in n + 1 .. N + 1
    BY <1>1, AfterIs
  <2>2. \A j \in n + 1 .. N + 1 : h[j] = f[j]
    BY <1>1
  <2>3. \A i \in n .. N + 1 : Next1(h, i) = Next1(f, i)
    BY <1>1, <2>1, <2>2
  <2>4. \A i \in n .. N + 1 : h[i] = Next1(f, i)
    <3> SUFFICES ASSUME NEW i \in n .. N + 1 PROVE h[i] = Next1(f, i)
      OBVIOUS
    <3>1. i \in 1 .. N + 1
      BY <1>1
    <3> HIDE DEF Next1
    <3>2. CASE i = n
      BY <3>1, <3>2
    <3>3. CASE i # n
      <4>1. h[i] = f[i] /\ i \in n + 1 .. N + 1
        BY <1>1, <3>1, <3>3
      <4> QED BY <4>1
    <3> QED BY <3>2, <3>3
  <2>5. \A i \in n - 1 + 1 .. N + 1 : h[i] = Next1(h, i)
    <3>1. n - 1 + 1 = n
      OBVIOUS
    <3> HIDE DEF Next1, h
    <3> QED BY <2>3, <2>4, <3>1
  <2>6. h = [i \in 1 .. N + 1 |-> h[i]]
    OBVIOUS
  <2>7. Upper1(h, n - 1)
    BY <2>5, <2>6
  <2> QED BY <2>7
<1>4. 0 \in S
  <2> HIDE DEF S, N
  <2> QED BY <1>1, <1>2, <1>3, DownTo
<1>5. \A f : R(f) <=> Upper1(f, 0)
  <2> SUFFICES ASSUME NEW f PROVE R(f) <=> Upper1(f, 0)
    OBVIOUS
  <2> DEFINE Rhs(i) == IF i > N THEN <<>>
                       ELSE IF EscapedAt(s, i) THEN <<UnHex(s[i + 1], s[i + 2])>> \o f[i + 3]
                       ELSE <<IF s[i] = Plus THEN Space ELSE s[i]>> \o f[i + 1]
  <2>1. \A i : EscapedAt(s, i) => s[i] # Plus
    BY DEF EscapedAt, Percent, Plus
  <2>2. \A i : Rhs(i) = Next1(f, i)
    <3> SUFFICES ASSUME NEW i PROVE Rhs(i) = Next1(f, i)
      OBVIOUS
    <3>1. CASE EscapedAt(s, i)
      <4>1. StandsFor(s, i) = UnHex(s[i + 1], s[i + 2]) /\ After(s, i) = i + 3
        BY <2>1, <3>1 DEF StandsFor, After
      <4> QED BY <3>1, <4>1
    <3>2. CASE ~EscapedAt(s, i)
      <4>1. StandsFor(s, i) = (IF s[i] = Plus THEN Space ELSE s[i]) /\ After(s, i) = i + 1
        BY <3>2 DEF StandsFor, After
      <4> QED BY <3>2, <4>1
    <3> QED BY <3>1, <3>2
  <2> HIDE DEF Rhs, Next1
  <2>3. R(f) <=> f = [i \in 1 .. N + 1 |-> Rhs(i)]
    BY DEF Rhs
  <2>4. (f = [i \in 1 .. N + 1 |-> Rhs(i)]) <=> Upper1(f, 0)
    BY <2>2
  <2> QED BY <2>3, <2>4
<1>6. PICK from : R(from) /\ UnescapeURI(s) = from[1]
  <2> DEFINE g == CHOOSE f : R(f)
  <2>1. UnescapeURI(s) = g[1]
    BY DEF UnescapeURI
  <2>2. \E f : R(f)
    <3> HIDE DEF R, Upper1
    <3> QED BY <1>4, <1>5
  <2>3. R(g)
    <3> HIDE DEF R
    <3> QED BY <2>2
  <2> HIDE DEF g, R
  <2> QED BY <2>1, <2>3
<1>7. Upper1(from, 0)
  <2> HIDE DEF R, Upper1
  <2> QED BY <1>5, <1>6
<1>8. Decodes(from, s)
  <2>1. \A i \in 0 + 1 .. N + 1 : from[i] = Next1(from, i)
    BY <1>7
  <2>2. from[N + 1] = Next1(from, N + 1) /\ \A i \in 1..N : from[i] = Next1(from, i)
    <3> HIDE DEF Next1
    <3> QED BY <1>1, <2>1
  <2>3. from[N + 1] = <<>>
    BY <1>1, <2>2
  <2>4. \A i \in 1..N : from[i] = <<StandsFor(s, i)>> \o from[After(s, i)]
    <3>1. \A i \in 1..N : ~(i > N)
      BY <1>1
    <3> QED BY <2>2, <3>1, Zenon
  <2> QED BY <2>3, <2>4 DEF Decodes
<1> QED BY <1>6, <1>8

-----------------------------------------------------------------------------
(* Texts made of parts.                                                    *)

\* text has the parts one behind the other; ends says where they end.
Laid(text, parts, ends) ==
  LET n == Len(parts) IN
  /\ ends \in [0..n -> Nat] /\ ends[0] = 0 /\ ends[n] = Len(text)
  /\ \A i \in 1..n : ends[i] = ends[i - 1] + Len(parts[i]) /\ ends[i] <= Len(text)
  /\ \A i \in 1..n : \A j \in 1..Len(parts[i]) : text[ends[i - 1] + j] = parts[i][j]
  /\ \A k \in 1..Len(text) :
       \E i \in 1..n : \E j \in 1..Len(parts[i]) : k = ends[i - 1] + j

Flattens(flat, parts, S) ==
  /\ flat \in [0..Len(parts) -> Seq(S)] /\ flat[0] = <<>>
  /\ \A i \in 1..Len(parts) : flat[i] = flat[i - 1] \o parts[i]

LEMMA FlattenIs ==
  ASSUME NEW S, NEW parts \in Seq(Seq(S))
  PROVE  \E flat : Flattens(flat, parts, S) /\ FlattenSeq(parts) = flat[Len(parts)]
<1> DEFINE N == Len(parts)
           R(f) == f = [i \in 1..N |-> IF i = 1 THEN parts[i] ELSE f[i - 1] \o parts[i]]
           step == [i \in 1..N |-> [x \in Seq(S) |-> x \o parts[i]]]
<1>1. N \in Nat /\ \A i \in 1..N : parts[i] \in Seq(S)
  OBVIOUS
<1>2. PICK flat : Solves(flat, N, Seq(S), <<>>, step)
  <2>1. step \in [1..N -> [Seq(S) -> Seq(S)]]
    <3>1. \A i \in 1..N, x \in Seq(S) : x \o parts[i] \in Seq(S)
      BY <1>1, ConcatProperties
    <3> QED BY <3>1
  <2>2. <<>> \in Seq(S)
    OBVIOUS
  <2> HIDE DEF step, N
  <2> QED BY <1>1, <2>1, <2>2, StepsSolve
<1>3. Flattens(flat, parts, S)
  <2>1. flat \in [0..N -> Seq(S)] /\ flat[0] = <<>> /\ \A i \in 1..N : flat[i] = step[i][flat[i - 1]]
    BY <1>2 DEF Solves
  <2>2. \A i \in 1..N : flat[i - 1] \in Seq(S)
    <3>1. \A i \in 1..N : i - 1 \in 0..N
      BY <1>1
    <3> QED BY <2>1, <3>1, Zenon
  <2>3. \A i \in 1..N : flat[i] = flat[i - 1] \o parts[i]
    BY <2>1, <2>2
  <2> QED BY <2>1, <2>3 DEF Flattens
<1>4. CASE N = 0
  <2>1. parts = <<>>
    BY <1>4
  <2>2. FlattenSeq(parts) = parts
    BY <1>4 DEF FlattenSeq
  <2> QED BY <1>3, <1>4, <2>1, <2>2 DEF Flattens
<1>5. CASE N # 0
  <2> DEFINE f == [i \in 1..N |-> flat[i]]
             g == CHOOSE h : R(h)
  <2>1. R(f)
    <3>1. \A i \in 1..N : f[i] = IF i = 1 THEN parts[i] ELSE f[i - 1] \o parts[i]
      <4> SUFFICES ASSUME NEW i \in 1..N
                   PROVE  f[i] = IF i = 1 THEN parts[i] ELSE f[i - 1] \o parts[i]
        OBVIOUS
      <4>1. f[i] = flat[i - 1] \o parts[i] /\ parts[i] \in Seq(S)
        BY <1>1, <1>3 DEF Flattens
      <4>2. CASE i = 1
        <5>1. flat[i - 1] = <<>>
          BY <1>3, <4>2 DEF Flattens
        <5> QED BY <4>1, <4>2, <5>1, ConcatEmptySeq
      <4>3. CASE i # 1
        <5>1. f[i - 1] = flat[i - 1]
          BY <1>1, <4>3
        <5> QED BY <4>1, <4>3, <5>1
      <4> QED BY <4>2, <4>3
    <3> QED BY <3>1
  <2>2. R(g)
    <3> HIDE DEF R, f
    <3> QED BY <2>1
  <2>3. FlattenSeq(parts) = g[N]
    BY <1>5 DEF FlattenSeq
  <2>4. \A i \in 0..N : i > 0 => g[i] = f[i]
    <3> DEFINE T == {i \in 0..N : i > 0 => g[i] = f[i]}
    <3>1. 0 \in T
      BY <1>1
    <3>2. \A i \in 1..N : i - 1 \in T => i \in T
      <4> SUFFICES ASSUME NEW i \in 1..N, i - 1 > 0 => g[i - 1] = f[i - 1] PROVE g[i] = f[i]
        <5> HIDE DEF f, g
        <5>1. \A i \in 1..N : i \in 0..N
          BY <1>1
        <5> QED BY <5>1
      <4>1. /\ g[i] = IF i = 1 THEN parts[i] ELSE g[i - 1] \o parts[i]
            /\ f[i] = IF i = 1 THEN parts[i] ELSE f[i - 1] \o parts[i]
        <5> HIDE DEF f, g
        <5> QED BY <2>1, <2>2
      <4> HIDE DEF f, g
      <4> QED BY <4>1
    <3> HIDE DEF T, N
    <3>3. \A i \in 0..N : i \in T
      BY <1>1, <3>1, <3>2, UpTo
    <3> QED BY <3>3 DEF T
  <2>5. g[N] = flat[N]
    <3>1. N \in 1..N
      BY <1>1, <1>5
    <3>2. g[N] = f[N]
      <4> HIDE DEF f, g
      <4> QED BY <2>4, <3>1
    <3> QED BY <3>1, <3>2
  <2> HIDE DEF f, g
  <2> QED BY <1>3, <2>3, <2>5
<1> QED BY <1>4, <1>5

LEMMA PartsLaid ==
  ASSUME NEW S, NEW parts \in Seq(Seq(S))
  PROVE  /\ FlattenSeq(parts) \in Seq(S)
         /\ \E ends : Laid(FlattenSeq(parts), parts, ends)
<1> DEFINE N == Len(parts)
<1>1. N \in Nat /\ \A i \in 1..N : parts[i] \in Seq(S) /\ Len(parts[i]) \in Nat
  OBVIOUS
<1>2. PICK flat : Flattens(flat, parts, S) /\ FlattenSeq(parts) = flat[N]
  BY FlattenIs
<1>3. \A i \in 0..N : flat[i] \in Seq(S) /\ Len(flat[i]) \in Nat
  <2>1. \A i \in 0..N : flat[i] \in Seq(S)
    BY <1>2 DEF Flattens
  <2> QED BY <2>1
<1>4. \A i \in 1..N : Joined(flat[i], flat[i - 1], parts[i])
  <2> SUFFICES ASSUME NEW i \in 1..N PROVE Joined(flat[i], flat[i - 1], parts[i])
    OBVIOUS
  <2>1. PICK a \in Seq(S), b \in Seq(S) : a = flat[i - 1] /\ b = parts[i]
    BY <1>1, <1>3
  <2>2. flat[i] = a \o b
    BY <1>2, <2>1 DEF Flattens
  <2> QED BY <2>1, <2>2, Joins
<1> DEFINE text == flat[N]
           ends == [i \in 0..N |-> Len(flat[i])]
           Begins(i) == ends[i] <= Len(text) /\ \A k \in 1..ends[i] : text[k] = flat[i][k]
           In(k, i) == \E m \in 1..i : \E j \in 1..Len(parts[m]) : k = ends[m - 1] + j
<1>0. \A i \in 1..N : i \in 0..N /\ i - 1 \in 0..N
  BY <1>1
<1>5. ends \in [0..N -> Nat] /\ ends[0] = 0 /\ ends[N] = Len(text) /\ Len(text) \in Nat
  BY <1>1, <1>2, <1>3 DEF Flattens
<1>6. \A i \in 1..N : ends[i] = ends[i - 1] + Len(parts[i])
  <2> SUFFICES ASSUME NEW i \in 1..N PROVE ends[i] = ends[i - 1] + Len(parts[i])
    OBVIOUS
  <2>1. Len(flat[i]) = Len(flat[i - 1]) + Len(parts[i])
    BY <1>4 DEF Joined
  <2>2. ends[i] = Len(flat[i]) /\ ends[i - 1] = Len(flat[i - 1])
    BY <1>0
  <2> QED BY <2>1, <2>2, Zenon
<1>7. \A i \in 0..N : Begins(i)
  <2> DEFINE T == {i \in 0..N : Begins(i)}
  <2>1. N \in T
    BY <1>1, <1>5
  <2>2. \A i \in 1..N : i \in T => i - 1 \in T
    <3> SUFFICES ASSUME NEW i \in 1..N, Begins(i) PROVE Begins(i - 1)
      <4> HIDE DEF Begins
      <4> QED BY <1>0
    <3>1. /\ ends[i] \in Nat /\ ends[i - 1] \in Nat /\ Len(parts[i]) \in Nat
          /\ ends[i] = ends[i - 1] + Len(parts[i]) /\ Len(flat[i - 1]) = ends[i - 1]
      <4>1. Len(flat[i - 1]) = ends[i - 1]
        BY <1>0
      <4> HIDE DEF ends
      <4> QED BY <1>0, <1>1, <1>5, <1>6, <4>1
    <3>2. \A k \in 1..ends[i - 1] : flat[i][k] = flat[i - 1][k]
      BY <1>4, <3>1 DEF Joined
    <3> HIDE DEF ends, text
    <3> QED BY <1>5, <3>1, <3>2
  <2> HIDE DEF T, N
  <2>3. \A i \in 0..N : i \in T
    BY <1>1, <2>1, <2>2, DownTo
  <2> QED BY <2>3 DEF T
<1>8. \A i \in 0..N : \A k \in 1..ends[i] : In(k, i)
  <2> DEFINE T == {i \in 0..N : \A k \in 1..ends[i] : In(k, i)}
  <2>1. 0 \in T
    BY <1>1, <1>5
  <2>2. \A i \in 1..N : i - 1 \in T => i \in T
    <3> SUFFICES ASSUME NEW i \in 1..N, \A k \in 1..ends[i - 1] : In(k, i - 1),
                        NEW k \in 1..ends[i]
                 PROVE  In(k, i)
      <4> HIDE DEF In, ends
      <4> QED BY <1>0
    <3>1. /\ ends[i] \in Nat /\ ends[i - 1] \in Nat /\ Len(parts[i]) \in Nat
          /\ ends[i] = ends[i - 1] + Len(parts[i])
      <4> HIDE DEF ends
      <4> QED BY <1>0, <1>1, <1>5, <1>6
    <3> HIDE DEF ends
    <3>2. CASE k <= ends[i - 1]
      <4>1. k \in 1..ends[i - 1]
        BY <3>1, <3>2
      <4>2. PICK m \in 1..i - 1 : \E j \in 1..Len(parts[m]) : k = ends[m - 1] + j
        BY <4>1
      <4>3. m \in 1..i
        OBVIOUS
      <4> QED BY <4>2, <4>3
    <3>3. CASE k > ends[i - 1]
      <4>1. PICK j \in Nat : j = k - ends[i - 1]
        BY <3>1, <3>3
      <4>2. j \in 1..Len(parts[i]) /\ k = ends[i - 1] + j
        BY <3>1, <3>3, <4>1
      <4> QED BY <4>2
    <3> QED BY <3>1, <3>2, <3>3
  <2> HIDE DEF T, N
  <2>3. \A i \in 0..N : i \in T
    BY <1>1, <2>1, <2>2, UpTo
  <2> QED BY <2>3 DEF T
<1>9. \A i \in 1..N : \A j \in 1..Len(parts[i]) : text[ends[i - 1] + j] = parts[i][j]
  <2> SUFFICES ASSUME NEW i \in 1..N, NEW j \in 1..Len(parts[i])
               PROVE  text[ends[i - 1] + j] = parts[i][j]
    OBVIOUS
  <2>1. /\ ends[i] \in Nat /\ ends[i - 1] \in Nat /\ Len(parts[i]) \in Nat
        /\ ends[i] = ends[i - 1] + Len(parts[i]) /\ Len(flat[i - 1]) = ends[i - 1]
    <3>1. Len(flat[i - 1]) = ends[i - 1]
      BY <1>0
    <3> HIDE DEF ends
    <3> QED BY <1>0, <1>1, <1>5, <1>6, <3>1
  <2>2. flat[i][ends[i - 1] + j] = parts[i][j]
    BY <1>4, <2>1 DEF Joined
  <2>3. Begins(i)
    BY <1>7
  <2> HIDE DEF ends, text
  <2>4. ends[i - 1] + j \in 1..ends[i]
    BY <2>1
  <2> QED BY <2>2, <2>3, <2>4
<1>10. Laid(text, parts, ends)
  <2>1. \A i \in 1..N : ends[i] <= Len(text)
    BY <1>1, <1>7
  <2>2. \A k \in 1..Len(text) : \E i \in 1..N : \E j \in 1..Len(parts[i]) : k = ends[i - 1] + j
    <3>1. N \in 0..N
      BY <1>1
    <3> HIDE DEF ends, text
    <3> QED BY <1>5, <1>8, <3>1
  <2> HIDE DEF ends, text
  <2> QED BY <1>5, <1>6, <1>9, <2>1, <2>2 DEF Laid
<1>11. text \in Seq(S)
  BY <1>1, <1>3
<1> HIDE DEF ends
<1> QED BY <1>2, <1>10, <1>11

-----------------------------------------------------------------------------
(* Escaping is undone.                                                     *)

Escaped(b, type) ==
  IF ShouldEscape(b, type) THEN <<Percent, UpperHex(b \div 16), UpperHex(b % 16)>> ELSE <<b>>

\* a hexadecimal digit is read as it was written
LEMMA HexDigit ==
  ASSUME NEW d \in 0..15
  PROVE  LET h == UpperHex(d)
         IN  /\ IsHex(h) /\ HexValue(h) = d
             /\ h \in Upper \cup Digits /\ h \in Byte /\ h # Percent
BY DEF UpperHex, IsHex, HexValue, HexFrom, Digits, Upper, Byte, Percent

LEMMA HexByte ==
  ASSUME NEW b \in Byte
  PROVE  /\ b \div 16 \in 0..15 /\ b % 16 \in 0..15
         /\ UnHex(UpperHex(b \div 16), UpperHex(b % 16)) = b
<1>1. b \in Int /\ b >= 0 /\ b < 256
  BY DEF Byte
<1>2. b \div 16 \in 0..15
  BY <1>1
<1>3. b % 16 \in 0..15 /\ b = (b \div 16) * 16 + (b % 16)
  <2>1. b % 16 \in 0..15
    BY <1>1
  <2>2. \A x \in Int : x = (x \div 16) * 16 + (x % 16)
    OBVIOUS
  <2> QED BY <1>1, <2>1, <2>2
<1>4. PICK x \in 0..15, y \in 0..15 : x = b \div 16 /\ y = b % 16
  BY <1>2, <1>3
<1>5. HexValue(UpperHex(x)) = x /\ HexValue(UpperHex(y)) = y
  BY HexDigit
<1>6. UnHex(UpperHex(x), UpperHex(y)) = x * 16 + y
  BY <1>5 DEF UnHex
<1>7. x * 16 + y = b
  BY <1>1, <1>3, <1>4
<1> QED BY <1>2, <1>3, <1>4, <1>6, <1>7, Zenon

LEMMA PercentEscaped == \A type : ShouldEscape(Percent, type)
BY DEF ShouldEscape, Percent, Upper, Lower, Digits

LEMMA PlusEscaped == \A type : type # 0 => ShouldEscape(Plus, type)
BY DEF ShouldEscape, Plus, Upper, Lower, Digits

\* text is s escaped; ends[i] is where the i-th byte of s has ended.
IsEscaped(text, s, type, ends) ==
  /\ text \in Seq(Byte)
  /\ Laid(text, [i \in DOMAIN s |-> Escaped(s[i], type)], ends)

LEMMA EscapeIs ==
  ASSUME NEW s \in Seq(Byte), NEW type
  PROVE  \E ends : IsEscaped(EscapeURI(s, type), s, type, ends)
<1> DEFINE parts == [i \in DOMAIN s |-> Escaped(s[i], type)]
<1>1. EscapeURI(s, type) = FlattenSeq(parts)
  BY DEF EscapeURI, Escaped
<1>2. \A b \in Byte : Escaped(b, type) \in Seq(Byte)
  <2> SUFFICES ASSUME NEW b \in Byte PROVE Escaped(b, type) \in Seq(Byte)
    OBVIOUS
  <2>1. PICK x \in Byte, y \in Byte, z \in Byte :
          x = Percent /\ y = UpperHex(b \div 16) /\ z = UpperHex(b % 16)
    <3>1. UpperHex(b \div 16) \in Byte /\ UpperHex(b % 16) \in Byte
      BY HexByte, HexDigit
    <3>2. Percent \in Byte
      BY DEF Percent, Byte
    <3> QED BY <3>1, <3>2
  <2>2. <<x, y, z>> \in Seq(Byte) /\ <<b>> \in Seq(Byte)
    OBVIOUS
  <2> QED BY <2>1, <2>2 DEF Escaped
<1>3. parts \in Seq(Seq(Byte))
  <2>1. \A i \in 1..Len(s) : Escaped(s[i], type) \in Seq(Byte)
    BY <1>2
  <2>2. DOMAIN s = 1..Len(s) /\ Len(s) \in Nat
    OBVIOUS
  <2> QED BY <2>1, <2>2
<1> HIDE DEF parts
<1>4. PICK ends : Laid(FlattenSeq(parts), parts, ends)
  BY <1>3, PartsLaid
<1>5. FlattenSeq(parts) \in Seq(Byte)
  BY <1>3, PartsLaid
<1> QED BY <1>1, <1>4, <1>5 DEF IsEscaped, parts

\* what stands in text for a byte of s
Shown(text, s, type, ends, i) ==
  LET p == ends[i - 1] IN
  /\ p \in Nat /\ ends[i] \in Nat /\ ends[i] <= Len(text)
  /\ IF ShouldEscape(s[i], type)
     THEN /\ ends[i] = p + 3 /\ text[p + 1] = Percent
          /\ text[p + 2] = UpperHex(s[i] \div 16) /\ text[p + 3] = UpperHex(s[i] % 16)
     ELSE ends[i] = p + 1 /\ text[p + 1] = s[i]

LEMMA AllShown ==
  ASSUME NEW s \in Seq(Byte), NEW type, NEW text, NEW ends, IsEscaped(text, s, type, ends)
  PROVE  /\ \A i \in 1..Len(s) : Shown(text, s, type, ends, i)
         /\ \A k \in 1..Len(text) : \E i \in 1..Len(s) :
              k \in ends[i - 1] + 1 .. ends[i]
<1> DEFINE parts == [i \in DOMAIN s |-> Escaped(s[i], type)]
           N == Len(s)
<1>1. N \in Nat /\ DOMAIN s = 1..N /\ Len(parts) = N
  OBVIOUS
<1>2. /\ ends \in [0..N -> Nat]
      /\ \A i \in 1..N : ends[i] = ends[i - 1] + Len(parts[i]) /\ ends[i] <= Len(text)
      /\ \A i \in 1..N : \A j \in 1..Len(parts[i]) : text[ends[i - 1] + j] = parts[i][j]
      /\ \A k \in 1..Len(text) :
           \E i \in 1..N : \E j \in 1..Len(parts[i]) : k = ends[i - 1] + j
  <2>1. Laid(text, parts, ends)
    BY DEF IsEscaped
  <2> HIDE DEF parts, N
  <2> QED BY <1>1, <2>1 DEF Laid
<1>3. \A i \in 1..N : parts[i] = Escaped(s[i], type)
  BY <1>1
<1>4. \A i \in 1..N : ends[i - 1] \in Nat /\ ends[i] \in Nat
  BY <1>1, <1>2
<1>5. \A i \in 1..N : Len(parts[i]) = IF ShouldEscape(s[i], type) THEN 3 ELSE 1
  BY <1>3 DEF Escaped
<1> HIDE DEF parts
<1>6. ASSUME NEW i \in 1..N PROVE Shown(text, s, type, ends, i)
  <2>1. CASE ShouldEscape(s[i], type)
    <3>1. parts[i] = <<Percent, UpperHex(s[i] \div 16), UpperHex(s[i] % 16)>>
      BY <1>3, <2>1 DEF Escaped
    <3>2. Len(parts[i]) = 3
      BY <1>5, <2>1
    <3>3. \A j \in 1..3 : text[ends[i - 1] + j] = parts[i][j]
      BY <1>2, <3>2
    <3>4. text[ends[i - 1] + 1] = parts[i][1] /\ text[ends[i - 1] + 2] = parts[i][2]
          /\ text[ends[i - 1] + 3] = parts[i][3]
      BY <3>3
    <3>5. ends[i] = ends[i - 1] + 3 /\ ends[i] <= Len(text)
      BY <1>2, <3>2
    <3> QED BY <1>4, <2>1, <3>1, <3>4, <3>5 DEF Shown
  <2>2. CASE ~ShouldEscape(s[i], type)
    <3>1. parts[i] = <<s[i]>>
      BY <1>3, <2>2 DEF Escaped
    <3>2. Len(parts[i]) = 1
      BY <1>5, <2>2
    <3>3. text[ends[i - 1] + 1] = parts[i][1]
      BY <1>2, <3>2
    <3>4. ends[i] = ends[i - 1] + 1 /\ ends[i] <= Len(text)
      BY <1>2, <3>2
    <3> QED BY <1>4, <2>2, <3>1, <3>3, <3>4 DEF Shown
  <2> QED BY <2>1, <2>2
<1>7. ASSUME NEW k \in 1..Len(text) PROVE \E i \in 1..N : k \in ends[i - 1] + 1 .. ends[i]
  <2>1. PICK i \in 1..N : \E j \in 1..Len(parts[i]) : k = ends[i - 1] + j
    BY <1>2
  <2>2. ends[i] = ends[i - 1] + Len(parts[i]) /\ ends[i - 1] \in Nat /\ Len(parts[i]) \in Nat
    <3>1. ends[i] = ends[i - 1] + Len(parts[i])
      BY <1>2
    <3>2. Len(parts[i]) \in Nat
      BY <1>5
    <3> QED BY <1>4, <3>1, <3>2
  <2>3. k \in ends[i - 1] + 1 .. ends[i]
    BY <2>1, <2>2
  <2> QED BY <2>3
<1> QED BY <1>6, <1>7

\* s as it comes back
Back(s, type) == [i \in DOMAIN s |-> IF type = 0 /\ s[i] = Plus THEN Space ELSE s[i]]

LEMMA PartRead ==
  ASSUME NEW s \in Seq(Byte), NEW type, NEW text, NEW ends, IsEscaped(text, s, type, ends),
         NEW i \in 1..Len(s), NEW p, p = ends[i - 1]
  PROVE  /\ p + 1 \in 1..Len(text) /\ After(text, p + 1) = ends[i] + 1
         /\ StandsFor(text, p + 1) = Back(s, type)[i]
         /\ EscapedAt(text, p + 1) <=> ShouldEscape(s[i], type)
<1>1. s[i] \in Byte /\ i \in DOMAIN s
  OBVIOUS
<1>2. text \in Seq(Byte) /\ Len(text) \in Nat
  BY DEF IsEscaped
<1>3. Shown(text, s, type, ends, i)
  BY AllShown
<1>4. p \in Nat /\ ends[i] \in Nat /\ ends[i] <= Len(text)
  BY <1>3 DEF Shown
<1>5. PICK b \in Byte : b = s[i]
  BY <1>1
<1>6. Back(s, type)[i] = IF type = 0 /\ b = Plus THEN Space ELSE b
  BY <1>1, <1>5 DEF Back
<1>7. CASE ShouldEscape(b, type)
  <2>1. /\ ends[i] = p + 3 /\ text[p + 1] = Percent
        /\ text[p + 2] = UpperHex(b \div 16) /\ text[p + 3] = UpperHex(b % 16)
    BY <1>3, <1>5, <1>7 DEF Shown
  <2>2. IsHex(text[p + 2]) /\ IsHex(text[p + 3]) /\ UnHex(text[p + 2], text[p + 3]) = b
    BY <2>1, HexByte, HexDigit
  <2>3. p + 1 + 1 = p + 2 /\ p + 1 + 2 = p + 3 /\ p + 1 + 2 <= Len(text)
        /\ p + 1 + 3 = ends[i] + 1 /\ p + 1 \in 1..Len(text)
    <3>1. PICK e \in Nat, n \in Nat : e = ends[i] /\ n = Len(text)
      BY <1>2, <1>4
    <3>2. e = p + 3 /\ e <= n
      BY <1>4, <2>1, <3>1
    <3> HIDE <2>1
    <3> QED BY <1>4, <3>1, <3>2
  <2>4. EscapedAt(text, p + 1)
    BY <2>1, <2>2, <2>3 DEF EscapedAt
  <2>5. After(text, p + 1) = ends[i] + 1
    BY <2>3, <2>4 DEF After
  <2>6. StandsFor(text, p + 1) = b
    <3>1. text[p + 1] # Plus
      BY <2>1 DEF Percent, Plus
    <3> QED BY <2>2, <2>3, <2>4, <3>1 DEF StandsFor
  <2>7. ~(type = 0 /\ b = Plus)
    <3>1. ~ShouldEscape(Plus, 0)
      BY DEF ShouldEscape, Plus, Space, Percent
    <3> QED BY <1>7, <3>1
  <2> QED BY <1>5, <1>6, <1>7, <2>3, <2>4, <2>5, <2>6, <2>7
<1>8. CASE ~ShouldEscape(b, type)
  <2>1. ends[i] = p + 1 /\ text[p + 1] = b
    BY <1>3, <1>5, <1>8 DEF Shown
  <2>2. ~EscapedAt(text, p + 1)
    BY <1>8, <2>1, PercentEscaped DEF EscapedAt
  <2>3. After(text, p + 1) = ends[i] + 1 /\ p + 1 \in 1..Len(text)
    BY <1>2, <1>4, <2>1, <2>2 DEF After
  <2>4. StandsFor(text, p + 1) = IF b = Plus THEN Space ELSE b
    BY <2>1, <2>2 DEF StandsFor
  <2>5. b = Plus => type = 0
    BY <1>8, PlusEscaped
  <2> QED BY <1>5, <1>6, <1>8, <2>2, <2>3, <2>4, <2>5
<1> QED BY <1>7, <1>8

LEMMA UnescapeUndoes ==
  ASSUME NEW s \in Seq(Byte), NEW type
  PROVE  UnescapeURI(EscapeURI(s, type)) = Back(s, type)
<1> DEFINE N == Len(s)
<1>1. N \in Nat /\ \A i \in 1..N : i \in 0..N /\ i - 1 \in 0..N
  OBVIOUS
<1>2. PICK text, ends : text = EscapeURI(s, type) /\ IsEscaped(text, s, type, ends)
  BY EscapeIs
<1>3. text \in Seq(Byte)
  BY <1>2 DEF IsEscaped
<1>4. PICK from : Decodes(from, text) /\ UnescapeURI(text) = from[1]
  BY <1>3, UnescapeIs
<1>5. PICK B \in Seq(Byte) : B = Back(s, type) /\ Len(B) = N
  <2>0. Space \in Byte
    BY DEF Byte, Space
  <2>1. \A i \in 1..N : s[i] \in Byte /\ Space \in Byte
    BY <2>0
  <2>2. DOMAIN s = 1..N
    OBVIOUS
  <2>3. Back(s, type) \in [1..N -> Byte]
    BY <2>1, <2>2 DEF Back
  <2> QED BY <1>1, <2>3
<1>6. ends[0] = 0 /\ ends[N] = Len(text)
  <2>1. Laid(text, [i \in DOMAIN s |-> Escaped(s[i], type)], ends)
    BY <1>2 DEF IsEscaped
  <2>2. Len([i \in DOMAIN s |-> Escaped(s[i], type)]) = N
    OBVIOUS
  <2> QED BY <2>1, <2>2 DEF Laid
<1> DEFINE Good == {i \in 0..N : from[ends[i] + 1] = SubSeq(B, i + 1, N)}
<1>7. N \in Good
  <2>1. SubSeq(B, N + 1, N) = <<>>
    BY <1>1, <1>5, SubSeqEmpty
  <2>2. from[ends[N] + 1] = <<>>
    BY <1>4, <1>6 DEF Decodes
  <2>3. N \in 0..N
    BY <1>1
  <2> QED BY <2>1, <2>2, <2>3
<1>8. \A i \in 1..N : i \in Good => i - 1 \in Good
  <2> SUFFICES ASSUME NEW i \in 1..N, from[ends[i] + 1] = SubSeq(B, i + 1, N)
               PROVE  from[ends[i - 1] + 1] = SubSeq(B, i, N)
    <3>1. \A i \in 1..N : i - 1 + 1 = i
      OBVIOUS
    <3> QED BY <1>1, <3>1
  <2>1. PICK p : p = ends[i - 1]
    OBVIOUS
  <2>2. /\ p + 1 \in 1..Len(text) /\ After(text, p + 1) = ends[i] + 1
        /\ StandsFor(text, p + 1) = B[i]
    BY <1>2, <1>5, <2>1, PartRead
  <2>3. from[p + 1] = <<StandsFor(text, p + 1)>> \o from[After(text, p + 1)]
    BY <1>4, <2>2 DEF Decodes
  <2>4. SubSeq(B, i, N) = <<B[i]>> \o SubSeq(B, i + 1, N)
    BY <1>1, <1>5, SubSeqRecursiveFirst
  <2> QED BY <2>1, <2>2, <2>3, <2>4
<1>9. 0 \in Good
  <2> HIDE DEF Good, N
  <2>1. \A i \in 0..N : i \in Good
    BY <1>1, <1>7, <1>8, DownTo
  <2> QED BY <1>1, <2>1
<1>10. from[0 + 1] = SubSeq(B, 0 + 1, N)
  BY <1>6, <1>9
<1>11. SubSeq(B, 1, N) = B
  BY <1>5, SubSeqFull
<1> QED BY <1>2, <1>4, <1>5, <1>10, <1>11

\* the parser of query strings decodes it as well
LEMMA EscapedDecodes ==
  ASSUME NEW s \in Seq(Byte), NEW type
  PROVE  Decoded(EscapeURI(s, type)) = UnescapeURI(EscapeURI(s, type))
<1>1. PICK text, ends : text = EscapeURI(s, type) /\ IsEscaped(text, s, type, ends)
  BY EscapeIs
<1>2. text \in Seq(Byte)
  BY <1>1 DEF IsEscaped
<1>3. ASSUME NEW k \in 1..Len(text), text[k] = Percent PROVE EscapedAt(text, k)
  <2>1. PICK i \in 1..Len(s) : k \in ends[i - 1] + 1 .. ends[i]
    BY <1>1, AllShown
  <2>2. PICK p : p = ends[i - 1]
    OBVIOUS
  <2>3. Shown(text, s, type, ends, i)
    BY <1>1, AllShown
  <2>4. p \in Nat /\ ends[i] \in Nat
    BY <2>2, <2>3 DEF Shown
  <2>5. EscapedAt(text, p + 1) <=> ShouldEscape(s[i], type)
    BY <1>1, <2>2, PartRead
  <2>6. PICK b \in Byte : b = s[i]
    OBVIOUS
  <2>7. CASE ShouldEscape(b, type)
    <3>1. /\ ends[i] = p + 3
          /\ text[p + 2] = UpperHex(b \div 16) /\ text[p + 3] = UpperHex(b % 16)
      BY <2>2, <2>3, <2>6, <2>7 DEF Shown
    <3>2. text[p + 2] # Percent /\ text[p + 3] # Percent
      BY <3>1, HexByte, HexDigit
    <3>3. k = p + 1 \/ k = p + 2 \/ k = p + 3
      <4>1. k \in p + 1 .. p + 3
        BY <2>1, <2>2, <3>1
      <4> QED BY <2>4, <4>1
    <3>4. k = p + 1
      BY <1>3, <3>2, <3>3
    <3> QED BY <2>5, <2>6, <2>7, <3>4
  <2>8. CASE ~ShouldEscape(b, type)
    <3>1. ends[i] = p + 1 /\ text[p + 1] = b
      BY <2>2, <2>3, <2>6, <2>8 DEF Shown
    <3>2. k = p + 1
      BY <2>1, <2>2, <2>4, <3>1
    <3> QED BY <1>3, <2>8, <3>1, <3>2, PercentEscaped
  <2> QED BY <2>7, <2>8
<1>4. QueryDecodes(text)
  BY <1>2, <1>3 DEF QueryDecodes
<1> QED BY <1>1, <1>4 DEF Decoded

\* a component has unreserved characters and sequences alone
LEMMA ComponentSafe ==
  ASSUME NEW s \in Seq(Byte), NEW text, text = EscapeURI(s, 2), NEW k \in DOMAIN text
  PROVE  text[k] \in Upper \cup Lower \cup Digits \cup {45, 46, 95, 126} \/ EscapedAt(text, k)
<1>1. PICK ends : IsEscaped(text, s, 2, ends)
  BY EscapeIs
<1>2. k \in 1..Len(text)
  BY <1>1 DEF IsEscaped
<1>3. PICK i \in 1..Len(s) : k \in ends[i - 1] + 1 .. ends[i]
  BY <1>1, <1>2, AllShown
<1>4. PICK p : p = ends[i - 1]
  OBVIOUS
<1>5. Shown(text, s, 2, ends, i)
  BY <1>1, AllShown
<1>6. p \in Nat /\ ends[i] \in Nat
  BY <1>4, <1>5 DEF Shown
<1>7. EscapedAt(text, p + 1) <=> ShouldEscape(s[i], 2)
  BY <1>1, <1>4, PartRead
<1>8. PICK b \in Byte : b = s[i]
  OBVIOUS
<1>9. CASE ShouldEscape(b, 2)
  <2>1. /\ ends[i] = p + 3
        /\ text[p + 2] = UpperHex(b \div 16) /\ text[p + 3] = UpperHex(b % 16)
    BY <1>4, <1>5, <1>8, <1>9 DEF Shown
  <2>2. text[p + 2] \in Upper \cup Digits /\ text[p + 3] \in Upper \cup Digits
    BY <2>1, HexByte, HexDigit
  <2>3. k = p + 1 \/ k = p + 2 \/ k = p + 3
    BY <1>3, <1>4, <1>6, <2>1
  <2> QED BY <1>7, <1>8, <1>9, <2>2, <2>3
<1>10. CASE ~ShouldEscape(b, 2)
  <2>1. ends[i] = p + 1 /\ text[p + 1] = b
    BY <1>4, <1>5, <1>8, <1>10 DEF Shown
  <2>2. k = p + 1
    BY <1>3, <1>4, <1>6, <2>1
  <2>3. b \in Upper \cup Lower \cup Digits \cup {45, 46, 95, 126}
    BY <1>10 DEF ShouldEscape
  <2> QED BY <2>1, <2>2, <2>3
<1> QED BY <1>9, <1>10

-----------------------------------------------------------------------------
(* Every sequence is decoded where it stands.                              *)

\* below has, for each member of S, those before it.
Ordered(S, below) ==
  /\ below \in [S -> SUBSET S]
  /\ \A x \in S : x \notin below[x] /\ \A y \in below[x] : below[y] \subseteq below[x]
  /\ \A x, y \in S : x = y \/ x \in below[y] \/ y \in below[x]

\* the number of those before it tells one from another
LEMMA RanksDiffer ==
  ASSUME NEW S, IsFiniteSet(S), NEW below, Ordered(S, below), NEW x \in S
  PROVE  /\ Cardinality(below[x]) + 1 \in 1..Cardinality(S)
         /\ \A y \in S : Cardinality(below[y]) = Cardinality(below[x]) => y = x
<1>1. \A y \in S : IsFiniteSet(below[y]) /\ Cardinality(below[y]) \in Nat
  <2> SUFFICES ASSUME NEW y \in S PROVE IsFiniteSet(below[y]) /\ Cardinality(below[y]) \in Nat
    OBVIOUS
  <2>1. below[y] \in SUBSET S
    BY DEF Ordered
  <2>2. IsFiniteSet(below[y])
    BY <2>1, FS_Subset
  <2> QED BY <2>2, FS_CardinalityType
<1>2. ASSUME NEW y \in S, NEW T \in SUBSET S, IsFiniteSet(T), y \in T, below[y] \subseteq T
      PROVE  Cardinality(below[y]) + 1 <= Cardinality(T) /\ Cardinality(T) \in Nat
  <2>1. y \notin below[y]
    BY DEF Ordered
  <2>2. Cardinality(below[y] \cup {y}) = Cardinality(below[y]) + 1
    BY <1>1, <2>1, FS_AddElement
  <2>3. below[y] \cup {y} \in SUBSET T
    BY <1>2
  <2>4. Cardinality(below[y] \cup {y}) <= Cardinality(T)
    BY <1>2, <2>3, FS_Subset
  <2>5. Cardinality(T) \in Nat
    BY <1>2, FS_CardinalityType
  <2> QED BY <2>2, <2>4, <2>5
<1>3. Cardinality(below[x]) + 1 \in 1..Cardinality(S)
  <2>1. below[x] \subseteq S /\ S \in SUBSET S
    BY DEF Ordered
  <2>2. Cardinality(below[x]) + 1 <= Cardinality(S) /\ Cardinality(S) \in Nat
    BY <1>2, <2>1
  <2> QED BY <1>1, <2>2
<1>4. ASSUME NEW y \in S, NEW z \in S, y \in below[z]
      PROVE  Cardinality(below[y]) < Cardinality(below[z])
  <2>1. below[y] \subseteq below[z] /\ below[z] \in SUBSET S
    BY <1>4 DEF Ordered
  <2>2. Cardinality(below[y]) + 1 <= Cardinality(below[z])
    BY <1>1, <1>2, <1>4, <2>1
  <2> QED BY <1>1, <2>2
<1>5. ASSUME NEW y \in S, Cardinality(below[y]) = Cardinality(below[x]) PROVE y = x
  <2>1. y = x \/ x \in below[y] \/ y \in below[x]
    BY DEF Ordered
  <2>2. Cardinality(below[x]) \in Nat
    BY <1>1
  <2> QED BY <1>4, <1>5, <2>1, <2>2
<1> QED BY <1>3, <1>5

\* the positions that are no part of a sequence before them
Own(s) == {i \in DOMAIN s : ~Covered(s, i)}
OwnBelow(s, i) == {y \in Own(s) : y < i}
Rank(s, i) == Cardinality(OwnBelow(s, i))

LEMMA OwnFinite ==
  ASSUME NEW s \in Seq(Byte), NEW i
  PROVE  /\ IsFiniteSet(Own(s)) /\ Cardinality(Own(s)) \in Nat
         /\ IsFiniteSet(OwnBelow(s, i)) /\ Rank(s, i) \in Nat
<1>1. IsFiniteSet(1..Len(s))
  BY FS_Interval
<1>2. Own(s) \in SUBSET (1..Len(s)) /\ OwnBelow(s, i) \in SUBSET (1..Len(s))
  BY DEF Own, OwnBelow
<1>3. IsFiniteSet(Own(s)) /\ IsFiniteSet(OwnBelow(s, i))
  BY <1>1, <1>2, FS_Subset
<1> QED BY <1>3, FS_CardinalityType DEF Rank

LEMMA UnescapedIs ==
  ASSUME NEW s \in Seq(Byte)
  PROVE  \E C : /\ Unescaped(s) \in Seq(C) /\ Len(Unescaped(s)) = Cardinality(Own(s))
                /\ \A i \in Own(s) : /\ Rank(s, i) + 1 \in 1..Cardinality(Own(s))
                                     /\ Unescaped(s)[Rank(s, i) + 1] = StandsFor(s, i)
<1> DEFINE M == Cardinality(Own(s))
           own == [n \in 1..M |-> CHOOSE x \in Own(s) : Rank(s, x) = n - 1]
           C == {StandsFor(s, own[n]) : n \in 1..M}
<1>1. M \in Nat /\ IsFiniteSet(Own(s))
  BY OwnFinite
<1>2. Unescaped(s) = [n \in 1..M |-> StandsFor(s, own[n])]
  BY DEF Unescaped, InOrder, Own, OwnBelow, Rank
<1>3. ASSUME NEW i \in Own(s)
      PROVE  Rank(s, i) + 1 \in 1..M /\ own[Rank(s, i) + 1] = i
  <2> DEFINE below == [x \in Own(s) |-> OwnBelow(s, x)]
  <2>1. Own(s) \subseteq Int
    BY DEF Own
  <2>2. Ordered(Own(s), below)
    BY <2>1 DEF Ordered, OwnBelow
  <2> HIDE DEF below
  <2>3. /\ Cardinality(below[i]) + 1 \in 1..M
        /\ \A y \in Own(s) : Cardinality(below[y]) = Cardinality(below[i]) => y = i
    BY <1>1, <2>2, RanksDiffer
  <2>4. \A y \in Own(s) : Cardinality(below[y]) = Rank(s, y)
    BY DEF below, Rank
  <2>5. PICK r \in Nat : r = Rank(s, i)
    BY OwnFinite
  <2>6. r + 1 \in 1..M /\ \A y \in Own(s) : Rank(s, y) = r => y = i
    BY <2>3, <2>4, <2>5
  <2>7. own[r + 1] = CHOOSE x \in Own(s) : Rank(s, x) = r + 1 - 1
    BY <2>6
  <2>8. r + 1 - 1 = r
    OBVIOUS
  <2>9. own[r + 1] = i
    <3> HIDE DEF own
    <3> QED BY <2>5, <2>6, <2>7, <2>8
  <2> QED BY <2>5, <2>6, <2>9
<1>4. Unescaped(s) \in Seq(C) /\ Len(Unescaped(s)) = M
  <2>1. Unescaped(s) \in [1..M -> C]
    <3> HIDE DEF own
    <3> QED BY <1>2
  <2> HIDE DEF C, own, M
  <2> QED BY <1>1, <2>1
<1>5. \A i \in Own(s) : Unescaped(s)[Rank(s, i) + 1] = StandsFor(s, i)
  <2> HIDE DEF own, M
  <2> QED BY <1>2, <1>3
<1> HIDE DEF C, own
<1> QED BY <1>3, <1>4, <1>5

LEMMA CoveredBy ==
  ASSUME NEW s, NEW i \in Int, NEW j \in Int, NEW k \in Int, j = i - 1, k = i - 2
  PROVE  Covered(s, i) <=> (j >= 1 /\ EscapedAt(s, j)) \/ (k >= 1 /\ EscapedAt(s, k))
BY DEF Covered

\* the next position after one that is not covered
LEMMA NextOwn ==
  ASSUME NEW s \in Seq(Byte), NEW i \in Own(s)
  PROVE  /\ After(s, i) \in i + 1 .. Len(s) + 1
         /\ ~Covered(s, After(s, i))
         /\ Rank(s, After(s, i)) = Rank(s, i) + 1
<1>1. i \in 1..Len(s) /\ ~Covered(s, i) /\ Len(s) \in Nat
  BY DEF Own
<1>2. After(s, i) \in i + 1 .. Len(s) + 1
  BY <1>1, AfterIs
<1>3. \A k \in 1..Len(s) : EscapedAt(s, k) => ~EscapedAt(s, k + 1) /\ ~EscapedAt(s, k + 2)
  <2>1. ~IsHex(Percent)
    BY DEF IsHex, Percent, Digits, HexFrom
  <2> QED BY <2>1 DEF EscapedAt
<1>4. \A k \in {i - 1, i - 2} : k >= 1 => ~EscapedAt(s, k)
  BY <1>1 DEF Covered
<1> DEFINE a == After(s, i)
<1>5. ~Covered(s, a) /\ \A y \in i + 1 .. a - 1 : Covered(s, y)
  <2>0. i \in Int /\ i >= 1
    BY <1>1
  <2>1. CASE EscapedAt(s, i)
    <3>1. a = i + 3
      BY <2>1 DEF After
    <3>2. ~EscapedAt(s, i + 1) /\ ~EscapedAt(s, i + 2)
      BY <1>1, <1>3, <2>1
    <3>3. PICK j \in Int, k \in Int : j = i + 1 /\ k = i + 2
      BY <2>0
    <3>4. ~EscapedAt(s, j) /\ ~EscapedAt(s, k)
      BY <3>2, <3>3, Zenon
    <3>5. a \in Int /\ k = a - 1 /\ j = a - 2 /\ i = j - 1 /\ i = k - 2 /\ j = k - 1 /\ i - 1 = j - 2
          /\ i - 1 \in Int
      BY <2>0, <3>1, <3>3
    <3>6. ~Covered(s, a)
      <4> HIDE DEF a
      <4> QED BY <3>4, <3>5, CoveredBy
    <3>7. Covered(s, j) /\ Covered(s, k)
      <4>1. Covered(s, j) <=> (i >= 1 /\ EscapedAt(s, i)) \/ (i - 1 >= 1 /\ EscapedAt(s, i - 1))
        BY <2>0, <3>5, CoveredBy
      <4>2. Covered(s, k) <=> (j >= 1 /\ EscapedAt(s, j)) \/ (i >= 1 /\ EscapedAt(s, i))
        BY <2>0, <3>5, CoveredBy
      <4> QED BY <2>0, <2>1, <4>1, <4>2
    <3>8. \A y \in i + 1 .. a - 1 : y = j \/ y = k
      BY <2>0, <3>1, <3>3
    <3> HIDE DEF a
    <3> QED BY <3>6, <3>7, <3>8
  <2>2. CASE ~EscapedAt(s, i)
    <3>1. a = i + 1
      BY <2>2 DEF After
    <3>2. a \in Int /\ i = a - 1 /\ i - 1 = a - 2 /\ i - 1 \in Int
      BY <2>0, <3>1
    <3>3. ~Covered(s, a)
      <4> HIDE DEF a
      <4>1. Covered(s, a) <=> (i >= 1 /\ EscapedAt(s, i)) \/ (i - 1 >= 1 /\ EscapedAt(s, i - 1))
        BY <2>0, <3>2, CoveredBy
      <4> QED BY <1>4, <2>2, <4>1
    <3>4. \A y \in i + 1 .. a - 1 : FALSE
      BY <2>0, <3>1
    <3> HIDE DEF a
    <3> QED BY <3>3, <3>4
  <2> QED BY <2>1, <2>2
<1>6. Rank(s, After(s, i)) = Rank(s, i) + 1
  <2>1. a \in Int /\ a > i
    BY <1>1, <1>2
  <2> HIDE DEF a
  <2>2. \A y \in Own(s) : y < a <=> y < i \/ y = i
    <3> SUFFICES ASSUME NEW y \in Own(s) PROVE y < a <=> y < i \/ y = i
      OBVIOUS
    <3>1. y \in Int /\ ~Covered(s, y)
      BY DEF Own
    <3>2. ~(y \in i + 1 .. a - 1)
      BY <1>5, <2>1, <3>1
    <3> QED BY <1>1, <2>1, <3>1, <3>2
  <2>3. OwnBelow(s, a) = OwnBelow(s, i) \cup {i}
    BY <2>2 DEF OwnBelow
  <2>4. i \notin OwnBelow(s, i)
    BY <1>1 DEF OwnBelow
  <2>5. Cardinality(OwnBelow(s, i) \cup {i}) = Cardinality(OwnBelow(s, i)) + 1
    BY <2>4, OwnFinite, FS_AddElement
  <2> QED BY <2>3, <2>5 DEF Rank, a
<1> QED BY <1>2, <1>5, <1>6

LEMMA UnescapesAll ==
  ASSUME NEW s \in Seq(Byte)
  PROVE  UnescapeURI(s) = Unescaped(s)
<1> DEFINE N == Len(s)
           M == Cardinality(Own(s))
<1>1. N \in Nat /\ M \in Nat
  BY OwnFinite
<1>2. PICK from : Decodes(from, s) /\ UnescapeURI(s) = from[1]
  BY UnescapeIs
<1>3. PICK C : /\ Unescaped(s) \in Seq(C) /\ Len(Unescaped(s)) = M
               /\ \A i \in Own(s) : /\ Rank(s, i) + 1 \in 1..M
                                    /\ Unescaped(s)[Rank(s, i) + 1] = StandsFor(s, i)
  BY UnescapedIs
<1>4. PICK u \in Seq(C) : u = Unescaped(s) /\ Len(u) = M
  BY <1>3
<1> DEFINE Read(i) == ~Covered(s, i) => from[i] = SubSeq(u, Rank(s, i) + 1, M)
           Good == {n \in 0..N : \A i \in n + 1 .. N + 1 : Read(i)}
<1>5. N \in Good
  <2>1. OwnBelow(s, N + 1) = Own(s)
    BY <1>1 DEF OwnBelow, Own
  <2>2. SubSeq(u, M + 1, M) = <<>>
    BY <1>1, <1>4, SubSeqEmpty
  <2>3. Read(N + 1)
    BY <1>2, <2>1, <2>2 DEF Rank, Decodes
  <2>4. \A i \in N + 1 .. N + 1 : i = N + 1
    BY <1>1
  <2>5. N \in 0..N
    BY <1>1
  <2> HIDE DEF Read, N
  <2> QED BY <2>3, <2>4, <2>5
<1>6. \A n \in 1..N : n \in Good => n - 1 \in Good
  <2> SUFFICES ASSUME NEW n \in 1..N, \A i \in n + 1 .. N + 1 : Read(i) PROVE Read(n)
    <3>1. \A n \in 1..N : n - 1 \in 0..N
            /\ \A i \in n - 1 + 1 .. N + 1 : i = n \/ i \in n + 1 .. N + 1
      BY <1>1
    <3> HIDE DEF Read, N
    <3> QED BY <3>1
  <2> SUFFICES ASSUME ~Covered(s, n) PROVE from[n] = SubSeq(u, Rank(s, n) + 1, M)
    OBVIOUS
  <2>1. n \in Own(s)
    BY DEF Own
  <2>2. PICK a : a = After(s, n)
    OBVIOUS
  <2>3. a \in n + 1 .. N + 1 /\ ~Covered(s, a) /\ Rank(s, a) = Rank(s, n) + 1
    BY <2>1, <2>2, NextOwn
  <2>4. from[a] = SubSeq(u, Rank(s, n) + 1 + 1, M)
    BY <2>3
  <2>5. from[n] = <<StandsFor(s, n)>> \o from[a]
    BY <1>2, <2>2 DEF Decodes
  <2>6. PICK r : r = Rank(s, n) + 1
    OBVIOUS
  <2>7. r \in 1..M /\ u[r] = StandsFor(s, n)
    BY <1>3, <1>4, <2>1, <2>6
  <2>8. SubSeq(u, r, M) = <<u[r]>> \o SubSeq(u, r + 1, M)
    BY <1>1, <1>4, <2>7, SubSeqRecursiveFirst
  <2> QED BY <2>4, <2>5, <2>6, <2>7, <2>8, Zenon
<1>7. 0 \in Good
  <2>1. 0 \in 0..N
    BY <1>1
  <2> HIDE DEF Good, N, M
  <2>2. \A n \in 0..N : n \in Good
    BY <1>1, <1>5, <1>6, DownTo
  <2> QED BY <2>1, <2>2
<1>8. Read(1)
  <2>1. 1 \in 0 + 1 .. N + 1
    BY <1>1
  <2> HIDE DEF Read, N
  <2> QED BY <1>7, <2>1
<1>9. ~Covered(s, 1) /\ Rank(s, 1) = 0
  <2>1. ~Covered(s, 1)
    BY DEF Covered
  <2>2. OwnBelow(s, 1) = {}
    BY DEF OwnBelow, Own
  <2> QED BY <2>1, <2>2, FS_EmptySet DEF Rank
<1>10. SubSeq(u, 1, M) = u
  BY <1>4, SubSeqFull
<1>11. from[1] = SubSeq(u, 0 + 1, M)
  BY <1>8, <1>9
<1> QED BY <1>2, <1>4, <1>10, <1>11

\* Whatever the text, unescape_uri decodes each valid sequence and no other, and
\* what escape_uri returns is decoded to what it was given, by unescape_uri and by
\* the parser of query strings alike (but for the plus sign of type 0); type 2
\* leaves only unreserved characters and sequences.
THEOREM EscapesAreUndone == Spec => []EscapesUndone
<1>1. Init => EscapesUndone
  BY DEF Init, NoCall, EscapesUndone
<1>2. EscapesUndone /\ [Next]_last => EscapesUndone'
  <2> SUFFICES ASSUME EscapesUndone, [Next]_last PROVE EscapesUndone'
    OBVIOUS
  <2>1. ASSUME NEW s \in Texts, Unescape(s) PROVE EscapesUndone'
    <3>1. last' = [call |-> "unescape", text |-> s, plain |-> UnescapeURI(s)]
      BY <2>1 DEF Unescape, Calls
    <3>2. last'.call = "unescape" /\ last'.plain = UnescapeURI(s) /\ last'.text = s
      BY <3>1
    <3>3. UnescapeURI(s) = Unescaped(s)
      BY TextsAssumption, UnescapesAll
    <3> QED BY <3>2, <3>3 DEF EscapesUndone
  <2>2. ASSUME NEW s \in Texts, NEW type \in {0, 2}, Escape(s, type) PROVE EscapesUndone'
    <3>1. PICK text : text = EscapeURI(s, type)
      OBVIOUS
    <3>2. last' = [call |-> "escape", plain |-> s, type |-> type, escaped |-> text,
                   back |-> UnescapeURI(text), decoded |-> Decoded(text)]
      BY <2>2, <3>1 DEF Escape, Calls
    <3>3. /\ last'.call = "escape" /\ last'.plain = s /\ last'.type = type /\ last'.escaped = text
          /\ last'.back = UnescapeURI(text) /\ last'.decoded = Decoded(text)
      BY <3>2
    <3>4. s \in Seq(Byte)
      BY TextsAssumption
    <3>5. UnescapeURI(text) = Back(s, type) /\ Decoded(text) = UnescapeURI(text)
      BY <3>1, <3>4, UnescapeUndoes, EscapedDecodes
    <3>6. type = 2 => \A k \in DOMAIN text :
            \/ text[k] \in Upper \cup Lower \cup Digits \cup {45, 46, 95, 126}
            \/ EscapedAt(text, k)
      BY <3>1, <3>4, ComponentSafe
    <3> QED BY <3>3, <3>5, <3>6 DEF EscapesUndone, Back
  <2>3. CASE last'.call \notin {"unescape", "escape"}
    BY <2>3 DEF EscapesUndone
  <2>4. CASE UNCHANGED last
    BY <2>4 DEF EscapesUndone
  <2>5. ASSUME Call,
               ~ \E s \in Texts : Unescape(s) \/ \E type \in {0, 2} : Escape(s, type)
        PROVE  last'.call \notin {"unescape", "escape"}
    BY <2>5 DEF Call, Calls, GetArgs, ReqGetHeaders, PushBatch, PushCapture, Say, Send, Fetch
  <2> QED BY <2>1, <2>2, <2>3, <2>4, <2>5 DEF Next
<1> QED BY <1>1, <1>2, PTL DEF Spec

-----------------------------------------------------------------------------
(* Sums over a set.                                                        *)

\* sums has, for each part of S, what w adds up to there.
Sums(sums, w, S) ==
  sums = [T \in SUBSET S |->
            IF T = {} THEN 0 ELSE LET x == CHOOSE x \in T : TRUE IN w[x] + sums[T \ {x}]]

\* what is left without one has a member less
LEMMA OneLess ==
  ASSUME NEW S, IsFiniteSet(S), NEW T \in SUBSET S, NEW x \in T
  PROVE  /\ T \ {x} \in SUBSET S /\ Cardinality(T) \in Nat
         /\ Cardinality(T \ {x}) \in Nat /\ Cardinality(T \ {x}) = Cardinality(T) - 1
         /\ Cardinality(T) <= Cardinality(S)
<1>1. IsFiniteSet(T) /\ Cardinality(T) <= Cardinality(S)
  BY FS_Subset
<1>2. IsFiniteSet(T \ {x}) /\ Cardinality(T \ {x}) = Cardinality(T) - 1
  BY <1>1, FS_RemoveElement
<1> QED BY <1>1, <1>2, FS_CardinalityType

LEMMA SumsExist ==
  ASSUME NEW S, IsFiniteSet(S), NEW w
  PROVE  \E sums : Sums(sums, w, S)
<1> DEFINE N == Cardinality(S)
           C(T) == CHOOSE x \in T : TRUE
           V(f, T) == IF T = {} THEN 0 ELSE w[C(T)] + f[T \ {C(T)}]
           Small(f, k) == /\ f = [T \in SUBSET S |-> f[T]]
                          /\ \A T \in SUBSET S : Cardinality(T) <= k => f[T] = V(f, T)
           G == {k \in 0..N : \E f : Small(f, k)}
<1>1. N \in Nat
  BY FS_CardinalityType
<1>2. \A T \in SUBSET S : IsFiniteSet(T) /\ Cardinality(T) \in Nat /\ Cardinality(T) <= N
  <2> SUFFICES ASSUME NEW T \in SUBSET S
               PROVE  IsFiniteSet(T) /\ Cardinality(T) \in Nat /\ Cardinality(T) <= N
    OBVIOUS
  <2>1. IsFiniteSet(T) /\ Cardinality(T) <= N
    BY FS_Subset
  <2> QED BY <2>1, FS_CardinalityType
<1>3. 0 \in G
  <2> DEFINE f == [T \in SUBSET S |-> 0]
  <2>1. \A T \in SUBSET S : Cardinality(T) <= 0 => T = {}
    <3> SUFFICES ASSUME NEW T \in SUBSET S, Cardinality(T) <= 0 PROVE T = {}
      OBVIOUS
    <3>1. IsFiniteSet(T) /\ Cardinality(T) = 0
      BY <1>2
    <3> QED BY <3>1, FS_EmptySet
  <2>2. \A T \in SUBSET S : Cardinality(T) <= 0 => f[T] = V(f, T)
    <3> SUFFICES ASSUME NEW T \in SUBSET S, T = {} PROVE f[T] = V(f, T)
      BY <2>1
    <3>1. f[T] = 0
      OBVIOUS
    <3> HIDE DEF f
    <3> QED BY <3>1
  <2>3. f = [T \in SUBSET S |-> f[T]]
    OBVIOUS
  <2>4. Small(f, 0)
    <3> HIDE DEF f, V
    <3> QED BY <2>2, <2>3
  <2>5. 0 \in 0..N
    BY <1>1
  <2> HIDE DEF Small, N
  <2> QED BY <2>4, <2>5
<1>4. \A k \in 1..N : k - 1 \in G => k \in G
  <2> SUFFICES ASSUME NEW k \in 1..N, NEW f, Small(f, k - 1) PROVE \E h : Small(h, k)
    <3> HIDE DEF Small, N
    <3> QED OBVIOUS
  <2> DEFINE h == [T \in SUBSET S |-> V(f, T)]
  <2>1. \A T \in SUBSET S : Cardinality(T) <= k => V(h, T) = V(f, T)
    <3> SUFFICES ASSUME NEW T \in SUBSET S, Cardinality(T) <= k, T # {} PROVE V(h, T) = V(f, T)
      OBVIOUS
    <3>1. PICK x : x = C(T) /\ x \in T
      OBVIOUS
    <3>2. PICK R : R = T \ {x}
      OBVIOUS
    <3>3. R \in SUBSET S /\ Cardinality(R) <= k - 1
      <4>1. R \in SUBSET S /\ Cardinality(T) \in Nat /\ Cardinality(R) = Cardinality(T) - 1
        BY <3>1, <3>2, OneLess
      <4> QED BY <4>1
    <3>4. h[R] = V(f, R) /\ f[R] = V(f, R)
      <4> HIDE DEF V
      <4> QED BY <3>3
    <3>5. V(h, T) = w[x] + h[R] /\ V(f, T) = w[x] + f[R]
      <4> HIDE DEF h
      <4> QED BY <3>1, <3>2
    <3> HIDE DEF h, V
    <3> QED BY <3>4, <3>5
  <2>2. \A T \in SUBSET S : h[T] = V(f, T)
    <3> HIDE DEF V
    <3> QED OBVIOUS
  <2>3. h = [T \in SUBSET S |-> h[T]]
    OBVIOUS
  <2>4. Small(h, k)
    <3> HIDE DEF h, V
    <3> QED BY <2>1, <2>2, <2>3
  <2> HIDE DEF Small, h
  <2> QED BY <2>4
<1>5. N \in G
  <2> HIDE DEF G, N
  <2>1. \A k \in 0..N : k \in G
    BY <1>1, <1>3, <1>4, UpTo
  <2> QED BY <1>1, <2>1
<1>6. PICK f : Small(f, N)
  <2> HIDE DEF Small
  <2> QED BY <1>5
<1>7. \A T \in SUBSET S : f[T] = V(f, T)
  <2> HIDE DEF V
  <2> QED BY <1>2, <1>6
<1>8. f = [T \in SUBSET S |-> V(f, T)]
  <2> HIDE DEF V
  <2> QED BY <1>6, <1>7
<1> QED BY <1>8 DEF Sums

\* In whatever order it is taken, a member adds its own.
LEMMA SumsAdd ==
  ASSUME NEW S, IsFiniteSet(S), NEW w \in [S -> Nat], NEW sums, Sums(sums, w, S)
  PROVE  /\ sums[{}] = 0
         /\ \A T \in SUBSET S : sums[T] \in Nat /\ \A x \in T : sums[T] = w[x] + sums[T \ {x}]
<1> DEFINE N == Cardinality(S)
           Adds(T) == sums[T] \in Nat /\ \A x \in T : sums[T] = w[x] + sums[T \ {x}]
           G == {k \in 0..N : \A T \in SUBSET S : Cardinality(T) <= k => Adds(T)}
<1>1. N \in Nat
  BY FS_CardinalityType
<1>2. sums[{}] = 0
  BY DEF Sums
<1>3. \A T \in SUBSET S : IsFiniteSet(T) /\ Cardinality(T) \in Nat /\ Cardinality(T) <= N
  <2> SUFFICES ASSUME NEW T \in SUBSET S
               PROVE  IsFiniteSet(T) /\ Cardinality(T) \in Nat /\ Cardinality(T) <= N
    OBVIOUS
  <2>1. IsFiniteSet(T) /\ Cardinality(T) <= N
    BY FS_Subset
  <2> QED BY <2>1, FS_CardinalityType
<1>4. 0 \in G
  <2> SUFFICES ASSUME NEW T \in SUBSET S, Cardinality(T) <= 0 PROVE Adds(T)
    BY <1>1
  <2>1. T = {}
    BY <1>3, FS_EmptySet
  <2> QED BY <1>2, <2>1
<1>5. \A k \in 1..N : k - 1 \in G => k \in G
  <2> SUFFICES ASSUME NEW k \in 1..N, \A T \in SUBSET S : Cardinality(T) <= k - 1 => Adds(T),
                      NEW T \in SUBSET S, Cardinality(T) <= k
               PROVE  Adds(T)
    <3> HIDE DEF Adds, N
    <3> QED OBVIOUS
  <2>1. CASE T = {}
    BY <1>2, <2>1
  <2>2. CASE T # {}
    <3>1. PICK c : c = (CHOOSE x \in T : TRUE) /\ c \in T
      BY <2>2
    <3>2. sums[T] = w[c] + sums[T \ {c}]
      BY <2>2, <3>1 DEF Sums
    <3>3. \A x \in T : T \ {x} \in SUBSET S /\ Cardinality(T \ {x}) <= k - 1
      BY <1>1, OneLess
    <3>4. \A x \in T : Adds(T \ {x})
      <4> HIDE DEF Adds
      <4> QED BY <2>2, <3>3
    <3>5. \A x \in T : sums[T \ {x}] \in Nat /\ w[x] \in Nat
      BY <3>4
    <3>6. ASSUME NEW x \in T PROVE sums[T] = w[x] + sums[T \ {x}]
      <4>1. CASE x = c
        BY <3>2, <4>1
      <4>2. CASE x # c
        <5>1. x \in T \ {c} /\ c \in T \ {x}
          BY <3>1, <4>2
        <5>2. PICK R : R = T \ {c, x}
          OBVIOUS
        <5>3. (T \ {c}) \ {x} = R /\ (T \ {x}) \ {c} = R
          BY <5>2
        <5>4. sums[T \ {c}] = w[x] + sums[R]
          BY <3>1, <3>4, <5>1, <5>3
        <5>5. sums[T \ {x}] = w[c] + sums[R]
          <6>1. Adds(T \ {x})
            BY <3>4
          <6>2. sums[T \ {x}] = w[c] + sums[(T \ {x}) \ {c}]
            BY <5>1, <6>1
          <6> QED BY <5>3, <6>2
        <5>6. sums[R] \in Nat
          <6>1. R \in SUBSET S /\ R \in SUBSET (T \ {x})
            BY <5>2
          <6>2. IsFiniteSet(T \ {x})
            BY <3>3, <1>3
          <6>3. Cardinality(R) <= Cardinality(T \ {x})
            BY <6>1, <6>2, FS_Subset
          <6>4. Cardinality(R) <= k - 1
            BY <1>3, <3>3, <6>1, <6>3
          <6>5. Adds(R)
            <7> HIDE DEF Adds
            <7> QED BY <2>2, <6>1, <6>4
          <6> QED BY <6>5
        <5>7. w[c] \in Nat /\ w[x] \in Nat
          BY <3>1, <3>5
        <5> QED BY <3>2, <5>4, <5>5, <5>6, <5>7
      <4> QED BY <4>1, <4>2
    <3>7. sums[T] \in Nat
      <4>1. PICK a \in Nat, b \in Nat : a = w[c] /\ b = sums[T \ {c}]
        BY <3>1, <3>5
      <4> QED BY <3>2, <4>1
    <3> QED BY <3>6, <3>7
  <2> QED BY <2>1, <2>2
<1>6. N \in G
  <2> HIDE DEF G, N
  <2>1. \A k \in 0..N : k \in G
    BY <1>1, <1>4, <1>5, UpTo
  <2> QED BY <1>1, <2>1
<1>7. \A T \in SUBSET S : Adds(T)
  <2> HIDE DEF Adds
  <2> QED BY <1>3, <1>6
<1> QED BY <1>2, <1>7

LEMMA SumGrows ==
  ASSUME NEW S, IsFiniteSet(S), NEW w \in [S -> Nat], NEW sums, Sums(sums, w, S),
         NEW P \in SUBSET S, NEW y \in P
  PROVE  sums[P] = w[y] + sums[P \ {y}]
<1>1. /\ sums[{}] = 0
      /\ \A T \in SUBSET S : sums[T] \in Nat /\ \A x \in T : sums[T] = w[x] + sums[T \ {x}]
  BY SumsAdd
<1> QED BY <1>1

LEMMA SumIsNumber ==
  ASSUME NEW S, IsFiniteSet(S), NEW w \in [S -> Nat], NEW sums, Sums(sums, w, S),
         NEW P \in SUBSET S
  PROVE  sums[P] \in Nat
<1>1. /\ sums[{}] = 0
      /\ \A T \in SUBSET S : sums[T] \in Nat /\ \A x \in T : sums[T] = w[x] + sums[T \ {x}]
  BY SumsAdd
<1> QED BY <1>1

\* MapThenSumSet finds them.
LEMMA TotalIs ==
  ASSUME NEW r, IsFiniteSet(Names(r))
  PROVE  \E sums : Sums(sums, [n \in Names(r) |-> Len(Values(r, n))], Names(r))
                   /\ Total(r) = sums[Names(r)]
<1> DEFINE S == Names(r)
           w == [n \in S |-> Len(Values(r, n))]
           R(f) == f = [T \in SUBSET S |->
                     IF T = {} THEN 0
                     ELSE LET x == CHOOSE x \in T : TRUE IN Len(Values(r, x)) + f[T \ {x}]]
           g == CHOOSE f : R(f)
<1>1. Total(r) = g[S]
  BY DEF Total, MapThenSumSet, MapThenFoldSet
<1>2. \A f : R(f) <=> Sums(f, w, S)
  <2>1. \A T \in SUBSET S : T # {} => LET x == CHOOSE x \in T : TRUE IN w[x] = Len(Values(r, x))
    OBVIOUS
  <2> QED BY <2>1 DEF Sums
<1>3. R(g)
  <2> HIDE DEF R, w
  <2>1. \E f : R(f)
    BY <1>2, SumsExist
  <2> QED BY <2>1
<1> HIDE DEF g, R
<1> QED BY <1>1, <1>2, <1>3

LEMMA KeptIs ==
  ASSUME NEW r, IsFiniteSet(Names(r)), NEW t, NEW raw
  PROVE  \E sums : Sums(sums, [n \in Names(r) |-> Len(Kept(t, n, raw))], Names(r))
                   /\ LinesIn(t, r, raw) = sums[Names(r)]
<1> DEFINE S == Names(r)
           w == [n \in S |-> Len(Kept(t, n, raw))]
           R(f) == f = [T \in SUBSET S |->
                     IF T = {} THEN 0
                     ELSE LET x == CHOOSE x \in T : TRUE IN Len(Kept(t, x, raw)) + f[T \ {x}]]
           g == CHOOSE f : R(f)
<1>1. LinesIn(t, r, raw) = g[S]
  BY DEF LinesIn, MapThenSumSet, MapThenFoldSet
<1>2. \A f : R(f) <=> Sums(f, w, S)
  <2>1. \A T \in SUBSET S : T # {} => LET x == CHOOSE x \in T : TRUE IN w[x] = Len(Kept(t, x, raw))
    OBVIOUS
  <2> QED BY <2>1 DEF Sums
<1>3. R(g)
  <2> HIDE DEF R, w
  <2>1. \E f : R(f)
    BY <1>2, SumsExist
  <2> QED BY <2>1
<1> HIDE DEF g, R
<1> QED BY <1>1, <1>2, <1>3

-----------------------------------------------------------------------------
(* The loop over the headers.                                              *)

\* what of the lines of a header a table has
Part(t, name, raw, lines) ==
  \E m \in 0..Len(lines) : Kept(t, name, raw) = SubSeq(lines, 1, m)

LEMMA RequestTypes ==
  ASSUME NEW r, IsRequest(r)
  PROVE  /\ IsFiniteSet(DOMAIN r.header) /\ IsFiniteSet(Names(r))
         /\ Names(r) = DOMAIN r.header \cup (IF r.host = <<>> THEN {} ELSE {HostName})
         /\ HostName \notin DOMAIN r.header
         /\ \A n \in DOMAIN r.header : /\ Values(r, n) = r.header[n]
                                       /\ r.header[n] \in Seq(Range(r.header[n]))
         /\ Values(r, HostName) = r.host /\ r.host \in Seq(Range(r.host)) /\ Len(r.host) <= 1
         /\ \A n \in Names(r) : n = Name(n.words, n.sep, "canonical")
         /\ \A n \in Names(r) : Len(Values(r, n)) \in Nat
<1>1. IsFiniteSet(DOMAIN r.header) /\ HostName \notin DOMAIN r.header
  BY DEF IsRequest
<1>2. Names(r) = DOMAIN r.header \cup (IF r.host = <<>> THEN {} ELSE {HostName})
  BY DEF Names
<1>3. IsFiniteSet(Names(r))
  <2>1. IsFiniteSet(DOMAIN r.header \cup {HostName})
    BY <1>1, FS_AddElement
  <2> QED BY <1>1, <1>2, <2>1
<1>4. \A n \in DOMAIN r.header : /\ Values(r, n) = r.header[n]
                                 /\ r.header[n] \in Seq(Range(r.header[n]))
  BY <1>1 DEF IsRequest, Values
<1>5. Values(r, HostName) = r.host /\ r.host \in Seq(Range(r.host)) /\ Len(r.host) <= 1
  BY DEF IsRequest, Values
<1>6. \A n \in Names(r) : n = Name(n.words, n.sep, "canonical")
  <2>1. HostName = Name(HostName.words, HostName.sep, "canonical")
    BY DEF HostName, Name
  <2>2. \A n \in DOMAIN r.header : n = Name(n.words, n.sep, "canonical")
    BY DEF IsRequest
  <2> QED BY <1>2, <2>1, <2>2
<1>7. \A n \in Names(r) : Len(Values(r, n)) \in Nat
  <2>1. \A n \in DOMAIN r.header : Len(Values(r, n)) \in Nat
    BY <1>4
  <2>2. Len(Values(r, HostName)) \in Nat
    BY <1>5
  <2> QED BY <1>2, <2>1, <2>2
<1> QED BY <1>1, <1>2, <1>3, <1>4, <1>5, <1>6, <1>7

\* no two names have the same key
LEMMA KeysDiffer ==
  ASSUME NEW r, IsRequest(r), NEW raw \in BOOLEAN, NEW n, NEW m, Key(n, raw) = Key(m, raw),
         n \in Names(r) \cup {HostName}, m \in Names(r) \cup {HostName}
  PROVE  n = m
<1>1. n = Name(n.words, n.sep, "canonical") /\ m = Name(m.words, m.sep, "canonical")
  <2>1. HostName = Name(HostName.words, HostName.sep, "canonical")
    BY DEF HostName, Name
  <2> QED BY <2>1, RequestTypes
<1>2. CASE raw
  BY <1>2 DEF Key
<1>3. CASE ~raw
  <2>1. ToLower(n) = Name(n.words, n.sep, "lower") /\ ToLower(m) = Name(m.words, m.sep, "lower")
    BY <1>1 DEF ToLower, Name
  <2>2. Name(n.words, n.sep, "lower") = Name(m.words, m.sep, "lower")
    BY <1>3, <2>1 DEF Key
  <2>3. n.words = m.words /\ n.sep = m.sep
    BY <2>2 DEF Name
  <2> QED BY <1>1, <2>3
<1> QED BY <1>2, <1>3

\* The table after some headers; sums counts the lines of each set of headers.
Loop(r, max, raw, sums, acc, T) ==
  /\ acc.count = IF max > 0 /\ max < sums[T] THEN max ELSE sums[T]
  /\ acc.truncated \in BOOLEAN /\ (acc.truncated <=> acc.count < sums[T])
  /\ \A k \in DOMAIN acc.table : \E n \in T : k = Key(n, raw)
  /\ \A n \in T : Part(acc.table, n, raw, r.header[n])
  /\ \A w, kept : /\ w \in [Names(r) -> Nat] /\ Sums(kept, w, Names(r))
                  /\ \A n \in T : w[n] = Len(Kept(acc.table, n, raw))
                  => kept[T] = acc.count

LEMMA LoopStarts ==
  ASSUME NEW r, IsRequest(r), NEW max \in Int, NEW raw \in BOOLEAN, NEW sums, sums[{}] = 0
  PROVE  Loop(r, max, raw, sums, [table |-> [k \in {} |-> <<>>], count |-> 0, truncated |-> FALSE], {})
<1>1. \A w, kept : w \in [Names(r) -> Nat] /\ Sums(kept, w, Names(r)) => kept[{}] = 0
  BY RequestTypes, SumsAdd
<1> QED BY <1>1 DEF Loop

LEMMA LoopGoesOn ==
  ASSUME NEW r, IsRequest(r), NEW max \in Int, NEW raw \in BOOLEAN, NEW sums,
         Sums(sums, [n \in Names(r) |-> Len(Values(r, n))], Names(r)),
         NEW T \in SUBSET DOMAIN r.header, NEW name \in DOMAIN r.header, name \notin T,
         NEW acc, Loop(r, max, raw, sums, acc, T)
  PROVE  Loop(r, max, raw, sums, TakeHeader(r, max, raw, acc, name), T \cup {name})
<1> DEFINE lines == r.header[name]
           n == Room(max, acc.count, Len(lines))
           new == TakeHeader(r, max, raw, acc, name)
           U1 == T \cup {name}
<1>1. /\ lines \in Seq(Range(lines)) /\ Len(lines) \in Nat
      /\ T \in SUBSET Names(r) /\ U1 \in SUBSET Names(r) /\ U1 \ {name} = T /\ name \in Names(r)
  <2>1. DOMAIN r.header \subseteq Names(r) /\ lines \in Seq(Range(lines))
    BY RequestTypes
  <2> HIDE DEF lines
  <2> QED BY <2>1
<1>2. sums[T] \in Nat /\ sums[U1] = Len(lines) + sums[T]
  <2> DEFINE v == [x \in Names(r) |-> Len(Values(r, x))]
  <2>1. v \in [Names(r) -> Nat] /\ IsFiniteSet(Names(r))
    BY RequestTypes
  <2>2. v[name] = Len(lines)
    BY <1>1, RequestTypes
  <2>3. Sums(sums, v, Names(r))
    OBVIOUS
  <2> HIDE DEF v
  <2>4. name \in U1
    OBVIOUS
  <2> HIDE DEF U1, lines
  <2>5. sums[T] \in Nat
    BY <1>1, <2>1, <2>3, SumIsNumber
  <2>6. sums[U1] = v[name] + sums[U1 \ {name}]
    <3>1. U1 \in SUBSET Names(r)
      BY <1>1
    <3> QED BY <2>1, <2>3, <2>4, <3>1, SumGrows
  <2> QED BY <1>1, <2>2, <2>5, <2>6
<1>3. PICK c \in Nat : /\ c = acc.count
                       /\ c = IF max > 0 /\ max < sums[T] THEN max ELSE sums[T]
  BY <1>2 DEF Loop
<1>4. n \in 0..Len(lines) /\ c + n = IF max > 0 /\ max < sums[U1] THEN max ELSE sums[U1]
  <2>1. PICK h \in Nat, l \in Nat : h = sums[T] /\ l = Len(lines)
    BY <1>1, <1>2
  <2>2. Room(max, c, l) \in 0..l
        /\ c + Room(max, c, l) = IF max > 0 /\ max < h + l THEN max ELSE h + l
    <3>1. c = IF max > 0 /\ max < h THEN max ELSE h
      BY <1>3, <2>1
    <3> HIDE DEF n, lines, new, U1
    <3> QED BY <3>1 DEF Room
  <2>3. sums[U1] = h + l
    BY <1>2, <2>1
  <2> QED BY <1>3, <2>1, <2>2, <2>3
<1>5. /\ new.table = IF n = 0 THEN acc.table ELSE Extend(acc.table, Key(name, raw), SubSeq(lines, 1, n))
      /\ new.count = c + n /\ new.truncated = (acc.truncated \/ n < Len(lines))
  BY <1>3 DEF TakeHeader
<1>6. Key(name, raw) \notin DOMAIN acc.table
  <2>1. \A x \in T : Key(x, raw) # Key(name, raw)
    <3>1. \A x \in T : x # name /\ x \in Names(r)
      BY <1>1
    <3> QED BY <1>1, <3>1, KeysDiffer
  <2> QED BY <2>1 DEF Loop
<1>7. SubSeq(lines, 1, n) \in Seq(Range(lines)) /\ Len(SubSeq(lines, 1, n)) = n
  BY <1>1, <1>4, SubSeqProperties
<1>8. Kept(new.table, name, raw) = SubSeq(lines, 1, n)
  <2>1. CASE n = 0
    <3>1. Kept(new.table, name, raw) = <<>>
      BY <1>5, <1>6, <2>1 DEF Kept
    <3>2. SubSeq(lines, 1, n) = <<>>
      BY <1>1, <2>1, SubSeqEmpty
    <3> QED BY <3>1, <3>2
  <2>2. CASE n # 0
    BY <1>5, <2>2 DEF Kept, Extend
  <2> QED BY <2>1, <2>2
<1>9. \A x \in T : Kept(new.table, x, raw) = Kept(acc.table, x, raw)
  <2> SUFFICES ASSUME NEW x \in T PROVE Kept(new.table, x, raw) = Kept(acc.table, x, raw)
    OBVIOUS
  <2>1. Key(x, raw) # Key(name, raw)
    <3>1. x # name /\ x \in Names(r)
      BY <1>1
    <3> QED BY <1>1, <3>1, KeysDiffer
  <2>2. CASE n = 0
    BY <1>5, <2>2
  <2>3. CASE n # 0
    BY <1>5, <2>1, <2>3 DEF Kept, Extend
  <2> QED BY <2>2, <2>3
<1> HIDE DEF n, new, lines, U1
<1>10. new.truncated \in BOOLEAN /\ (new.truncated <=> new.count < sums[U1])
  <2>1. PICK h \in Nat, l \in Nat : h = sums[T] /\ l = Len(lines) /\ sums[U1] = l + h
    BY <1>1, <1>2
  <2>2. acc.truncated \in BOOLEAN /\ (acc.truncated <=> c < h)
    BY <1>3, <2>1 DEF Loop
  <2>3. c <= h /\ n <= l /\ n \in Nat
    BY <1>3, <1>4, <2>1
  <2>4. (c < h \/ n < l) <=> c + n < l + h
    BY <2>3
  <2> QED BY <1>5, <2>1, <2>2, <2>4
<1>11. \A k \in DOMAIN new.table : \E x \in U1 : k = Key(x, raw)
  <2>1. DOMAIN new.table \subseteq DOMAIN acc.table \cup {Key(name, raw)}
    BY <1>5 DEF Extend
  <2>2. T \subseteq U1 /\ name \in U1
    BY DEF U1
  <2> QED BY <2>1, <2>2 DEF Loop
<1>12. \A x \in U1 : Part(new.table, x, raw, r.header[x])
  <2>1. \A x \in T : Part(new.table, x, raw, r.header[x])
    BY <1>9 DEF Loop, Part
  <2>2. Part(new.table, name, raw, r.header[name])
    BY <1>4, <1>8 DEF Part, lines
  <2> QED BY <2>1, <2>2 DEF U1
<1>13. ASSUME NEW w, NEW kept, w \in [Names(r) -> Nat], Sums(kept, w, Names(r)),
              \A x \in U1 : w[x] = Len(Kept(new.table, x, raw))
       PROVE  kept[U1] = new.count
  <2>1. \A x \in T : w[x] = Len(Kept(acc.table, x, raw))
    BY <1>9, <1>13 DEF U1
  <2>2. kept[T] = c
    BY <1>3, <1>13, <2>1 DEF Loop
  <2>3. name \in U1
    BY DEF U1
  <2>4. kept[U1] = w[name] + kept[U1 \ {name}]
    <3>1. IsFiniteSet(Names(r))
      BY RequestTypes
    <3>2. w \in [Names(r) -> Nat] /\ Sums(kept, w, Names(r))
      BY <1>13
    <3>3. U1 \in SUBSET Names(r)
      BY <1>1
    <3> QED BY <2>3, <3>1, <3>2, <3>3, SumGrows
  <2>5. w[name] = n
    BY <1>7, <1>8, <1>13, <2>3
  <2>6. kept[U1] = n + c
    BY <1>1, <2>2, <2>4, <2>5
  <2>7. n \in Nat
    BY <1>1, <1>4
  <2> QED BY <1>5, <2>6, <2>7
<1> QED BY <1>4, <1>5, <1>10, <1>11, <1>12, <1>13 DEF Loop, new, U1

\* The loop meets each header once.
LEMMA LoopEnds ==
  ASSUME NEW r, IsRequest(r), NEW max \in Int, NEW raw \in BOOLEAN, NEW sums,
         Sums(sums, [n \in Names(r) |-> Len(Values(r, n))], Names(r)),
         NEW order \in Orders(DOMAIN r.header)
  PROVE  \E acc : /\ Loop(r, max, raw, sums, acc, DOMAIN r.header)
                  /\ GetHeaders(r, max, raw, order) = TakeHost(r, max, raw, acc)
<1> DEFINE H == DOMAIN r.header
           N == Cardinality(H)
           base == [table |-> [k \in {} |-> <<>>], count |-> 0, truncated |-> FALSE]
           R(f) == f = [i \in 0 .. Len(order) |->
                          IF i = 0 THEN base ELSE TakeHeader(r, max, raw, f[i - 1], order[i])]
           g == CHOOSE f : R(f)
           Met(i) == {order[j] : j \in 1..i}
           G == {i \in 0..N : Loop(r, max, raw, sums, g[i], Met(i))}
<1>1. IsFiniteSet(H) /\ N \in Nat
  BY RequestTypes, FS_CardinalityType
<1>2. order \in [1..N -> H] /\ \A i, j \in 1..N : i # j => order[i] # order[j]
  BY DEF Orders, SetToSeqs
<1>3. Len(order) = N
  BY <1>1, <1>2
<1>4. Met(N) = H
  <2>1. order \in Injection(1..N, H)
    BY <1>2 DEF Injection, IsInjective
  <2>2. Cardinality(1..N) = N
    BY <1>1, FS_Interval
  <2>3. order \in Surjection(1..N, H)
    BY <1>1, <2>1, <2>2, FS_Injection
  <2> QED BY <1>2, <2>3 DEF Surjection
<1>5. GetHeaders(r, max, raw, order) = TakeHost(r, max, raw, g[N])
  BY <1>3 DEF GetHeaders
<1>6. R(g)
  <2>1. \E f : R(f)
    <3> HIDE DEF base, N
    <3> DEFINE Next1(f, i) == IF i = 0 THEN base ELSE TakeHeader(r, max, raw, f[i - 1], order[i])
               Up(f, n) == f = [i \in 0..n |-> Next1(f, i)]
               Can == {n \in 0..N : \E f : Up(f, n)}
    <3>0. N \in Nat
      BY <1>1
    <3>1. 0 \in Can
      <4>1. Up([i \in 0..0 |-> base], 0)
        OBVIOUS
      <4> HIDE DEF Up
      <4> QED BY <3>0, <4>1
    <3>2. \A n \in 1..N : n - 1 \in Can => n \in Can
      <4> HIDE DEF Up
      <4> SUFFICES ASSUME NEW n \in 1..N, n - 1 \in Can PROVE \E f : Up(f, n)
        OBVIOUS
      <4>1. PICK f : Up(f, n - 1)
        OBVIOUS
      <4> DEFINE h == [i \in 0..n |-> IF i = n THEN Next1(f, n) ELSE f[i]]
      <4>2. \A i \in 0..n - 1 : h[i] = f[i] /\ f[i] = Next1(f, i)
        <5> SUFFICES ASSUME NEW i \in 0..n - 1
                     PROVE  h[i] = f[i] /\ f[i] = Next1(f, i)
          OBVIOUS
        <5>1. i \in 0..n /\ i # n
          BY <3>0
        <5>2. h[i] = f[i]
          BY <5>1
        <5> HIDE DEF Next1, h
        <5>3. f[i] = Next1(f, i)
          BY <4>1 DEF Up
        <5> QED BY <5>2, <5>3
      <4>3. \A i \in 0..n : h[i] = Next1(h, i)
        <5> SUFFICES ASSUME NEW i \in 0..n PROVE h[i] = Next1(h, i)
          OBVIOUS
        <5>1. i # 0 => h[i - 1] = f[i - 1]
          <6>1. i # 0 => i - 1 \in 0..n - 1
            OBVIOUS
          <6> HIDE DEF h
          <6> QED BY <4>2, <6>1
        <5>2. Next1(h, i) = Next1(f, i)
          <6> HIDE DEF h
          <6> QED BY <5>1
        <5>3. h[i] = Next1(f, i)
          <6> HIDE DEF Next1
          <6>1. CASE i = n
            BY <6>1
          <6>2. CASE i # n
            <7>1. i \in 0..n - 1
              BY <6>2
            <7> HIDE DEF h
            <7> QED BY <4>2, <7>1
          <6> QED BY <6>1, <6>2
        <5> HIDE DEF h, Next1
        <5> QED BY <5>2, <5>3
      <4>4. h = [i \in 0..n |-> h[i]]
        OBVIOUS
      <4>5. Up(h, n)
        <5> HIDE DEF h, Next1
        <5> QED BY <4>3, <4>4 DEF Up
      <4> QED BY <4>5
    <3>3. N \in Can
      <4> HIDE DEF Can
      <4>1. \A n \in 0..N : n \in Can
        BY <3>0, <3>1, <3>2, UpTo
      <4> QED BY <3>0, <4>1
    <3>4. PICK f : Up(f, N)
      <4> HIDE DEF Up
      <4> QED BY <3>3
    <3> QED BY <1>3, <3>4
  <2> HIDE DEF R
  <2> QED BY <2>1
<1>7. g[0] = base /\ \A i \in 1..N : g[i] = TakeHeader(r, max, raw, g[i - 1], order[i])
  <2> HIDE DEF g, base
  <2> QED BY <1>1, <1>3, <1>6
<1> HIDE DEF g
<1>8. 0 \in G
  <2>1. sums[{}] = 0
    BY DEF Sums
  <2>2. Met(0) = {} /\ 0 \in 0..N
    BY <1>1
  <2>3. Loop(r, max, raw, sums, base, {})
    BY <2>1, LoopStarts
  <2> HIDE DEF base, Met, N
  <2> QED BY <1>7, <2>2, <2>3
<1>9. \A i \in 1..N : i - 1 \in G => i \in G
  <2> SUFFICES ASSUME NEW i \in 1..N, Loop(r, max, raw, sums, g[i - 1], Met(i - 1))
               PROVE  Loop(r, max, raw, sums, g[i], Met(i))
    <3> HIDE DEF Met, N
    <3>1. \A i \in 1..N : i \in 0..N
      BY <1>1
    <3> QED BY <3>1
  <2>1. PICK T, name : T = Met(i - 1) /\ name = order[i]
    OBVIOUS
  <2>2. T \in SUBSET H /\ name \in H /\ name \notin T /\ Met(i) = T \cup {name}
    <3>1. \A j \in 1..i : j \in 1..i - 1 \/ j = i
      OBVIOUS
    <3>2. \A j \in 1..i - 1 : j \in 1..N /\ j # i /\ j \in 1..i
      BY <1>1
    <3>3. i \in 1..i
      OBVIOUS
    <3> QED BY <1>2, <2>1, <3>1, <3>2, <3>3
  <2>3. g[i] = TakeHeader(r, max, raw, g[i - 1], name)
    BY <1>7, <2>1
  <2>4. Loop(r, max, raw, sums, g[i - 1], T)
    BY <2>1
  <2> HIDE DEF Met, H
  <2>5. Loop(r, max, raw, sums, TakeHeader(r, max, raw, g[i - 1], name), T \cup {name})
    BY <2>2, <2>4, LoopGoesOn DEF H
  <2> QED BY <2>2, <2>3, <2>5
<1>10. N \in G
  <2> HIDE DEF G, N
  <2>1. \A i \in 0..N : i \in G
    BY <1>1, <1>8, <1>9, UpTo
  <2> QED BY <1>1, <2>1
<1>11. Loop(r, max, raw, sums, g[N], H)
  BY <1>4, <1>10
<1> QED BY <1>5, <1>11

\* all lines but those of Host
LEMMA HostApart ==
  ASSUME NEW r, IsRequest(r), NEW w \in [Names(r) -> Nat], NEW sums, Sums(sums, w, Names(r)),
         NEW H, H = DOMAIN r.header
  PROVE  /\ sums[H] \in Nat
         /\ sums[Names(r)] = sums[H] + IF r.host = <<>> THEN 0 ELSE w[HostName]
<1>1. /\ IsFiniteSet(Names(r)) /\ Names(r) = H \cup (IF r.host = <<>> THEN {} ELSE {HostName})
      /\ HostName \notin H
  BY RequestTypes
<1>2. H \in SUBSET Names(r) /\ Names(r) \in SUBSET Names(r)
  BY <1>1
<1>3. sums[H] \in Nat
  BY <1>1, <1>2, SumIsNumber
<1>4. CASE r.host = <<>>
  BY <1>1, <1>3, <1>4
<1>5. CASE r.host # <<>>
  <2>1. HostName \in Names(r) /\ Names(r) \ {HostName} = H
    BY <1>1, <1>5
  <2>2. sums[Names(r)] = w[HostName] + sums[Names(r) \ {HostName}]
    <3>1. IsFiniteSet(Names(r)) /\ Names(r) \in SUBSET Names(r)
      BY <1>1
    <3> QED BY <2>1, <3>1, SumGrows
  <2>3. PICK h \in Nat, l \in Nat : h = sums[H] /\ l = w[HostName]
    BY <1>3, <2>1
  <2>4. sums[Names(r)] = l + h
    BY <2>1, <2>2, <2>3
  <2> QED BY <1>3, <1>5, <2>3, <2>4
<1> QED BY <1>4, <1>5

\* What is in the table when the loop is over and Host was added.
LEMMA HostTaken ==
  ASSUME NEW r, IsRequest(r), NEW max \in Int, NEW raw \in BOOLEAN, NEW sums,
         Sums(sums, [n \in Names(r) |-> Len(Values(r, n))], Names(r)),
         NEW acc, Loop(r, max, raw, sums, acc, DOMAIN r.header),
         NEW got, got = TakeHost(r, max, raw, acc), NEW total, total = sums[Names(r)]
  PROVE  /\ \A k \in DOMAIN got.table : \E n \in Names(r) : k = Key(n, raw)
         /\ \A n \in Names(r) : Part(got.table, n, raw, Values(r, n))
         /\ \A w, kept : /\ w \in [Names(r) -> Nat] /\ Sums(kept, w, Names(r))
                         /\ \A n \in Names(r) : w[n] = Len(Kept(got.table, n, raw))
                         => /\ kept[Names(r)] = CASE max = 0 -> total
                                                [] max > 0 -> IF max < total THEN max ELSE total
                                                [] OTHER   -> total - HostLines(r)
                            /\ max >= 0 => (got.truncated <=> kept[Names(r)] < total)
<1> DEFINE H == DOMAIN r.header
           S == Names(r)
           v == [n \in S |-> Len(Values(r, n))]
<1>1. /\ IsFiniteSet(S) /\ S = H \cup (IF r.host = <<>> THEN {} ELSE {HostName})
      /\ HostName \notin H /\ Values(r, HostName) = r.host
      /\ r.host \in Seq(Range(r.host)) /\ Len(r.host) <= 1 /\ v \in [S -> Nat]
      /\ \A n \in H : Values(r, n) = r.header[n]
  BY RequestTypes
<1>2. r.host # <<>> => Len(r.host) = 1
  <2>1. Len(r.host) \in Nat /\ (Len(r.host) = 0 => r.host = <<>>)
    BY <1>1
  <2>2. PICK l \in Nat : l = Len(r.host) /\ (l = 0 => r.host = <<>>)
    BY <2>1
  <2>3. Len(r.host) <= 1
    BY <1>1
  <2>4. l # 0 => l = 1
    <3>1. l <= 1
      BY <2>2, <2>3, Zenon
    <3> QED BY <3>1
  <2> QED BY <2>2, <2>4, Zenon
<1>3. PICK h \in Nat : h = sums[H] /\ total = h + HostLines(r)
  <2>1. Sums(sums, v, S)
    OBVIOUS
  <2> HIDE DEF v
  <2>2. sums[H] \in Nat /\ sums[S] = sums[H] + IF r.host = <<>> THEN 0 ELSE v[HostName]
    <3>1. v \in [S -> Nat]
      BY <1>1
    <3> QED BY <2>1, <3>1, HostApart
  <2>3. r.host # <<>> => v[HostName] = 1
    BY <1>1, <1>2 DEF v
  <2> QED BY <2>2, <2>3 DEF HostLines
<1>4. PICK c \in Nat : /\ c = acc.count
                       /\ c = IF max > 0 /\ max < h THEN max ELSE h
  BY <1>3 DEF Loop
<1>5. acc.truncated \in BOOLEAN /\ (acc.truncated <=> c < h)
  BY <1>3, <1>4 DEF Loop
<1>6. Key(HostName, raw) \notin DOMAIN acc.table
  <2>1. \A n \in H : Key(n, raw) # Key(HostName, raw)
    <3>1. \A n \in H : n # HostName /\ n \in S
      BY <1>1
    <3> QED BY <3>1, KeysDiffer
  <2> QED BY <2>1 DEF Loop
<1>7. CASE r.host = <<>>
  <2>1. got = acc /\ S = H /\ HostLines(r) = 0
    BY <1>1, <1>7 DEF TakeHost, HostLines
  <2>2. \A k \in DOMAIN acc.table : \E n \in H : k = Key(n, raw)
    BY DEF Loop
  <2>3. \A n \in H : Part(acc.table, n, raw, Values(r, n))
    BY <1>1 DEF Loop
  <2>4. ASSUME NEW w, NEW kept, w \in [S -> Nat], Sums(kept, w, S),
               \A n \in S : w[n] = Len(Kept(got.table, n, raw))
        PROVE  kept[S] = c
    BY <1>4, <2>1, <2>4 DEF Loop
  <2>5. total = h
    BY <1>3, <2>1
  <2>6. /\ c = CASE max = 0 -> total
                 [] max > 0 -> IF max < total THEN max ELSE total
                 [] OTHER   -> total - HostLines(r)
        /\ max >= 0 => (got.truncated <=> c < total)
    BY <1>4, <1>5, <2>1, <2>5
  <2> QED BY <2>1, <2>2, <2>3, <2>4, <2>6
<1>8. CASE r.host # <<>>
  <2> DEFINE added == max = 0 \/ c < max
             new == IF added THEN 1 ELSE 0
  <2>1. /\ got.table = IF added THEN Extend(acc.table, Key(HostName, raw), r.host) ELSE acc.table
        /\ got.truncated = IF added THEN acc.truncated ELSE acc.truncated \/ max > 0
    BY <1>4, <1>8 DEF TakeHost, Loop
  <2>2. HostName \in S /\ H \subseteq S /\ HostLines(r) = 1
    BY <1>1, <1>8 DEF HostLines
  <2>3. \A k \in DOMAIN got.table : \E n \in S : k = Key(n, raw)
    <3>1. DOMAIN got.table \subseteq DOMAIN acc.table \cup {Key(HostName, raw)}
      BY <2>1 DEF Extend
    <3> QED BY <2>2, <3>1 DEF Loop
  <2>4. \A n \in H : Kept(got.table, n, raw) = Kept(acc.table, n, raw)
    <3> SUFFICES ASSUME NEW n \in H PROVE Kept(got.table, n, raw) = Kept(acc.table, n, raw)
      OBVIOUS
    <3>1. Key(n, raw) # Key(HostName, raw)
      <4>1. n # HostName /\ n \in S
        BY <1>1
      <4> QED BY <4>1, KeysDiffer
    <3>2. CASE added
      BY <2>1, <3>1, <3>2 DEF Kept, Extend
    <3>3. CASE ~added
      BY <2>1, <3>3
    <3> QED BY <3>2, <3>3
  <2>5. Kept(got.table, HostName, raw) = IF added THEN r.host ELSE <<>>
    BY <1>6, <2>1 DEF Kept, Extend
  <2>6. \A n \in S : Part(got.table, n, raw, Values(r, n))
    <3>1. \A n \in H : Part(got.table, n, raw, Values(r, n))
      BY <1>1, <2>4 DEF Loop, Part
    <3>2. Part(got.table, HostName, raw, r.host)
      <4>1. SubSeq(r.host, 1, Len(r.host)) = r.host
        BY <1>1, SubSeqFull
      <4>2. SubSeq(r.host, 1, 0) = <<>>
        BY <1>1, SubSeqEmpty
      <4>3. 0 \in 0..Len(r.host) /\ Len(r.host) \in 0..Len(r.host)
        BY <1>2, <1>8
      <4> HIDE DEF added
      <4> QED BY <2>5, <4>1, <4>2, <4>3 DEF Part
    <3> QED BY <1>1, <3>1, <3>2
  <2>7. ASSUME NEW w, NEW kept, w \in [S -> Nat], Sums(kept, w, S),
               \A n \in S : w[n] = Len(Kept(got.table, n, raw))
        PROVE  kept[S] = c + new
    <3>1. \A n \in H : w[n] = Len(Kept(acc.table, n, raw))
      BY <2>2, <2>4, <2>7
    <3>2. kept[H] = c
      BY <1>4, <2>7, <3>1 DEF Loop
    <3>3. w[HostName] = new
      BY <1>2, <1>8, <2>2, <2>5, <2>7
    <3>4. w \in [S -> Nat] /\ Sums(kept, w, S)
      BY <2>7
    <3>5. kept[S] = kept[H] + IF r.host = <<>> THEN 0 ELSE w[HostName]
      BY <3>4, HostApart
    <3> QED BY <1>8, <3>2, <3>3, <3>5
  <2>8. total = h + 1
    BY <1>3, <2>2
  <2>9. /\ c + new = CASE max = 0 -> total
                       [] max > 0 -> IF max < total THEN max ELSE total
                       [] OTHER   -> total - HostLines(r)
        /\ max >= 0 => (got.truncated <=> c + new < total)
    <3>1. PICK b \in BOOLEAN, d \in BOOLEAN :
            b = acc.truncated /\ d = got.truncated /\ d = IF added THEN b ELSE b \/ max > 0
      BY <1>5, <2>1
    <3>2. b <=> c < h
      BY <1>5, <3>1
    <3>3. c = IF max > 0 /\ max < h THEN max ELSE h
      BY <1>4
    <3>4. CASE max = 0
      <4>1. new = 1 /\ c = h /\ ~b /\ d = b
        BY <3>1, <3>2, <3>3, <3>4
      <4> QED BY <2>8, <3>1, <3>4, <4>1
    <3>5. CASE max > 0
      <4>1. CASE c < max
        <5>1. new = 1 /\ c = h /\ ~b /\ d = b
          BY <3>1, <3>2, <3>3, <3>5, <4>1
        <5> QED BY <2>8, <3>1, <3>5, <4>1, <5>1
      <4>2. CASE ~(c < max)
        <5>1. new = 0 /\ c = max /\ max < h + 1 /\ d
          BY <3>1, <3>3, <3>5, <4>2
        <5> QED BY <2>8, <3>1, <3>5, <5>1
      <4> QED BY <4>1, <4>2
    <3>6. CASE max < 0
      <4>1. new = 0 /\ c = h
        BY <3>3, <3>6
      <4> QED BY <2>2, <2>8, <3>6, <4>1
    <3> QED BY <3>4, <3>5, <3>6
  <2> HIDE DEF new, added
  <2> QED BY <2>3, <2>6, <2>7, <2>9
<1> QED BY <1>7, <1>8

LEMMA PartIsPrefix ==
  ASSUME NEW t, NEW n, NEW raw, NEW V, NEW lines \in Seq(V), Part(t, n, raw, lines)
  PROVE  IsPrefix(Kept(t, n, raw), lines) /\ Len(Kept(t, n, raw)) \in Nat
<1>1. PICK m \in 0..Len(lines) : Kept(t, n, raw) = SubSeq(lines, 1, m)
  BY DEF Part
<1>2. PICK s \in Seq(V) : s = Kept(t, n, raw) /\ s = SubSeq(lines, 1, m) /\ Len(s) = m
  BY <1>1, SubSeqProperties
<1>3. SubSeq(s, 1, Len(s)) = s
  BY <1>2, SubSeqFull
<1>4. IsPrefix(s, lines)
  BY <1>2, <1>3 DEF IsPrefix
<1> QED BY <1>2, <1>4

LEMMA LowerAndHyphen ==
  ASSUME NEW x, NEW y, NEW how
  PROVE  /\ ToLower(Name(x, y, how)) = Name(x, y, "lower")
         /\ Normalized(Name(x, y, how)) = Name(x, "-", "lower")
<1>1. ToLower(Name(x, y, how)) = Name(x, y, "lower")
  BY DEF ToLower, Name
<1>2. [Name(x, y, "lower") EXCEPT !.sep = "-"] = Name(x, "-", "lower")
  BY DEF Name
<1>3. Normalized(Name(x, y, how)) = Name(x, "-", "lower")
  BY <1>1, <1>2 DEF Normalized
<1> QED BY <1>1, <1>3

Respell(n, sep, how) == [n EXCEPT !.sep = sep, !.spelling = how]

LEMMA Respelled ==
  ASSUME NEW n, NEW x, NEW y, n = Name(x, y, "canonical"), NEW sep, NEW how
  PROVE  Respell(n, sep, how) = Name(x, sep, how)
<1>1. [n EXCEPT !.sep = sep] = Name(x, sep, "canonical")
  BY DEF Name
<1>2. Respell(n, sep, how) = [[n EXCEPT !.sep = sep] EXCEPT !.spelling = how]
  BY DEF Respell
<1>3. [Name(x, sep, "canonical") EXCEPT !.spelling = how] = Name(x, sep, how)
  BY DEF Name
<1> QED BY <1>1, <1>2, <1>3

\* however a name with a hyphen is written
LEMMA SpelledOut ==
  ASSUME NEW r, IsRequest(r), NEW t, NEW n \in Names(r)
  PROVE  /\ Kept(t, n, FALSE) # <<>> => Lookup(t, ToLower(n), FALSE) = Kept(t, n, FALSE)
         /\ n.sep = "-" => \A other \in Spellings(n) \ DOMAIN t :
                             Lookup(t, other, FALSE) = Kept(t, n, FALSE)
<1>1. PICK x, y : x = n.words /\ y = n.sep /\ n = Name(x, y, "canonical")
  BY RequestTypes
<1>2. Key(n, FALSE) = ToLower(n)
  BY DEF Key
<1>3. Kept(t, n, FALSE) # <<>> => Lookup(t, ToLower(n), FALSE) = Kept(t, n, FALSE)
  BY <1>2 DEF Kept, Lookup
<1>4. ASSUME n.sep = "-", NEW other \in Spellings(n), other \notin DOMAIN t
      PROVE  Lookup(t, other, FALSE) = Kept(t, n, FALSE)
  <2>1. PICK sep, how : other = Respell(n, sep, how)
    <3>1. PICK sep \in {"-", "_"}, how \in {"canonical", "lower"} :
            other = [n EXCEPT !.sep = sep, !.spelling = how]
      BY <1>4 DEF Spellings
    <3>2. other = Respell(n, sep, how)
      BY <3>1, Zenon DEF Respell
    <3> QED BY <3>2, Zenon
  <2>2. other = Name(x, sep, how)
    BY <1>1, <2>1, Respelled
  <2>3. Normalized(other) = Name(x, "-", "lower")
    BY <2>2, LowerAndHyphen
  <2>4. ToLower(n) = Name(x, "-", "lower")
    BY <1>1, <1>4, LowerAndHyphen
  <2> QED BY <1>2, <1>4, <2>3, <2>4 DEF Kept, Lookup
<1> QED BY <1>3, <1>4

LEMMA GotIsExact ==
  ASSUME NEW r, IsRequest(r), NEW max \in Int, NEW raw \in BOOLEAN, NEW order \in Orders(DOMAIN r.header),
         NEW got, got = GetHeaders(r, max, raw, order),
         NEW t, t = got.table, NEW num, num = LinesIn(t, r, raw)
  PROVE  /\ DOMAIN t \subseteq {Key(n, raw) : n \in Names(r)}
         /\ \A n \in Names(r) : IsPrefix(Kept(t, n, raw), Values(r, n))
         /\ num = Allowed(r, max)
         /\ max >= 0 => (got.truncated <=> num < Total(r))
<1> DEFINE S == Names(r)
           v == [n \in S |-> Len(Values(r, n))]
           w == [n \in S |-> Len(Kept(t, n, raw))]
<1>1. IsFiniteSet(S)
  BY RequestTypes
<1>2. PICK sums : Sums(sums, v, S) /\ Total(r) = sums[S]
  BY <1>1, TotalIs
<1>3. PICK kept : Sums(kept, w, S) /\ num = kept[S]
  BY <1>1, KeptIs
<1>4. PICK acc : Loop(r, max, raw, sums, acc, DOMAIN r.header) /\ got = TakeHost(r, max, raw, acc)
  <2>1. Sums(sums, [n \in Names(r) |-> Len(Values(r, n))], Names(r))
    BY <1>2
  <2> HIDE DEF S, v, w
  <2>2. \E acc : /\ Loop(r, max, raw, sums, acc, DOMAIN r.header)
                 /\ GetHeaders(r, max, raw, order) = TakeHost(r, max, raw, acc)
    BY <2>1, LoopEnds
  <2> QED BY <2>2
<1>5. PICK total : total = sums[S] /\ total = Total(r)
  BY <1>2
<1>6. /\ \A k \in DOMAIN t : \E n \in S : k = Key(n, raw)
      /\ \A n \in S : Part(t, n, raw, Values(r, n))
      /\ \A x, y : /\ x \in [S -> Nat] /\ Sums(y, x, S)
                   /\ \A n \in S : x[n] = Len(Kept(t, n, raw))
                   => /\ y[S] = CASE max = 0 -> total
                                  [] max > 0 -> IF max < total THEN max ELSE total
                                  [] OTHER   -> total - HostLines(r)
                      /\ max >= 0 => (got.truncated <=> y[S] < total)
  <2>1. Sums(sums, [n \in Names(r) |-> Len(Values(r, n))], Names(r))
    BY <1>2
  <2>2. total = sums[Names(r)]
    BY <1>5
  <2> HIDE DEF v, w
  <2> QED BY <1>4, <2>1, <2>2, HostTaken
<1>7. \A n \in S : IsPrefix(Kept(t, n, raw), Values(r, n)) /\ Len(Kept(t, n, raw)) \in Nat
  <2> SUFFICES ASSUME NEW n \in S
               PROVE  IsPrefix(Kept(t, n, raw), Values(r, n)) /\ Len(Kept(t, n, raw)) \in Nat
    OBVIOUS
  <2>1. \E V : Values(r, n) \in Seq(V)
    <3>1. n = HostName \/ n \in DOMAIN r.header
      BY RequestTypes
    <3>2. CASE n = HostName
      BY <3>2, RequestTypes
    <3>3. CASE n \in DOMAIN r.header
      BY <3>3, RequestTypes
    <3> QED BY <3>1, <3>2, <3>3
  <2>2. Part(t, n, raw, Values(r, n))
    BY <1>6
  <2> QED BY <2>1, <2>2, PartIsPrefix
<1>8. w \in [S -> Nat] /\ \A n \in S : w[n] = Len(Kept(t, n, raw))
  BY <1>7
<1> HIDE DEF S, v, w
<1>9. /\ num = CASE max = 0 -> total
                 [] max > 0 -> IF max < total THEN max ELSE total
                 [] OTHER   -> total - HostLines(r)
      /\ max >= 0 => (got.truncated <=> num < total)
  BY <1>3, <1>6, <1>8
<1>10. num = Allowed(r, max) /\ (max >= 0 => (got.truncated <=> num < Total(r)))
  BY <1>5, <1>9 DEF Allowed
<1>11. DOMAIN t \subseteq {Key(n, raw) : n \in S}
  BY <1>6
<1> QED BY <1>7, <1>10, <1>11 DEF S

\* For every request, limit and order of the map, get_headers returns as many
\* lines as it may, the first of each header, reports a cut exactly when a line is
\* missing (unless the limit is negative), and finds each header in the normalized
\* table under every spelling that is not another header's.
THEOREM HeadersAreExact == Spec => []HeadersExact
<1>1. Init => HeadersExact
  BY DEF Init, NoCall, HeadersExact
<1>2. HeadersExact /\ [Next]_last => HeadersExact'
  <2> SUFFICES ASSUME HeadersExact, [Next]_last PROVE HeadersExact'
    OBVIOUS
  <2>1. ASSUME NEW r \in Requests, NEW max \in Maxima, NEW raw \in BOOLEAN, ReqGetHeaders(r, max, raw)
        PROVE  HeadersExact'
    <3>1. PICK order \in Orders(DOMAIN r.header) :
            last' = [call |-> "headers", req |-> r, max |-> max, raw |-> raw,
                     got |-> GetHeaders(r, max, raw, order)]
      BY <2>1 DEF ReqGetHeaders, Calls
    <3>2. PICK got : got = GetHeaders(r, max, raw, order)
      OBVIOUS
    <3>3. /\ last'.call = "headers" /\ last'.req = r /\ last'.max = max /\ last'.raw = raw
          /\ last'.got = got
      BY <3>1, <3>2
    <3>4. IsRequest(r) /\ max \in Int
      BY RequestsAssumption, MaximaAssumption
    <3>5. PICK num, t : num = LinesIn(t, r, raw) /\ t = got.table
      OBVIOUS
    <3>6. /\ DOMAIN t \subseteq {Key(n, raw) : n \in Names(r)}
          /\ \A n \in Names(r) : IsPrefix(Kept(t, n, raw), Values(r, n))
          /\ num = Allowed(r, max)
          /\ max >= 0 => (got.truncated <=> num < Total(r))
      BY <3>2, <3>4, <3>5, GotIsExact
    <3>7. \A n \in Names(r) :
            /\ Kept(t, n, FALSE) # <<>>
                 => Lookup(t, ToLower(n), FALSE) = Kept(t, n, FALSE)
            /\ n.sep = "-" => \A other \in Spellings(n) \ DOMAIN t :
                                Lookup(t, other, FALSE) = Kept(t, n, FALSE)
      BY <3>4, SpelledOut
    <3>8. /\ last'.got.table = t /\ last'.got.truncated = got.truncated
          /\ LinesIn(last'.got.table, last'.req, last'.raw) = num
      BY <3>3, <3>5
    <3> QED BY <3>3, <3>6, <3>7, <3>8 DEF HeadersExact
  <2>2. CASE last'.call # "headers"
    BY <2>2 DEF HeadersExact
  <2>3. CASE UNCHANGED last
    BY <2>3 DEF HeadersExact
  <2>4. ASSUME Call, ~ \E r \in Requests, max \in Maxima, raw \in BOOLEAN : ReqGetHeaders(r, max, raw)
        PROVE  last'.call # "headers"
    BY <2>4 DEF Call, Calls, GetArgs, Unescape, Escape, PushBatch, PushCapture, Say, Send, Fetch
  <2> QED BY <2>1, <2>2, <2>3, <2>4 DEF Next
<1> QED BY <1>1, <1>2, PTL DEF Spec

-----------------------------------------------------------------------------
(* The fields of a query string.                                           *)

Splits(upto, s) ==
  /\ upto[0] = << <<>> >>
  /\ \A i \in 1..Len(s) : upto[i] = AddByte(upto[i - 1], s[i])

Lists == {fields \in Seq(Seq(Byte)) : Len(fields) > 0}

LEMMA AddByteType ==
  ASSUME NEW fields \in Lists, NEW b \in Byte
  PROVE  AddByte(fields, b) \in Lists
<1>1. fields \in Seq(Seq(Byte)) /\ Len(fields) \in 1..Len(fields) /\ <<>> \in Seq(Byte)
  BY DEF Lists
<1>2. CASE b = Amp
  BY <1>1, <1>2 DEF AddByte, Lists
<1>3. CASE b # Amp
  <2>1. fields[Len(fields)] \in Seq(Byte)
    BY <1>1
  <2>2. Append(fields[Len(fields)], b) \in Seq(Byte)
    BY <2>1
  <2>3. AddByte(fields, b) = [fields EXCEPT ![Len(fields)] = Append(fields[Len(fields)], b)]
    BY <1>3 DEF AddByte
  <2>4. [fields EXCEPT ![Len(fields)] = Append(fields[Len(fields)], b)] \in Seq(Seq(Byte))
    BY <1>1, <2>2, ExceptSeq
  <2>5. Len([fields EXCEPT ![Len(fields)] = Append(fields[Len(fields)], b)]) = Len(fields)
    BY <1>1, <2>2, ExceptSeq
  <2> QED BY <1>1, <2>3, <2>4, <2>5 DEF Lists
<1> QED BY <1>2, <1>3

LEMMA Splitting ==
  ASSUME NEW s \in Seq(Byte)
  PROVE  \E upto : Splits(upto, s) /\ SplitAmp(s) = upto[Len(s)]
<1> DEFINE N == Len(s)
           step == [i \in 1..N |-> [x \in Lists |-> AddByte(x, s[i])]]
           R(f) == f = [i \in 0..N |-> IF i = 0 THEN << <<>> >> ELSE AddByte(f[i - 1], s[i])]
           g == CHOOSE f : R(f)
<1>1. N \in Nat /\ \A i \in 1..N : s[i] \in Byte
  OBVIOUS
<1>2. PICK f : Solves(f, N, Lists, << <<>> >>, step)
  <2>1. step \in [1..N -> [Lists -> Lists]]
    BY <1>1, AddByteType
  <2>2. << <<>> >> \in Lists
    BY DEF Lists
  <2> HIDE DEF step, N
  <2> QED BY <1>1, <2>1, <2>2, StepsSolve
<1>3. R(f)
  <2>1. f \in [0..N -> Lists] /\ f[0] = << <<>> >> /\ \A i \in 1..N : f[i] = step[i][f[i - 1]]
    BY <1>2 DEF Solves
  <2>2. \A i \in 1..N : f[i - 1] \in Lists
    <3>1. \A i \in 1..N : i - 1 \in 0..N
      BY <1>1
    <3> QED BY <2>1, <3>1, Zenon
  <2>3. \A i \in 1..N : f[i] = AddByte(f[i - 1], s[i])
    BY <2>1, <2>2
  <2>4. f = [i \in 0..N |-> f[i]]
    BY <2>1
  <2> HIDE DEF N, step
  <2>5. \A i \in 0..N : f[i] = IF i = 0 THEN << <<>> >> ELSE AddByte(f[i - 1], s[i])
    <3>1. \A i \in 0..N : i = 0 \/ i \in 1..N
      BY <1>1
    <3> QED BY <2>1, <2>3, <3>1
  <2> QED BY <2>4, <2>5
<1>4. R(g)
  <2> HIDE DEF R
  <2> QED BY <1>3
<1>5. SplitAmp(s) = g[N]
  BY DEF SplitAmp
<1> HIDE DEF g
<1>6. g[0] = << <<>> >> /\ \A i \in 1..N : g[i] = AddByte(g[i - 1], s[i])
  BY <1>1, <1>4
<1> QED BY <1>5, <1>6 DEF Splits

\* The fields that the first i bytes of s are split into; from[k] bytes stand
\* before the k-th.
Fields(s, i, fields, from) ==
  LET M == Len(fields) IN
  /\ from \in [1..M -> Nat] /\ from[1] = 0 /\ from[M] + Len(fields[M]) = i
  /\ \A k \in 1..M : \A j \in 1..Len(fields[k]) :
       s[from[k] + j] = fields[k][j] /\ fields[k][j] # Amp
  /\ \A k \in 2..M : from[k] = from[k - 1] + Len(fields[k - 1]) + 1 /\ s[from[k]] = Amp
  /\ \A j \in 1..i : s[j] = Amp => \E k \in 2..M : from[k] = j

LEMMA FieldEnds ==
  ASSUME NEW s \in Seq(Byte), NEW i \in 1..Len(s), s[i] = Amp,
         NEW fields \in Lists, NEW from, Fields(s, i - 1, fields, from)
  PROVE  \E next : Fields(s, i, AddByte(fields, s[i]), next)
<1> DEFINE M == Len(fields)
           F == Append(fields, <<>>)
           next == [k \in 1..M + 1 |-> IF k = M + 1 THEN i ELSE from[k]]
<1>1. fields \in Seq(Seq(Byte)) /\ M \in Nat /\ M > 0 /\ i \in Nat
  BY DEF Lists
<1>2. AddByte(fields, s[i]) = F
  BY DEF AddByte
<1>3. Len(F) = M + 1 /\ F[M + 1] = <<>> /\ \A k \in 1..M : F[k] = fields[k]
  BY <1>1
<1>4. /\ from \in [1..M -> Nat] /\ from[1] = 0 /\ from[M] + Len(fields[M]) = i - 1
      /\ \A k \in 1..M : \A j \in 1..Len(fields[k]) :
           s[from[k] + j] = fields[k][j] /\ fields[k][j] # Amp
      /\ \A k \in 2..M : from[k] = from[k - 1] + Len(fields[k - 1]) + 1 /\ s[from[k]] = Amp
      /\ \A j \in 1..i - 1 : s[j] = Amp => \E k \in 2..M : from[k] = j
  BY DEF Fields
<1>5. next[M + 1] = i /\ \A k \in 1..M : next[k] = from[k]
  BY <1>1
<1>6. next \in [1..M + 1 -> Nat] /\ next[1] = 0
  <2>1. \A k \in 1..M : from[k] \in Nat
    BY <1>4
  <2>2. next \in [1..M + 1 -> Nat]
    BY <1>1, <2>1
  <2> HIDE DEF next
  <2> QED BY <1>1, <1>4, <1>5, <2>2
<1>11. M \in 1..M /\ fields[M] \in Seq(Byte)
  BY <1>1
<1> HIDE DEF next, F, M
<1>7. next[M + 1] + Len(F[M + 1]) = i
  BY <1>1, <1>3, <1>5
<1>8. ASSUME NEW k \in 1..M + 1, NEW j \in 1..Len(F[k])
      PROVE  s[next[k] + j] = F[k][j] /\ F[k][j] # Amp
  <2>1. k \in 1..M
    BY <1>1, <1>3
  <2> QED BY <1>3, <1>4, <1>5, <2>1
<1>9. ASSUME NEW k \in 2..M + 1
      PROVE  next[k] = next[k - 1] + Len(F[k - 1]) + 1 /\ s[next[k]] = Amp
  <2>1. k - 1 \in 1..M
    BY <1>1
  <2>2. next[k - 1] = from[k - 1] /\ F[k - 1] = fields[k - 1]
    BY <1>3, <1>5, <2>1
  <2>3. CASE k \in 1..M
    <3>1. k \in 2..M
      BY <1>1, <2>3
    <3>2. from[k] = from[k - 1] + Len(fields[k - 1]) + 1 /\ s[from[k]] = Amp
      BY <1>4, <3>1
    <3>3. next[k] = from[k]
      BY <1>5, <2>3
    <3> QED BY <2>2, <3>2, <3>3
  <2>4. CASE k = M + 1
    <3>1. k - 1 = M
      BY <1>1, <2>4
    <3>2. from[M] + Len(fields[M]) + 1 = i
      <4>1. fields[M] \in Seq(Byte) /\ from[M] \in Nat
        BY <1>1, <1>4, <1>11
      <4> QED BY <1>1, <1>4, <4>1
    <3> QED BY <1>5, <2>2, <2>4, <3>1, <3>2
  <2> QED BY <1>1, <2>3, <2>4
<1>10. ASSUME NEW j \in 1..i, s[j] = Amp
       PROVE  \E k \in 2..M + 1 : next[k] = j
  <2>1. CASE j = i
    <3>1. M + 1 \in 2..M + 1
      BY <1>1
    <3> QED BY <1>5, <2>1, <3>1
  <2>2. CASE j # i
    <3>1. PICK k \in 2..M : from[k] = j
      BY <1>1, <1>4, <1>10, <2>2
    <3>2. k \in 1..M /\ k \in 2..M + 1
      BY <1>1
    <3> QED BY <1>5, <3>1, <3>2
  <2> QED BY <2>1, <2>2
<1>12. Fields(s, i, F, next)
  BY <1>3, <1>6, <1>7, <1>8, <1>9, <1>10 DEF Fields
<1> QED BY <1>2, <1>12

LEMMA FieldGrows ==
  ASSUME NEW s \in Seq(Byte), NEW i \in 1..Len(s), s[i] # Amp,
         NEW fields \in Lists, NEW from, Fields(s, i - 1, fields, from)
  PROVE  Fields(s, i, AddByte(fields, s[i]), from)
<1> DEFINE M == Len(fields)
           F == AddByte(fields, s[i])
<1>1. fields \in Seq(Seq(Byte)) /\ M \in Nat /\ M > 0 /\ i \in Nat /\ s[i] \in Byte
  BY DEF Lists
<1>2. PICK f \in Seq(Byte), g \in Seq(Byte) : f = fields[M] /\ g = Append(f, s[i])
  <2>1. M \in 1..M
    BY <1>1
  <2>2. fields[M] \in Seq(Byte)
    BY <1>1, <2>1
  <2>3. Append(fields[M], s[i]) \in Seq(Byte)
    BY <1>1, <2>2
  <2> QED BY <2>2, <2>3
<1>3. /\ g \in Seq(Byte) /\ Len(g) = Len(f) + 1 /\ g[Len(f) + 1] = s[i]
      /\ \A j \in 1..Len(f) : g[j] = f[j]
  BY <1>1, <1>2
<1>4. F = [fields EXCEPT ![M] = g]
  BY <1>2 DEF AddByte
<1>5. Len(F) = M /\ \A k \in 1..M : F[k] = IF k = M THEN g ELSE fields[k]
  <2>1. M \in 1..M
    BY <1>1
  <2> QED BY <1>1, <1>3, <1>4, <2>1, ExceptSeq
<1>6. /\ from \in [1..M -> Nat] /\ from[1] = 0 /\ from[M] + Len(f) = i - 1
      /\ \A k \in 1..M : \A j \in 1..Len(fields[k]) :
           s[from[k] + j] = fields[k][j] /\ fields[k][j] # Amp
      /\ \A k \in 2..M : from[k] = from[k - 1] + Len(fields[k - 1]) + 1 /\ s[from[k]] = Amp
      /\ \A j \in 1..i - 1 : s[j] = Amp => \E k \in 2..M : from[k] = j
  BY <1>2 DEF Fields
<1> HIDE DEF F, M
<1>7. from[M] \in Nat /\ from[M] + Len(F[M]) = i /\ from[M] + Len(f) + 1 = i
  <2>1. F[M] = g /\ Len(f) \in Nat /\ from[M] \in Nat
    BY <1>1, <1>5, <1>6
  <2> QED BY <1>1, <1>3, <1>6, <2>1
<1>8. ASSUME NEW k \in 1..M, NEW j \in 1..Len(F[k])
      PROVE  s[from[k] + j] = F[k][j] /\ F[k][j] # Amp
  <2>1. CASE k # M
    <3>1. F[k] = fields[k]
      BY <1>5, <2>1
    <3> QED BY <1>6, <3>1
  <2>2. CASE k = M /\ j \in 1..Len(f)
    <3>1. F[k] = g /\ g[j] = f[j]
      BY <1>3, <1>5, <2>2
    <3>2. s[from[M] + j] = f[j] /\ f[j] # Amp
      BY <1>2, <1>6, <2>2
    <3> QED BY <2>2, <3>1, <3>2
  <2>3. CASE k = M /\ j = Len(f) + 1
    <3>1. from[k] + j = i
      BY <1>3, <1>7, <2>3
    <3> QED BY <1>3, <1>5, <2>3, <3>1
  <2>4. Len(f) \in Nat
    BY <1>2
  <2> QED BY <1>3, <1>5, <2>1, <2>2, <2>3, <2>4
<1>9. ASSUME NEW k \in 2..M
      PROVE  from[k] = from[k - 1] + Len(F[k - 1]) + 1 /\ s[from[k]] = Amp
  <2>1. k - 1 \in 1..M /\ k - 1 # M
    BY <1>1
  <2> QED BY <1>5, <1>6, <2>1
<1>10. ASSUME NEW j \in 1..i, s[j] = Amp
       PROVE  \E k \in 2..M : from[k] = j
  <2>1. j # i
    BY <1>10
  <2>2. j \in 1..i - 1
    BY <1>1, <2>1
  <2> QED BY <1>6, <1>10, <2>2
<1> QED BY <1>5, <1>6, <1>7, <1>8, <1>9, <1>10 DEF Fields, F

LEMMA FieldsAre ==
  ASSUME NEW s \in Seq(Byte)
  PROVE  SplitAmp(s) \in Lists /\ \E from : Fields(s, Len(s), SplitAmp(s), from)
<1> DEFINE N == Len(s)
<1>1. N \in Nat /\ \A i \in 1..N : s[i] \in Byte
  OBVIOUS
<1>2. PICK upto : Splits(upto, s) /\ SplitAmp(s) = upto[N]
  BY Splitting
<1> DEFINE S == {i \in 0..N : upto[i] \in Lists /\ \E from : Fields(s, i, upto[i], from)}
<1>3. 0 \in S
  <2>1. upto[0] = << <<>> >>
    BY <1>2 DEF Splits
  <2>2. << <<>> >> \in Lists
    BY DEF Lists
  <2>3. Fields(s, 0, << <<>> >>, [k \in 1..1 |-> 0])
    BY DEF Fields
  <2> QED BY <1>1, <2>1, <2>2, <2>3
<1>4. \A i \in 1..N : i - 1 \in S => i \in S
  <2> SUFFICES ASSUME NEW i \in 1..N, i - 1 \in S PROVE i \in S
    OBVIOUS
  <2>1. PICK fields, from : fields = upto[i - 1] /\ Fields(s, i - 1, fields, from)
    OBVIOUS
  <2>2. fields \in Lists
    BY <2>1
  <2>3. upto[i] = AddByte(fields, s[i])
    BY <1>2, <2>1 DEF Splits
  <2>4. AddByte(fields, s[i]) \in Lists
    BY <1>1, <2>2, AddByteType
  <2>5. i \in 0..N /\ i \in 1..Len(s)
    BY <1>1
  <2>6. \E next : Fields(s, i, AddByte(fields, s[i]), next)
    <3>1. CASE s[i] = Amp
      BY <2>1, <2>2, <2>5, <3>1, FieldEnds
    <3>2. CASE s[i] # Amp
      BY <2>1, <2>2, <2>5, <3>2, FieldGrows
    <3> QED BY <3>1, <3>2
  <2> HIDE DEF N
  <2> QED BY <2>3, <2>4, <2>5, <2>6
<1>5. N \in S
  <2>1. N \in 0..N
    BY <1>1
  <2> HIDE DEF S, N
  <2> QED BY <1>1, <1>3, <1>4, <2>1, UpTo
<1> QED BY <1>2, <1>5

\* no field is behind the end, and later ones start later
LEMMA FieldsApart ==
  ASSUME NEW s \in Seq(Byte), NEW fields \in Lists, NEW from, Fields(s, Len(s), fields, from),
         NEW M, M = Len(fields)
  PROVE  /\ M \in Nat /\ M > 0
         /\ \A k \in 1..M : from[k] \in Nat /\ fields[k] \in Seq(Byte) /\ from[k] + Len(fields[k]) <= Len(s)
         /\ \A k \in 1..M : \A l \in 1..k - 1 : from[l] + Len(fields[l]) + 1 <= from[k]
<1>1. /\ fields \in Seq(Seq(Byte)) /\ M \in Nat /\ M > 0
      /\ \A k \in 1..M : from[k] \in Nat /\ fields[k] \in Seq(Byte)
  <2>1. fields \in Seq(Seq(Byte)) /\ M \in Nat /\ M > 0
    BY DEF Lists
  <2>2. from \in [1..M -> Nat]
    BY DEF Fields
  <2> QED BY <2>1, <2>2
<1>2. /\ from[M] + Len(fields[M]) = Len(s)
      /\ \A k \in 2..M : from[k] = from[k - 1] + Len(fields[k - 1]) + 1
  BY DEF Fields
<1>3. \A k \in 1..M : Len(fields[k]) \in Nat
  BY <1>1
<1>4. \A k \in 1..M : \A l \in 1..k - 1 : from[l] + Len(fields[l]) + 1 <= from[k]
  <2> DEFINE S == {k \in 0..M : \A l \in 1..k - 1 : from[l] + Len(fields[l]) + 1 <= from[k]}
  <2>1. 0 \in S
    BY <1>1
  <2>2. \A k \in 1..M : k - 1 \in S => k \in S
    <3> SUFFICES ASSUME NEW k \in 1..M, k - 1 \in S PROVE k \in S
      OBVIOUS
    <3> SUFFICES ASSUME NEW l \in 1..k - 1
                 PROVE  from[l] + Len(fields[l]) + 1 <= from[k]
      BY <1>1
    <3>1. k \in 2..M /\ k - 1 \in 1..M /\ l \in 1..M
      BY <1>1
    <3>2. from[k] = from[k - 1] + Len(fields[k - 1]) + 1
      BY <1>2, <3>1
    <3>3. /\ from[l] \in Nat /\ Len(fields[l]) \in Nat
          /\ from[k - 1] \in Nat /\ Len(fields[k - 1]) \in Nat
      BY <1>1, <1>3, <3>1
    <3>4. CASE l = k - 1
      BY <3>2, <3>3, <3>4
    <3>5. CASE l # k - 1
      <4>1. l \in 1..k - 1 - 1
        BY <3>1, <3>5
      <4>2. from[l] + Len(fields[l]) + 1 <= from[k - 1]
        BY <4>1
      <4> QED BY <3>2, <3>3, <4>2
    <3> QED BY <3>4, <3>5
  <2> HIDE DEF S
  <2>3. \A k \in 0..M : k \in S
    BY <1>1, <2>1, <2>2, UpTo
  <2> QED BY <1>1, <2>3 DEF S
<1>5. ASSUME NEW k \in 1..M PROVE from[k] + Len(fields[k]) <= Len(s)
  <2>1. CASE k = M
    BY <1>1, <1>2, <2>1
  <2>2. CASE k # M
    <3>1. M \in 1..M /\ k \in 1..M - 1
      BY <1>1, <2>2
    <3>2. from[k] + Len(fields[k]) + 1 <= from[M]
      BY <1>4, <3>1
    <3>3. /\ from[M] \in Nat /\ Len(fields[M]) \in Nat
          /\ from[k] \in Nat /\ Len(fields[k]) \in Nat
      BY <1>1, <1>3, <3>1
    <3> QED BY <1>2, <3>2, <3>3
  <2> QED BY <2>1, <2>2
<1> QED BY <1>1, <1>4, <1>5

\* the place of a field
Span(fields, from, k) == <<from[k] + 1, from[k] + Len(fields[k])>>

\* A field that is not empty is a part.
LEMMA FieldIsPart ==
  ASSUME NEW s \in Seq(Byte), NEW fields \in Lists, NEW from, Fields(s, Len(s), fields, from),
         NEW k \in 1..Len(fields), fields[k] # <<>>
  PROVE  Span(fields, from, k) \in Parts(s)
<1> DEFINE M == Len(fields)
           a == from[k] + 1
           e == from[k] + Len(fields[k])
<1>1. /\ M \in Nat /\ M > 0 /\ from[k] \in Nat /\ fields[k] \in Seq(Byte) /\ e <= Len(s)
  BY FieldsApart
<1>2. Len(fields[k]) \in Nat /\ Len(fields[k]) > 0
  BY <1>1
<1>3. a \in 1..Len(s) /\ e \in 1..Len(s) /\ a <= e
  BY <1>1, <1>2
<1>4. \A j \in 1..Len(fields[k]) : s[from[k] + j] = fields[k][j] /\ fields[k][j] # Amp
  BY DEF Fields
<1>5. ASSUME NEW i \in a..e PROVE s[i] # Amp
  <2>1. PICK j \in 1..Len(fields[k]) : from[k] + j = i
    <3>1. i - from[k] \in 1..Len(fields[k]) /\ from[k] + (i - from[k]) = i
      BY <1>1, <1>2
    <3> QED BY <3>1
  <2> QED BY <1>4, <2>1
<1>6. a = 1 \/ s[a - 1] = Amp
  <2>1. a - 1 = from[k]
    BY <1>1
  <2>2. CASE k = 1
    BY <2>2 DEF Fields
  <2>3. CASE k # 1
    <3>1. k \in 2..M
      BY <1>1, <2>3
    <3> QED BY <2>1, <3>1 DEF Fields
  <2> QED BY <2>2, <2>3
<1>7. e = Len(s) \/ s[e + 1] = Amp
  <2>1. CASE k = M
    BY <2>1 DEF Fields
  <2>2. CASE k # M
    <3>1. k + 1 \in 2..M /\ k + 1 - 1 = k
      BY <1>1, <2>2
    <3>2. from[k + 1] = e + 1 /\ s[from[k + 1]] = Amp
      BY <3>1 DEF Fields
    <3> QED BY <3>2
  <2> QED BY <2>1, <2>2
<1>8. Span(fields, from, k) = <<a, e>>
  BY DEF Span
<1> HIDE DEF a, e
<1>9. <<a, e>> \in (1..Len(s)) \X (1..Len(s)) /\ <<a, e>>[1] = a /\ <<a, e>>[2] = e
  BY <1>3
<1>10. PICK p : p = <<a, e>> /\ p \in (1..Len(s)) \X (1..Len(s)) /\ p[1] = a /\ p[2] = e
  BY <1>9
<1>11. p \in Parts(s)
  BY <1>3, <1>5, <1>6, <1>7, <1>10 DEF Parts
<1> QED BY <1>8, <1>10, <1>11

\* There is no other part.
LEMMA PartIsField ==
  ASSUME NEW s \in Seq(Byte), NEW fields \in Lists, NEW from, Fields(s, Len(s), fields, from),
         NEW p \in Parts(s)
  PROVE  \E k \in 1..Len(fields) : fields[k] # <<>> /\ p = Span(fields, from, k)
<1> DEFINE M == Len(fields)
           N == Len(s)
<1>1. PICK a \in 1..N, e \in 1..N :
        /\ p = <<a, e>> /\ a <= e /\ \A i \in a..e : s[i] # Amp
        /\ a = 1 \/ s[a - 1] = Amp
        /\ e = N \/ s[e + 1] = Amp
  BY DEF Parts
<1>2. /\ M \in Nat /\ M > 0 /\ N \in Nat
      /\ \A k \in 1..M : from[k] \in Nat /\ fields[k] \in Seq(Byte)
      /\ \A k \in 1..M : Len(fields[k]) \in Nat
      /\ \A k \in 1..M : from[k] + Len(fields[k]) <= N
  BY FieldsApart
<1>3. PICK k \in 1..M : from[k] + 1 = a
  <2>1. CASE a = 1
    <3>1. 1 \in 1..M /\ from[1] = 0
      BY <1>2 DEF Fields
    <3> QED BY <2>1, <3>1
  <2>2. CASE a # 1
    <3>1. a - 1 \in 1..N /\ s[a - 1] = Amp
      BY <1>1, <1>2, <2>2
    <3>2. PICK k \in 2..M : from[k] = a - 1
      BY <3>1 DEF Fields
    <3>3. k \in 1..M /\ from[k] + 1 = a
      BY <1>2, <3>2
    <3> QED BY <3>3
  <2> QED BY <2>1, <2>2
<1>4. PICK f \in Nat, n \in Nat : f = from[k] /\ n = Len(fields[k]) /\ f + n <= N /\ a = f + 1
  BY <1>2, <1>3
<1>5. \A j \in 1..n : s[f + j] # Amp
  <2>1. \A j \in 1..Len(fields[k]) : s[from[k] + j] = fields[k][j] /\ fields[k][j] # Amp
    BY DEF Fields
  <2> QED BY <1>4, <2>1
<1>11. f \in Int /\ n \in Int /\ e \in Int /\ N \in Int /\ f + 1 <= e /\ e <= N /\ f + n <= N
  BY <1>1, <1>4
<1>6. f + n = N \/ (f + n + 1 <= N /\ s[f + n + 1] = Amp)
  <2>1. CASE k = M
    BY <1>4, <2>1 DEF Fields
  <2>2. CASE k # M
    <3>1. k + 1 \in 2..M /\ k + 1 - 1 = k /\ k + 1 \in 1..M
      BY <1>2, <2>2
    <3>2. from[k + 1] = f + n + 1 /\ s[from[k + 1]] = Amp
      BY <1>4, <3>1 DEF Fields
    <3>3. from[k + 1] + Len(fields[k + 1]) <= N /\ Len(fields[k + 1]) \in Nat
      BY <1>2, <3>1
    <3>4. PICK x \in Nat : x = Len(fields[k + 1])
      BY <3>3
    <3>5. f + n + 1 + x <= N
      BY <3>2, <3>3, <3>4
    <3> QED BY <1>11, <3>2, <3>4, <3>5
  <2> QED BY <2>1, <2>2
<1>7. e = f + n
  <2>1. e < f + n => s[e + 1] # Amp /\ e # N
    <3> SUFFICES ASSUME e < f + n PROVE s[e + 1] # Amp /\ e # N
      OBVIOUS
    <3>1. PICK j \in 1..n : f + j = e + 1
      <4>1. e + 1 - f \in 1..n /\ f + (e + 1 - f) = e + 1
        BY <1>11
      <4> QED BY <4>1
    <3>2. s[e + 1] # Amp
      BY <1>5, <3>1
    <3> QED BY <1>11, <3>2
  <2>2. ~ (f + n < e)
    <3> SUFFICES ASSUME f + n < e PROVE FALSE
      OBVIOUS
    <3>1. f + n + 1 \in a..e
      BY <1>1, <1>4
    <3>2. PICK i \in a..e : i = f + n + 1
      BY <3>1
    <3>3. f + n # N
      BY <1>11
    <3>4. s[i] = Amp
      BY <1>6, <3>2, <3>3
    <3> QED BY <1>1, <3>2, <3>4
  <2>3. ~ (e < f + n)
    BY <1>1, <2>1
  <2> QED BY <1>11, <2>2, <2>3
<1>8. n > 0
  BY <1>1, <1>4, <1>7
<1>9. fields[k] # <<>>
  BY <1>4, <1>8
<1>10. p = Span(fields, from, k)
  BY <1>1, <1>4, <1>7 DEF Span
<1> QED BY <1>9, <1>10

-----------------------------------------------------------------------------
(* An argument.                                                            *)

LEMMA StandsForByte ==
  ASSUME NEW s \in Seq(Byte), NEW i \in 1..Len(s)
  PROVE  StandsFor(s, i) \in Byte
<1>1. s[i] \in Byte
  OBVIOUS
<1>2. \A b \in Int : IsHex(b) => HexValue(b) \in 0..15
  BY DEF IsHex, HexValue, Digits, HexFrom
<1>3. CASE EscapedAt(s, i)
  <2>1. PICK hi, lo : hi = s[i + 1] /\ lo = s[i + 2]
    OBVIOUS
  <2>2. IsHex(hi) /\ IsHex(lo) /\ i + 1 \in 1..Len(s) /\ i + 2 \in 1..Len(s)
    BY <1>3, <2>1 DEF EscapedAt
  <2>3. hi \in Int /\ lo \in Int
    <3>1. hi \in Byte /\ lo \in Byte
      BY <2>1, <2>2
    <3> QED BY <3>1 DEF Byte
  <2>4. HexValue(hi) \in 0..15 /\ HexValue(lo) \in 0..15
    BY <1>2, <2>2, <2>3
  <2>5. PICK x, y : x = HexValue(hi) /\ y = HexValue(lo) /\ x \in 0..15 /\ y \in 0..15
    BY <2>4
  <2>6. UnHex(hi, lo) = x * 16 + y
    BY <2>5 DEF UnHex
  <2>7. x * 16 + y \in Byte
    <3>1. x \in Int /\ y \in Int /\ 0 <= x /\ x <= 15 /\ 0 <= y /\ y <= 15
      BY <2>5
    <3>2. PICK z \in Int : z = x * 16 + y
      BY <3>1
    <3>3. 0 <= z /\ z <= 255
      BY <3>1, <3>2
    <3>4. z \in Byte
      BY ONLY <3>3, z \in Int DEF Byte
    <3> QED BY <3>2, <3>4
  <2>8. StandsFor(s, i) = UnHex(hi, lo)
    <3>1. s[i] # Plus
      BY <1>3 DEF EscapedAt, Percent, Plus
    <3> QED BY <1>3, <2>1, <3>1 DEF StandsFor
  <2> QED BY <2>6, <2>7, <2>8
<1>4. CASE ~EscapedAt(s, i)
  BY <1>1, <1>4 DEF StandsFor, Space, Byte
<1> QED BY <1>3, <1>4

\* what is decoded is not longer
LEMMA UnescapeType ==
  ASSUME NEW s \in Seq(Byte)
  PROVE  UnescapeURI(s) \in Seq(Byte) /\ Len(UnescapeURI(s)) <= Len(s)
<1>1. PICK from : Decodes(from, s) /\ UnescapeURI(s) = from[1]
  BY UnescapeIs
<1> DEFINE N == Len(s)
           S == {n \in 0..N : \A i \in n + 1 .. N + 1 :
                   from[i] \in Seq(Byte) /\ Len(from[i]) <= N + 1 - i}
<1>2. N \in Nat
  OBVIOUS
<1>3. N \in S
  <2>1. from[N + 1] = <<>>
    BY <1>1 DEF Decodes
  <2>2. from[N + 1] \in Seq(Byte) /\ Len(from[N + 1]) = 0
    BY <2>1
  <2>3. \A i \in N + 1 .. N + 1 : i = N + 1
    BY <1>2
  <2>4. N \in 0..N /\ N + 1 - (N + 1) = 0
    BY <1>2
  <2> HIDE DEF N
  <2> QED BY <2>2, <2>3, <2>4
<1>4. \A n \in 1..N : n \in S => n - 1 \in S
  <2> SUFFICES ASSUME NEW n \in 1..N, n \in S PROVE n - 1 \in S
    OBVIOUS
  <2>1. \A i \in n + 1 .. N + 1 : from[i] \in Seq(Byte) /\ Len(from[i]) <= N + 1 - i
    OBVIOUS
  <2>2. PICK m : m = After(s, n) /\ m \in n + 1 .. N + 1
    BY AfterIs
  <2>3. PICK rest \in Seq(Byte), b \in Byte : rest = from[m] /\ b = StandsFor(s, n)
    BY <2>1, <2>2, StandsForByte
  <2>4. from[n] = <<b>> \o rest
    BY <1>1, <2>2, <2>3 DEF Decodes
  <2>5. Len(rest) <= N + 1 - m /\ Len(rest) \in Nat
    BY <2>1, <2>2, <2>3
  <2>6. <<b>> \in Seq(Byte) /\ Len(<<b>>) = 1
    OBVIOUS
  <2>7. from[n] \in Seq(Byte) /\ Len(from[n]) = 1 + Len(rest)
    BY <2>4, <2>6, ConcatProperties
  <2>8. Len(from[n]) <= N + 1 - n
    BY <1>2, <2>2, <2>5, <2>7
  <2>9. \A i \in n - 1 + 1 .. N + 1 : i = n \/ i \in n + 1 .. N + 1
    OBVIOUS
  <2>10. n - 1 \in 0..N
    BY <1>2
  <2> HIDE DEF N
  <2> QED BY <2>1, <2>7, <2>8, <2>9, <2>10
<1>5. 0 \in S
  <2>1. 0 \in 0..N
    BY <1>2
  <2> HIDE DEF S, N
  <2> QED BY <1>2, <1>3, <1>4, <2>1, DownTo
<1>6. 1 \in 0 + 1 .. N + 1 /\ N + 1 - 1 = N
  BY <1>2
<1>7. from[1] \in Seq(Byte) /\ Len(from[1]) <= N + 1 - 1
  BY <1>5, <1>6
<1> QED BY <1>1, <1>6, <1>7

LEMMA DecodedType ==
  ASSUME NEW s \in Seq(Byte)
  PROVE  Decoded(s) \in Seq(Byte) /\ Len(Decoded(s)) <= Len(s)
BY UnescapeType DEF Decoded

LEMMA SliceOfSlice ==
  ASSUME NEW s \in Seq(Byte), NEW a \in 1..Len(s), NEW e \in a..Len(s), NEW t, t = SubSeq(s, a, e),
         NEW m \in 1..Len(t) + 1, NEW n \in m - 1 .. Len(t)
  PROVE  /\ t \in Seq(Byte) /\ Len(t) = e - a + 1 /\ \A i \in 1..Len(t) : t[i] = s[a + i - 1]
         /\ SubSeq(t, m, n) = SubSeq(s, a + m - 1, a + n - 1)
         /\ SubSeq(t, m, n) \in Seq(Byte) /\ Len(SubSeq(t, m, n)) <= Len(t)
<1>1. /\ t \in Seq(Byte) /\ Len(t) = e - a + 1 /\ \A i \in 1..Len(t) : t[i] = s[a + i - 1]
  <2>1. \A i \in a..e : s[i] \in Byte
    OBVIOUS
  <2>2. a \in Int /\ e \in Int /\ a <= e
    OBVIOUS
  <2> QED BY <2>1, <2>2, SubSeqProperties
<1>2. PICK x \in Int, y \in Int : x = a + m - 1 /\ y = a + n - 1
  BY <1>1
<1>3. PICK u, v : u = SubSeq(t, m, n) /\ v = SubSeq(s, x, y)
  OBVIOUS
<1>4. /\ u \in Seq(Byte) /\ Len(u) = n - m + 1 /\ \A i \in 1 .. n - m + 1 : u[i] = t[m + i - 1]
  <2>1. \A i \in m..n : t[i] \in Byte
    BY <1>1
  <2>2. m \in Int /\ n \in Int /\ (m <= n \/ n - m + 1 = 0)
    BY <1>1
  <2> QED BY <1>3, <2>1, <2>2, SubSeqProperties
<1>5. /\ v \in Seq(Byte) /\ Len(v) = n - m + 1 /\ \A i \in 1 .. n - m + 1 : v[i] = s[x + i - 1]
  <2>1. \A i \in x..y : s[i] \in Byte
    BY <1>1, <1>2
  <2>2. (x <= y \/ n - m + 1 = 0) /\ y - x + 1 = n - m + 1
    BY <1>1, <1>2
  <2> QED BY <1>3, <2>1, <2>2, SubSeqProperties
<1>6. \A i \in 1 .. n - m + 1 : u[i] = v[i]
  <2> SUFFICES ASSUME NEW i \in 1 .. n - m + 1 PROVE u[i] = v[i]
    OBVIOUS
  <2>1. m + i - 1 \in 1..Len(t) /\ a + (m + i - 1) - 1 = x + i - 1
    BY <1>1, <1>2
  <2>2. t[m + i - 1] = s[a + (m + i - 1) - 1]
    BY <1>1, <2>1
  <2> QED BY <1>4, <1>5, <2>1, <2>2
<1>7. u = v
  BY <1>4, <1>5, <1>6, SeqEqual
<1>8. Len(u) <= Len(t)
  BY <1>1, <1>4
<1> QED BY <1>1, <1>2, <1>3, <1>4, <1>7, <1>8

LEMMA SliceAgain ==
  ASSUME NEW s \in Seq(Byte), NEW a \in 1..Len(s), NEW e \in a..Len(s), NEW t, t = SubSeq(s, a, e),
         NEW m \in Int, NEW n \in Int, 1 <= m, m - 1 <= n, n <= e - a + 1,
         NEW x, NEW y, x = a + m - 1, y = a + n - 1
  PROVE  SubSeq(t, m, n) = SubSeq(s, x, y)
<1>1. Len(t) = e - a + 1
  <2>1. \A i \in a..e : s[i] \in Byte
    OBVIOUS
  <2>2. a \in Int /\ e \in Int /\ a <= e
    OBVIOUS
  <2> QED BY <2>1, <2>2, SubSeqProperties
<1>2. m \in 1..Len(t) + 1 /\ n \in m - 1 .. Len(t)
  BY <1>1
<1>3. PICK k \in 1..Len(t) + 1, l \in m - 1 .. Len(t) : k = m /\ l = n
  BY <1>2
<1>4. l \in k - 1 .. Len(t)
  BY <1>3
<1>5. SubSeq(t, k, l) = SubSeq(s, a + k - 1, a + l - 1)
  BY <1>4, SliceOfSlice
<1> QED BY <1>3, <1>5

Arguments == [key : Seq(Byte), value : Seq(Byte), isBoolean : BOOLEAN]

\* the key of a part has e bytes
KeyOf(part, e) ==
  /\ e \in 0..Len(part) /\ \A i \in 1..e : part[i] # Equals
  /\ e = Len(part) \/ part[e + 1] = Equals

CutAt(part, e) ==
  IF e = Len(part) THEN [key |-> Decoded(part), value |-> <<>>, isBoolean |-> TRUE]
  ELSE [key |-> Decoded(SubSeq(part, 1, e)),
        value |-> Decoded(SubSeq(part, e + 2, Len(part))), isBoolean |-> FALSE]

LEMMA CutIs ==
  ASSUME NEW part \in Seq(Byte)
  PROVE  \E e : KeyOf(part, e) /\ Cut(part) = CutAt(part, e)
<1> DEFINE N == Len(part)
           S == {i \in 1..N : part[i] = Equals}
           first == CHOOSE x \in S : \A y \in S : x <= y
           at == IF S # {} THEN first ELSE 0
<1>1. N \in Nat
  OBVIOUS
<1>2. SelectInSeq(part, LAMBDA b : b = Equals) = at
  BY DEF SelectInSeq, Min
<1>3. Cut(part) = IF at = 0 THEN [key |-> Decoded(part), value |-> <<>>, isBoolean |-> TRUE]
                  ELSE [key |-> Decoded(SubSeq(part, 1, at - 1)),
                        value |-> Decoded(SubSeq(part, at + 1, N)), isBoolean |-> FALSE]
  BY <1>2 DEF Cut
<1>4. CASE S = {}
  <2>1. at = 0
    BY <1>4
  <2>2. KeyOf(part, N)
    BY <1>1, <1>4 DEF KeyOf
  <2>3. CutAt(part, N) = [key |-> Decoded(part), value |-> <<>>, isBoolean |-> TRUE]
    BY DEF CutAt
  <2> HIDE DEF at
  <2> QED BY <1>3, <2>1, <2>2, <2>3
<1>5. CASE S # {}
  <2>1. \E x \in S : \A y \in S : x <= y
    <3>1. S \subseteq Nat
      OBVIOUS
    <3> HIDE DEF S
    <3> QED BY <1>5, <3>1, LeastNumber
  <2>2. first \in S /\ \A y \in S : first <= y
    <3> HIDE DEF S
    <3> QED BY <2>1
  <2>3. at = first
    BY <1>5
  <2> HIDE DEF first, at
  <2>4. at \in 1..N /\ part[at] = Equals /\ \A y \in S : at <= y
    BY <2>2, <2>3
  <2>5. PICK e \in 0..N : e = at - 1 /\ at = e + 1
    BY <1>1, <2>4
  <2>6. ASSUME NEW i \in 1..e PROVE part[i] # Equals
    <3>1. i \in 1..N /\ i < at
      BY <1>1, <2>4, <2>5
    <3> QED BY <2>4, <3>1
  <2>7. KeyOf(part, e)
    BY <2>4, <2>5, <2>6 DEF KeyOf
  <2>8. at # 0 /\ e # N /\ at + 1 = e + 2
    BY <1>1, <2>4, <2>5
  <2>9. Cut(part) = CutAt(part, e)
    <3> HIDE DEF S
    <3> QED BY <1>3, <2>5, <2>8 DEF CutAt
  <2> QED BY <2>7, <2>9
<1> QED BY <1>4, <1>5

LEMMA CutType ==
  ASSUME NEW part \in Seq(Byte)
  PROVE  Cut(part) \in Arguments /\ Len(Cut(part).key) <= Len(part) /\ Len(Cut(part).value) <= Len(part)
<1>1. PICK e : KeyOf(part, e) /\ Cut(part) = CutAt(part, e)
  BY CutIs
<1>2. e \in 0..Len(part) /\ Len(part) \in Nat
  BY <1>1 DEF KeyOf
<1>3. CASE e = Len(part)
  <2>1. Cut(part) = [key |-> Decoded(part), value |-> <<>>, isBoolean |-> TRUE]
    BY <1>1, <1>3 DEF CutAt
  <2>2. Decoded(part) \in Seq(Byte) /\ Len(Decoded(part)) <= Len(part)
    BY DecodedType
  <2>3. <<>> \in Seq(Byte) /\ Len(<<>>) <= Len(part)
    BY <1>2
  <2> QED BY <2>1, <2>2, <2>3 DEF Arguments
<1>4. CASE e # Len(part)
  <2>1. PICK u, v : u = SubSeq(part, 1, e) /\ v = SubSeq(part, e + 2, Len(part))
    OBVIOUS
  <2>2. Cut(part) = [key |-> Decoded(u), value |-> Decoded(v), isBoolean |-> FALSE]
    BY <1>1, <1>4, <2>1 DEF CutAt
  <2>3. /\ u \in Seq(Byte) /\ Len(u) <= Len(part)
    <3>1. \A i \in 1..e : part[i] \in Byte
      BY <1>2
    <3> QED BY <1>2, <2>1, <3>1, SubSeqProperties
  <2>4. /\ v \in Seq(Byte) /\ Len(v) <= Len(part)
    <3>1. \A i \in e + 2 .. Len(part) : part[i] \in Byte
      BY <1>2
    <3>2. e + 2 \in Int /\ Len(part) \in Int
      BY <1>2
    <3> QED BY <1>2, <2>1, <3>1, <3>2, SubSeqProperties
  <2>5. /\ Decoded(u) \in Seq(Byte) /\ Len(Decoded(u)) <= Len(part)
        /\ Decoded(v) \in Seq(Byte) /\ Len(Decoded(v)) <= Len(part)
    <3>1. Decoded(u) \in Seq(Byte) /\ Len(Decoded(u)) <= Len(u)
      BY <2>3, DecodedType
    <3>2. Decoded(v) \in Seq(Byte) /\ Len(Decoded(v)) <= Len(v)
      BY <2>4, DecodedType
    <3>3. \A x \in Seq(Byte) : Len(x) \in Nat
      OBVIOUS
    <3> QED BY <1>2, <2>3, <2>4, <3>1, <3>2, <3>3
  <2> QED BY <2>2, <2>5 DEF Arguments
<1> QED BY <1>3, <1>4

\* what an argument is for Lua
Worth(arg) == IF arg.isBoolean THEN LuaBool(TRUE) ELSE LuaStr(arg.value)

PartText(s, p) == SubSeq(s, p[1], p[2])

LEMMA PartPlace ==
  ASSUME NEW s \in Seq(Byte), NEW p \in Parts(s)
  PROVE  p[1] \in 1..Len(s) /\ p[2] \in p[1]..Len(s) /\ p[1] <= p[2] /\ p = <<p[1], p[2]>>
<1>1. p \in (1..Len(s)) \X (1..Len(s)) /\ p[1] <= p[2]
  BY DEF Parts
<1>2. p[1] \in 1..Len(s) /\ p[2] \in 1..Len(s) /\ p = <<p[1], p[2]>>
  BY <1>1
<1> QED BY <1>1, <1>2

\* The reference cuts a part where the parser does.
LEMMA PartArgument ==
  ASSUME NEW s \in Seq(Byte), NEW p \in Parts(s), NEW part, part = PartText(s, p)
  PROVE  /\ part \in Seq(Byte) /\ Len(part) <= Len(s)
         /\ Cut(part).key = ArgKey(s, p) /\ Worth(Cut(part)) = ArgValue(s, p)
<1>1. PICK a \in 1..Len(s), z \in 1..Len(s) : a <= z /\ a = p[1] /\ z = p[2] /\ z \in a..Len(s)
  BY PartPlace
<1>2. part = SubSeq(s, a, z)
  BY <1>1 DEF PartText
<1>3. 1 \in 1..Len(part) + 1 /\ 0 \in 1 - 1 .. Len(part)
  <2>1. \A i \in a..z : s[i] \in Byte
    OBVIOUS
  <2>2. part \in Seq(Byte)
    BY <1>2, <2>1, SubSeqProperties
  <2> QED BY <2>2
<1>4. part \in Seq(Byte) /\ Len(part) = z - a + 1 /\ \A i \in 1..Len(part) : part[i] = s[a + i - 1]
  <2>1. z \in a..Len(s)
    BY <1>1
  <2> QED BY <1>2, <1>3, <2>1, SliceOfSlice
<1>15. Len(part) <= Len(s)
  BY <1>1, <1>4
<1>5. PICK e : KeyOf(part, e) /\ Cut(part) = CutAt(part, e)
  BY <1>4, CutIs
<1>6. PICK N \in Nat : N = Len(part)
  BY <1>4
<1>7. /\ e \in 0..N /\ \A i \in 1..e : part[i] # Equals
      /\ e = N \/ part[e + 1] = Equals
      /\ N = z - a + 1 /\ \A i \in 1..N : part[i] = s[a + i - 1]
  BY <1>4, <1>5, <1>6 DEF KeyOf
<1>8. PICK x \in Int : x = a - 1 + e
  BY <1>7
<1> DEFINE Ends(y) == /\ \A i \in a..y : s[i] # Equals
                      /\ y = z \/ s[y + 1] = Equals
<1>9. x \in a - 1 .. z
  BY <1>7, <1>8
<1>10. Ends(x)
  <2>1. ASSUME NEW i \in a..x PROVE s[i] # Equals
    <3>1. PICK j \in 1..e : i = a + j - 1
      <4>1. i - a + 1 \in 1..e /\ i = a + (i - a + 1) - 1
        BY <1>7, <1>8
      <4> QED BY <4>1
    <3>2. j \in 1..N
      BY <1>7
    <3> QED BY <1>7, <3>1, <3>2
  <2>2. x = z \/ s[x + 1] = Equals
    <3>1. CASE e = N
      BY <1>7, <1>8, <3>1
    <3>2. CASE e # N
      <4>1. e + 1 \in 1..N /\ a + (e + 1) - 1 = x + 1
        BY <1>7, <1>8, <3>2
      <4> QED BY <1>7, <3>2, <4>1
    <3> QED BY <3>1, <3>2
  <2> QED BY <2>1, <2>2
<1>11. ASSUME NEW y \in a - 1 .. z, Ends(y) PROVE y = x
  <2>1. ~ (y < x)
    <3> SUFFICES ASSUME y < x PROVE FALSE
      OBVIOUS
    <3>1. y + 1 \in a..x /\ y # z
      BY <1>9
    <3> QED BY <1>10, <1>11, <3>1
  <2>2. ~ (x < y)
    <3> SUFFICES ASSUME x < y PROVE FALSE
      OBVIOUS
    <3>1. x + 1 \in a..y /\ x # z
      BY <1>9
    <3> QED BY <1>10, <1>11, <3>1
  <2> QED BY <1>8, <2>1, <2>2
<1>12. KeyEnd(s, p) = x
  <2>1. KeyEnd(s, p) = CHOOSE y \in a - 1 .. z : Ends(y)
    BY <1>1 DEF KeyEnd
  <2> HIDE DEF Ends
  <2> QED BY <1>9, <1>10, <1>11, <2>1
<1>13. CASE e = N
  <2>1. x = z
    BY <1>7, <1>8, <1>13
  <2>2. ArgKey(s, p) = Decoded(part) /\ ArgValue(s, p) = LuaBool(TRUE)
    BY <1>1, <1>2, <1>12, <2>1 DEF ArgKey, ArgValue
  <2>3. Cut(part) = [key |-> Decoded(part), value |-> <<>>, isBoolean |-> TRUE]
    BY <1>5, <1>6, <1>13 DEF CutAt
  <2>4. Cut(part).key = Decoded(part) /\ Worth(Cut(part)) = LuaBool(TRUE)
    BY <2>3 DEF Worth
  <2> QED BY <1>4, <1>15, <2>2, <2>4
<1>14. CASE e # N
  <2>1. x # z /\ a + e - 1 = x /\ a + (e + 2) - 1 = x + 2 /\ a + N - 1 = z /\ a + 1 - 1 = a
    BY <1>7, <1>8, <1>14
  <2>2. SubSeq(part, 1, e) = SubSeq(s, a, x)
    <3>1. z \in a..Len(s)
      BY <1>1
    <3>2. 1 - 1 <= e /\ e <= z - a + 1 /\ e \in Int /\ a = a + 1 - 1 /\ x = a + e - 1
      BY <1>7, <2>1
    <3> QED BY <1>2, <3>1, <3>2, SliceAgain
  <2>3. SubSeq(part, e + 2, N) = SubSeq(s, x + 2, z)
    <3>1. z \in a..Len(s)
      BY <1>1
    <3>2. PICK m \in Int, k \in Int : m = e + 2 /\ k = x + 2
      BY <1>7
    <3>3. 1 <= m /\ m - 1 <= N /\ N <= z - a + 1 /\ k = a + m - 1 /\ z = a + N - 1
      BY <1>7, <1>14, <2>1, <3>2
    <3>4. SubSeq(part, m, N) = SubSeq(s, k, z)
      BY <1>2, <3>1, <3>3, SliceAgain
    <3> QED BY <3>2, <3>4
  <2>4. PICK u, v : u = SubSeq(s, a, x) /\ v = SubSeq(s, x + 2, z)
    OBVIOUS
  <2>5. ArgKey(s, p) = Decoded(u) /\ ArgValue(s, p) = LuaStr(Decoded(v))
    BY <1>1, <1>12, <2>1, <2>4 DEF ArgKey, ArgValue
  <2>6. Cut(part) = [key |-> Decoded(u), value |-> Decoded(v), isBoolean |-> FALSE]
    BY <1>5, <1>6, <1>14, <2>2, <2>3, <2>4 DEF CutAt
  <2>7. Cut(part).key = Decoded(u) /\ Worth(Cut(part)) = LuaStr(Decoded(v))
    BY <2>6 DEF Worth
  <2> QED BY <1>4, <1>15, <2>5, <2>7
<1> QED BY <1>13, <1>14

-----------------------------------------------------------------------------
(* The parser's loop over the fields.                                      *)

\* the parts among the first n fields
PartsOf(fields, from, n) == {Span(fields, from, k) : k \in {j \in 1..n : fields[j] # <<>>}}

LEMMA PartsFinite ==
  ASSUME NEW s \in Seq(Byte), NEW T, T \subseteq Parts(s)
  PROVE  IsFiniteSet(T) /\ Cardinality(T) \in Nat
<1>1. IsFiniteSet(1..Len(s))
  BY FS_Interval
<1>2. IsFiniteSet((1..Len(s)) \X (1..Len(s)))
  BY <1>1, FS_Product
<1>3. T \subseteq (1..Len(s)) \X (1..Len(s))
  BY DEF Parts
<1>4. IsFiniteSet(T)
  BY <1>2, <1>3, FS_Subset
<1> QED BY <1>4, FS_CardinalityType

LEMMA SpanStarts ==
  ASSUME NEW fields, NEW from, NEW k
  PROVE  Span(fields, from, k)[1] = from[k] + 1
BY DEF Span

\* the next field
LEMMA PartsGrow ==
  ASSUME NEW s \in Seq(Byte), NEW fields \in Lists, NEW from, Fields(s, Len(s), fields, from),
         NEW n \in 1..Len(fields)
  PROVE  /\ PartsOf(fields, from, n) \subseteq Parts(s)
         /\ PartsOf(fields, from, n - 1) \subseteq PartsOf(fields, from, n)
         /\ fields[n] = <<>> => PartsOf(fields, from, n) = PartsOf(fields, from, n - 1)
         /\ fields[n] # <<>> =>
              /\ PartsOf(fields, from, n) = PartsOf(fields, from, n - 1) \cup {Span(fields, from, n)}
              /\ Span(fields, from, n) \notin PartsOf(fields, from, n - 1)
              /\ PartsOf(fields, from, n) = {o \in Parts(s) : o[1] <= Span(fields, from, n)[1]}
<1> DEFINE M == Len(fields)
           Filled == {j \in 1..n : fields[j] # <<>>}
           Before == {j \in 1 .. n - 1 : fields[j] # <<>>}
<1>1. /\ M \in Nat /\ \A k \in 1..M : from[k] \in Nat /\ fields[k] \in Seq(Byte)
      /\ \A k \in 1..M : \A l \in 1..k - 1 : from[l] + Len(fields[l]) + 1 <= from[k]
  BY FieldsApart
<1>2. \A k \in 1..M : \A l \in 1..k - 1 : from[l] < from[k]
  <2> SUFFICES ASSUME NEW k \in 1..M, NEW l \in 1..k - 1 PROVE from[l] < from[k]
    OBVIOUS
  <2>1. l \in 1..M
    BY <1>1
  <2>2. from[l] \in Nat /\ from[k] \in Nat /\ fields[l] \in Seq(Byte)
    BY <1>1, <2>1
  <2>3. Len(fields[l]) \in Nat
    BY <2>2
  <2>4. from[l] + Len(fields[l]) + 1 <= from[k]
    BY <1>1
  <2> QED BY <2>2, <2>3, <2>4
<1>3. /\ PartsOf(fields, from, n) = {Span(fields, from, k) : k \in Filled}
      /\ PartsOf(fields, from, n - 1) = {Span(fields, from, k) : k \in Before}
  BY DEF PartsOf
<1>4. PartsOf(fields, from, n) \subseteq Parts(s)
  <2>1. \A k \in Filled : Span(fields, from, k) \in Parts(s)
    <3> SUFFICES ASSUME NEW k \in Filled PROVE Span(fields, from, k) \in Parts(s)
      OBVIOUS
    <3>1. k \in 1..Len(fields) /\ fields[k] # <<>>
      BY <1>1
    <3> QED BY <3>1, FieldIsPart
  <2> HIDE DEF Filled
  <2> QED BY <1>3, <2>1
<1>5. Before \subseteq Filled
  OBVIOUS
<1>6. fields[n] = <<>> => Filled = Before
  BY <1>1
<1>7. fields[n] # <<>> => Filled = Before \cup {n}
  BY <1>1
<1>8. Span(fields, from, n) \notin PartsOf(fields, from, n - 1)
  <2> SUFFICES ASSUME NEW k \in Before, Span(fields, from, n) = Span(fields, from, k) PROVE FALSE
    BY <1>3
  <2>1. k \in 1..n - 1 /\ k \in 1..M
    BY <1>1
  <2>2. from[k] < from[n]
    BY <1>2, <2>1
  <2>3. from[n] + 1 = from[k] + 1
    <3>1. Span(fields, from, n)[1] = from[n] + 1 /\ Span(fields, from, k)[1] = from[k] + 1
      BY SpanStarts
    <3> QED BY <3>1
  <2>4. from[k] \in Nat /\ from[n] \in Nat
    BY <1>1, <2>1
  <2> QED BY <2>2, <2>3, <2>4
<1>9. ASSUME fields[n] # <<>>
      PROVE  PartsOf(fields, from, n) = {o \in Parts(s) : o[1] <= Span(fields, from, n)[1]}
  <2>1. \A k \in 1..M : k \in 1..n <=> Span(fields, from, k)[1] <= Span(fields, from, n)[1]
    <3> SUFFICES ASSUME NEW k \in 1..M
                 PROVE  k \in 1..n <=> Span(fields, from, k)[1] <= Span(fields, from, n)[1]
      OBVIOUS
    <3>1. Span(fields, from, n)[1] = from[n] + 1 /\ Span(fields, from, k)[1] = from[k] + 1
      BY SpanStarts
    <3>2. from[k] \in Nat /\ from[n] \in Nat
      BY <1>1
    <3>3. k < n => from[k] < from[n]
      BY <1>1, <1>2
    <3>4. n < k => from[n] < from[k]
      BY <1>1, <1>2
    <3>5. k \in Nat /\ n \in Nat /\ k >= 1
      BY <1>1
    <3> QED BY <3>1, <3>2, <3>3, <3>4, <3>5
  <2>2. ASSUME NEW o \in Parts(s), o[1] <= Span(fields, from, n)[1] PROVE o \in PartsOf(fields, from, n)
    <3>1. PICK k \in 1..M : fields[k] # <<>> /\ o = Span(fields, from, k)
      BY PartIsField
    <3>2. k \in Filled
      BY <2>1, <2>2, <3>1
    <3> HIDE DEF Filled
    <3> QED BY <1>3, <3>1, <3>2
  <2>3. ASSUME NEW o \in PartsOf(fields, from, n) PROVE o[1] <= Span(fields, from, n)[1]
    <3>1. PICK k \in Filled : o = Span(fields, from, k)
      BY <1>3
    <3>2. k \in 1..M /\ k \in 1..n
      BY <1>1
    <3> QED BY <2>1, <3>1, <3>2
  <2> QED BY <1>4, <2>2, <2>3
<1> HIDE DEF Filled, Before
<1> QED BY <1>3, <1>4, <1>5, <1>6, <1>7, <1>8, <1>9

Taken == [args : Seq(Arguments), truncated : BOOLEAN]

LEMMA TakeArgType ==
  ASSUME NEW max \in Int, NEW acc \in Taken, NEW part \in Seq(Byte)
  PROVE  TakeArg(max, acc, part) \in Taken
<1>1. Cut(part) \in Arguments
  BY CutType
<1>2. Append(acc.args, Cut(part)) \in Seq(Arguments)
  BY <1>1 DEF Taken
<1> QED BY <1>2 DEF TakeArg, Taken

Takes(after, max, parts) ==
  /\ after[0] = NoArgs
  /\ \A n \in 1..Len(parts) : after[n] = TakeArg(max, after[n - 1], parts[n]) /\ after[n - 1] \in Taken
  /\ after[Len(parts)] \in Taken

LEMMA Parsing ==
  ASSUME NEW s \in Seq(Byte), NEW max \in Int, NEW parts \in Lists, parts = SplitAmp(s)
  PROVE  \E after : Takes(after, max, parts) /\ ParseQueryString(s, max) = after[Len(parts)]
<1> DEFINE N == Len(parts)
           step == [i \in 1..N |-> [x \in Taken |-> TakeArg(max, x, parts[i])]]
           R(f) == f = [i \in 0..N |-> IF i = 0 THEN NoArgs ELSE TakeArg(max, f[i - 1], parts[i])]
           g == CHOOSE f : R(f)
<1>1. N \in Nat /\ \A i \in 1..N : parts[i] \in Seq(Byte)
  BY DEF Lists
<1>2. PICK f : Solves(f, N, Taken, NoArgs, step)
  <2>1. step \in [1..N -> [Taken -> Taken]]
    BY <1>1, TakeArgType
  <2>2. NoArgs \in Taken
    BY DEF NoArgs, Taken
  <2> HIDE DEF step, N
  <2> QED BY <1>1, <2>1, <2>2, StepsSolve
<1>3. R(f)
  <2>1. f \in [0..N -> Taken] /\ f[0] = NoArgs /\ \A i \in 1..N : f[i] = step[i][f[i - 1]]
    BY <1>2 DEF Solves
  <2>2. \A i \in 1..N : f[i - 1] \in Taken
    <3>1. \A i \in 1..N : i - 1 \in 0..N
      BY <1>1
    <3> QED BY <2>1, <3>1, Zenon
  <2>3. \A i \in 1..N : f[i] = TakeArg(max, f[i - 1], parts[i])
    BY <2>1, <2>2
  <2>4. f = [i \in 0..N |-> f[i]]
    BY <2>1
  <2> HIDE DEF N, step
  <2>5. \A i \in 0..N : f[i] = IF i = 0 THEN NoArgs ELSE TakeArg(max, f[i - 1], parts[i])
    <3>1. \A i \in 0..N : i = 0 \/ i \in 1..N
      BY <1>1
    <3> QED BY <2>1, <2>3, <3>1
  <2> QED BY <2>4, <2>5
<1>4. R(g)
  <2> HIDE DEF R
  <2> QED BY <1>3
<1>5. ParseQueryString(s, max) = g[N]
  BY DEF ParseQueryString
<1> HIDE DEF g
<1>6. g[0] = NoArgs /\ \A i \in 1..N : g[i] = TakeArg(max, g[i - 1], parts[i])
  BY <1>1, <1>4
<1> DEFINE S == {i \in 0..N : g[i] \in Taken}
<1>7. \A i \in 0..N : i \in S
  <2>1. 0 \in S
    <3>1. NoArgs \in Taken /\ 0 \in 0..N
      BY <1>1 DEF NoArgs, Taken
    <3> QED BY <1>6, <3>1
  <2>2. \A i \in 1..N : i - 1 \in S => i \in S
    <3> SUFFICES ASSUME NEW i \in 1..N, i - 1 \in S PROVE i \in S
      OBVIOUS
    <3>1. PICK acc \in Taken, part \in Seq(Byte) : acc = g[i - 1] /\ part = parts[i]
      BY <1>1
    <3>2. g[i] = TakeArg(max, acc, part) /\ i \in 0..N
      BY <1>1, <1>6, <3>1
    <3> QED BY <3>2, TakeArgType
  <2> HIDE DEF S, N
  <2> QED BY <1>1, <2>1, <2>2, UpTo
<1>8. N \in S /\ \A i \in 1..N : i - 1 \in S
  BY <1>1, <1>7
<1> QED BY <1>5, <1>6, <1>8 DEF Takes

\* the parts E, of which there are c, are among args as far as these go
Cuts(s, E, c, args) ==
  \A o \in E : /\ Nth(s, o) \in 1..c
               /\ Nth(s, o) <= Len(args) => args[Nth(s, o)] = Cut(PartText(s, o))

\* what was taken from them
Parsed(s, max, E, c, acc) ==
  /\ acc \in Taken /\ c \in Nat
  /\ Len(acc.args) = IF max > 0 /\ max < c THEN max ELSE c
  /\ acc.truncated <=> (max > 0 /\ max < c)
  /\ Cuts(s, E, c, acc.args)

LEMMA OneMoreArgument ==
  ASSUME NEW s \in Seq(Byte), NEW max \in Int, NEW E, NEW c \in Nat, NEW acc, Parsed(s, max, E, c, acc),
         NEW p, NEW part \in Seq(Byte), part # <<>>, part = PartText(s, p), Nth(s, p) = c + 1
  PROVE  Parsed(s, max, E \cup {p}, c + 1, TakeArg(max, acc, part))
<1> DEFINE next == TakeArg(max, acc, part)
<1>1. /\ acc \in Taken
      /\ Len(acc.args) = IF max > 0 /\ max < c THEN max ELSE c
      /\ acc.truncated <=> (max > 0 /\ max < c)
  BY DEF Parsed
<1>2. PICK args \in Seq(Arguments), n \in Nat : args = acc.args /\ n = Len(args)
  BY <1>1 DEF Taken
<1>7. Cuts(s, E, c, args)
  BY <1>2 DEF Parsed
<1>8. \A o \in E : Nth(s, o) \in 1..c
  BY <1>7 DEF Cuts
<1>9. \A o \in E : Nth(s, o) <= n => args[Nth(s, o)] = Cut(PartText(s, o))
  BY <1>2, <1>7 DEF Cuts
<1>3. next \in Taken
  BY <1>1, TakeArgType
<1>4. CASE acc.truncated
  <2>1. next = acc
    BY <1>4 DEF TakeArg
  <2>2. max > 0 /\ max < c /\ n = max /\ max < c + 1
    BY <1>1, <1>2, <1>4
  <2>3. \A o \in E \cup {p} : /\ Nth(s, o) \in 1..c + 1
                              /\ Nth(s, o) <= n => args[Nth(s, o)] = Cut(PartText(s, o))
    <3> SUFFICES ASSUME NEW o \in E \cup {p}
                 PROVE  /\ Nth(s, o) \in 1..c + 1
                        /\ Nth(s, o) <= n => args[Nth(s, o)] = Cut(PartText(s, o))
      OBVIOUS
    <3>1. CASE o = p
      BY <2>2, <3>1
    <3>2. CASE o # p
      <4>1. o \in E
        BY <3>2
      <4>2. Nth(s, o) \in 1..c /\ (Nth(s, o) <= n => args[Nth(s, o)] = Cut(PartText(s, o)))
        BY <1>8, <1>9, <4>1
      <4> QED BY <4>2
    <3> QED BY <3>1, <3>2
  <2>4. n = IF max > 0 /\ max < c + 1 THEN max ELSE c + 1
    BY <2>2
  <2>5. TRUE <=> (max > 0 /\ max < c + 1)
    BY <2>2
  <2>6. c + 1 \in Nat /\ acc.truncated = TRUE
    BY <1>1, <1>4 DEF Taken
  <2>7. Cuts(s, E \cup {p}, c + 1, args)
    BY <1>2, <2>3 DEF Cuts
  <2> QED BY <1>2, <1>3, <2>1, <2>4, <2>5, <2>6, <2>7 DEF Parsed
<1>5. CASE ~acc.truncated /\ max > 0 /\ n >= max
  <2>1. next = [acc EXCEPT !.truncated = TRUE]
    BY <1>2, <1>5 DEF TakeArg
  <2>2. next.args = args /\ next.truncated = TRUE
    BY <1>1, <1>2, <2>1 DEF Taken
  <2>3. n = c /\ n = max /\ max < c + 1
    BY <1>1, <1>2, <1>5
  <2>4. \A o \in E \cup {p} : /\ Nth(s, o) \in 1..c + 1
                              /\ Nth(s, o) <= n => args[Nth(s, o)] = Cut(PartText(s, o))
    <3> SUFFICES ASSUME NEW o \in E \cup {p}
                 PROVE  /\ Nth(s, o) \in 1..c + 1
                        /\ Nth(s, o) <= n => args[Nth(s, o)] = Cut(PartText(s, o))
      OBVIOUS
    <3>1. CASE o = p
      BY <2>3, <3>1
    <3>2. CASE o # p
      <4>1. o \in E
        BY <3>2
      <4>2. Nth(s, o) \in 1..c /\ (Nth(s, o) <= n => args[Nth(s, o)] = Cut(PartText(s, o)))
        BY <1>8, <1>9, <4>1
      <4> QED BY <4>2
    <3> QED BY <3>1, <3>2
  <2>5. n = IF max > 0 /\ max < c + 1 THEN max ELSE c + 1
    BY <1>5, <2>3
  <2>6. TRUE <=> (max > 0 /\ max < c + 1)
    BY <1>5, <2>3
  <2>7. c + 1 \in Nat
    OBVIOUS
  <2>8. Cuts(s, E \cup {p}, c + 1, args)
    BY <1>2, <2>4 DEF Cuts
  <2> QED BY <1>2, <1>3, <2>2, <2>5, <2>6, <2>7, <2>8 DEF Parsed
<1>6. CASE ~acc.truncated /\ ~ (max > 0 /\ n >= max)
  <2>1. PICK x : x = Cut(part) /\ x \in Arguments
    BY CutType
  <2>2. PICK longer : longer = Append(args, x)
    OBVIOUS
  <2>3. next = [acc EXCEPT !.args = longer]
    BY <1>2, <1>6, <2>1, <2>2 DEF TakeArg
  <2>4. next.args = longer /\ next.truncated = acc.truncated
    BY <1>1, <2>3 DEF Taken
  <2>5. Len(longer) = n + 1 /\ longer[n + 1] = x /\ \A i \in 1..n : longer[i] = args[i]
    BY <1>2, <2>1, <2>2
  <2>6. n = c /\ ~ (max > 0 /\ max < c + 1)
    BY <1>1, <1>2, <1>6
  <2>7. \A o \in E \cup {p} : /\ Nth(s, o) \in 1..c + 1
                              /\ Nth(s, o) <= n + 1 => longer[Nth(s, o)] = Cut(PartText(s, o))
    <3> SUFFICES ASSUME NEW o \in E \cup {p}
                 PROVE  /\ Nth(s, o) \in 1..c + 1
                        /\ longer[Nth(s, o)] = Cut(PartText(s, o))
      OBVIOUS
    <3>1. CASE o = p
      BY <2>1, <2>5, <2>6, <3>1
    <3>2. CASE o # p
      <4>1. o \in E
        BY <3>2
      <4>2. Nth(s, o) \in 1..c /\ (Nth(s, o) <= n => args[Nth(s, o)] = Cut(PartText(s, o)))
        BY <1>8, <1>9, <4>1
      <4>3. Nth(s, o) \in 1..n /\ Nth(s, o) <= n
        BY <2>6, <4>2
      <4>4. longer[Nth(s, o)] = args[Nth(s, o)]
        BY <2>5, <4>3
      <4> QED BY <4>2, <4>3, <4>4
    <3> QED BY <3>1, <3>2
  <2>8. n + 1 = IF max > 0 /\ max < c + 1 THEN max ELSE c + 1
    BY <2>6
  <2>9. FALSE <=> (max > 0 /\ max < c + 1)
    BY <2>6
  <2>10. c + 1 \in Nat /\ n + 1 = Len(longer) /\ next.truncated = FALSE
    BY <1>1, <1>6, <2>4, <2>5 DEF Taken
  <2>11. Cuts(s, E \cup {p}, c + 1, longer)
    BY <2>7, <2>10 DEF Cuts
  <2> QED BY <1>3, <2>4, <2>8, <2>9, <2>10, <2>11 DEF Parsed
<1> QED BY <1>1, <1>4, <1>5, <1>6 DEF Taken

\* a field as text
LEMMA FieldText ==
  ASSUME NEW s \in Seq(Byte), NEW fields \in Lists, NEW from, Fields(s, Len(s), fields, from),
         NEW k \in 1..Len(fields)
  PROVE  fields[k] \in Seq(Byte) /\ PartText(s, Span(fields, from, k)) = fields[k]
<1>1. PICK f \in Seq(Byte), x \in Nat, n \in Nat : f = fields[k] /\ x = from[k] /\ n = Len(f) /\ x + n <= Len(s)
  <2>1. from[k] \in Nat /\ fields[k] \in Seq(Byte) /\ from[k] + Len(fields[k]) <= Len(s)
    BY FieldsApart
  <2>2. Len(fields[k]) \in Nat
    BY <2>1
  <2> QED BY <2>1, <2>2
<1>2. PICK a \in Int, z \in Int : a = x + 1 /\ z = x + n
  OBVIOUS
<1>3. PartText(s, Span(fields, from, k)) = SubSeq(s, a, z)
  BY <1>1, <1>2 DEF PartText, Span
<1>4. PICK t : t = SubSeq(s, a, z)
  OBVIOUS
<1>5. t \in Seq(Byte) /\ Len(t) = n /\ \A i \in 1..n : t[i] = s[x + i]
  <2>1. \A i \in a..z : s[i] \in Byte
    BY <1>1, <1>2
  <2>2. /\ t \in Seq(Byte) /\ Len(t) = IF a <= z THEN z - a + 1 ELSE 0
        /\ \A i \in 1 .. z - a + 1 : t[i] = s[a + i - 1]
    BY <1>4, <2>1, SubSeqProperties
  <2>3. z - a + 1 = n /\ (a <= z \/ n = 0) /\ \A i \in 1..n : a + i - 1 = x + i
    BY <1>2
  <2> QED BY <2>2, <2>3
<1>6. \A j \in 1..n : s[x + j] = f[j]
  <2>1. \A j \in 1..Len(fields[k]) : s[from[k] + j] = fields[k][j] /\ fields[k][j] # Amp
    BY DEF Fields
  <2> QED BY <1>1, <2>1
<1>7. t = f
  BY <1>1, <1>5, <1>6, SeqEqual
<1> QED BY <1>1, <1>3, <1>4, <1>7

\* The parser takes the parts in their order, up to the limit.
LEMMA ArgsParsed ==
  ASSUME NEW s \in Seq(Byte), NEW max \in Int
  PROVE  Parsed(s, max, Parts(s), Cardinality(Parts(s)), ParseQueryString(s, max))
<1>1. PICK fields, from : /\ fields \in Lists /\ fields = SplitAmp(s)
                          /\ Fields(s, Len(s), fields, from)
  BY FieldsAre
<1>2. PICK M \in Nat : M = Len(fields) /\ M > 0
  BY <1>1 DEF Lists
<1>3. PICK after : Takes(after, max, fields) /\ ParseQueryString(s, max) = after[M]
  BY <1>1, <1>2, Parsing
<1> DEFINE E(n) == PartsOf(fields, from, n)
           S == {n \in 0..M : Parsed(s, max, E(n), Cardinality(E(n)), after[n])}
<1>4. 0 \in S
  <2>1. E(0) = {}
    BY DEF PartsOf
  <2>2. Cardinality(E(0)) = 0
    BY <2>1, FS_EmptySet
  <2>3. after[0] = NoArgs /\ NoArgs \in Taken /\ Len(NoArgs.args) = 0 /\ ~NoArgs.truncated
    BY <1>3 DEF Takes, NoArgs, Taken
  <2> HIDE DEF E
  <2>4. Parsed(s, max, E(0), Cardinality(E(0)), after[0])
    BY <2>1, <2>2, <2>3 DEF Parsed, Cuts
  <2> QED BY <2>4
<1>5. \A n \in 1..M : n - 1 \in S => n \in S
  <2> SUFFICES ASSUME NEW n \in 1..M, n - 1 \in S PROVE n \in S
    OBVIOUS
  <2>1. PICK acc, next, part, c, B, p : /\ acc = after[n - 1] /\ next = after[n] /\ part = fields[n]
                                        /\ B = E(n - 1) /\ c = Cardinality(B)
                                        /\ p = Span(fields, from, n)
    OBVIOUS
  <2>2. Parsed(s, max, B, c, acc)
    BY <2>1
  <2>3. next = TakeArg(max, acc, part)
    BY <1>2, <1>3, <2>1 DEF Takes
  <2>4. /\ E(n) \subseteq Parts(s) /\ B \subseteq E(n)
        /\ part = <<>> => E(n) = B
        /\ part # <<>> => /\ E(n) = B \cup {p} /\ p \notin B
                          /\ E(n) = {o \in Parts(s) : o[1] <= p[1]}
    BY <1>1, <1>2, <2>1, PartsGrow
  <2>5. part \in Seq(Byte) /\ part = PartText(s, p)
    BY <1>1, <1>2, <2>1, FieldText
  <2>6. c \in Nat
    BY <2>2 DEF Parsed
  <2>7. Parsed(s, max, E(n), Cardinality(E(n)), next)
    <3>1. CASE part = <<>>
      BY <2>1, <2>2, <2>3, <2>4, <3>1 DEF TakeArg
    <3>2. CASE part # <<>>
      <4>1. IsFiniteSet(B)
        BY <2>4, PartsFinite
      <4>2. Cardinality(E(n)) = c + 1
        BY <2>1, <2>4, <3>2, <4>1, FS_AddElement
      <4>3. Nth(s, p) = c + 1
        BY <2>4, <3>2, <4>2 DEF Nth
      <4>4. Parsed(s, max, B \cup {p}, c + 1, TakeArg(max, acc, part))
        BY <2>2, <2>5, <2>6, <3>2, <4>3, OneMoreArgument
      <4> QED BY <2>3, <2>4, <3>2, <4>2, <4>4
    <3> QED BY <3>1, <3>2
  <2>8. n \in 0..M
    OBVIOUS
  <2> HIDE DEF E
  <2> QED BY <2>1, <2>7, <2>8
<1>6. M \in S
  <2>1. M \in 0..M
    OBVIOUS
  <2> HIDE DEF S
  <2> QED BY <1>4, <1>5, <2>1, UpTo
<1>7. E(M) = Parts(s)
  <2>1. M \in 1..M
    BY <1>2
  <2>2. E(M) \subseteq Parts(s)
    BY <1>1, <1>2, <2>1, PartsGrow
  <2>3. ASSUME NEW p \in Parts(s) PROVE p \in E(M)
    <3>1. PICK k \in 1..M : fields[k] # <<>> /\ p = Span(fields, from, k)
      BY <1>1, <1>2, PartIsField
    <3> QED BY <3>1 DEF PartsOf
  <2> HIDE DEF E
  <2> QED BY <2>2, <2>3
<1> HIDE DEF E
<1> QED BY <1>3, <1>6, <1>7

-----------------------------------------------------------------------------
(* The place of a part among others.                                       *)

\* Two parts do not start at the same place.
LEMMA StartsDiffer ==
  ASSUME NEW s \in Seq(Byte), NEW p \in Parts(s), NEW o \in Parts(s), p[1] = o[1]
  PROVE  p = o
<1>1. ASSUME NEW x \in Parts(s), NEW y \in Parts(s), x[1] = y[1], x[2] < y[2] PROVE FALSE
  <2>1. PICK a \in Int, b \in Int, c \in Int : a = x[1] /\ b = x[2] /\ c = b + 1
    BY PartPlace
  <2>2. c \in y[1]..y[2] /\ b # Len(s)
    <3>1. y[2] <= Len(s) /\ y[2] \in Int /\ a <= b
      BY <2>1, PartPlace
    <3> QED BY <1>1, <2>1, <3>1
  <2>3. s[c] = Amp
    BY <2>1, <2>2 DEF Parts
  <2> QED BY <2>2, <2>3 DEF Parts
<1>2. p[2] \in Int /\ o[2] \in Int /\ p = <<p[1], p[2]>> /\ o = <<o[1], o[2]>>
  BY PartPlace
<1>3. ~ (p[2] < o[2]) /\ ~ (o[2] < p[2])
  BY <1>1
<1> QED BY <1>2, <1>3

Preceding(T, x) == {y \in T : y[1] < x[1]}

LEMMA PartsOrdered ==
  ASSUME NEW s \in Seq(Byte), NEW T, T \subseteq Parts(s)
  PROVE  Ordered(T, [x \in T |-> Preceding(T, x)])
<1>1. \A x \in T : x[1] \in Int
  BY PartPlace
<1>2. \A x, y \in T : x[1] = y[1] => x = y
  BY StartsDiffer
<1> QED BY <1>1, <1>2 DEF Ordered, Preceding

\* Each rank is that of one part.
LEMMA PartsRanked ==
  ASSUME NEW s \in Seq(Byte), NEW T, T \subseteq Parts(s)
  PROVE  /\ \A x \in T : Cardinality(Preceding(T, x)) + 1 \in 1..Cardinality(T)
         /\ \A x, y \in T : Cardinality(Preceding(T, x)) = Cardinality(Preceding(T, y)) => x = y
         /\ \A n \in 1..Cardinality(T) : \E x \in T : n = Cardinality(Preceding(T, x)) + 1
<1> DEFINE below == [x \in T |-> Preceding(T, x)]
           f == [x \in T |-> Cardinality(below[x]) + 1]
           N == Cardinality(T)
<1>1. IsFiniteSet(T) /\ N \in Nat
  BY PartsFinite
<1>2. Ordered(T, below)
  BY PartsOrdered
<1>3. \A x \in T : below[x] = Preceding(T, x)
  OBVIOUS
<1>4. \A x \in T : Cardinality(below[x]) \in Nat
  <2> SUFFICES ASSUME NEW x \in T PROVE Cardinality(below[x]) \in Nat
    OBVIOUS
  <2>1. Preceding(T, x) \subseteq Parts(s)
    BY DEF Preceding
  <2> HIDE DEF below
  <2> QED BY <1>3, <2>1, PartsFinite
<1> HIDE DEF below
<1>5. \A x \in T : /\ Cardinality(below[x]) + 1 \in 1..N
                   /\ \A y \in T : Cardinality(below[y]) = Cardinality(below[x]) => y = x
  BY <1>1, <1>2, RanksDiffer
<1>6. f \in Injection(T, 1..N)
  <2>1. f \in [T -> 1..N]
    BY <1>5
  <2>2. \A x, y \in T : f[x] = f[y] => x = y
    <3>1. \A x, y \in T : f[x] = f[y] => Cardinality(below[x]) = Cardinality(below[y])
      BY <1>4
    <3> HIDE DEF f
    <3> QED BY <1>5, <3>1
  <2> HIDE DEF f
  <2> QED BY <2>1, <2>2 DEF Injection, IsInjective
<1>7. f \in Surjection(T, 1..N)
  <2>1. IsFiniteSet(1..N) /\ Cardinality(1..N) = N
    BY <1>1, FS_Interval
  <2> HIDE DEF f
  <2> QED BY <1>6, <2>1, FS_Injection
<1>8. \A n \in 1..N : \E x \in T : n = f[x]
  <2> HIDE DEF f, N
  <2> QED BY <1>7 DEF Surjection
<1> QED BY <1>3, <1>5, <1>8

LEMMA NthRanks ==
  ASSUME NEW s \in Seq(Byte), NEW p \in Parts(s)
  PROVE  Nth(s, p) = Cardinality(Preceding(Parts(s), p)) + 1
<1> DEFINE B == Preceding(Parts(s), p)
<1>1. IsFiniteSet(B)
  BY PartsFinite DEF Preceding
<1>2. p \notin B
  BY PartPlace DEF Preceding
<1>3. {o \in Parts(s) : o[1] <= p[1]} = B \cup {p}
  <2>1. \A o \in Parts(s) : o[1] \in Int /\ (o[1] = p[1] => o = p)
    BY PartPlace, StartsDiffer
  <2> QED BY <2>1 DEF Preceding
<1>4. Cardinality(B \cup {p}) = Cardinality(B) + 1
  <2> HIDE DEF B
  <2> QED BY <1>1, <1>2, FS_AddElement
<1> HIDE DEF B
<1>5. Nth(s, p) = Cardinality(B) + 1
  BY <1>3, <1>4 DEF Nth
<1> QED BY <1>5 DEF B

\* Nth numbers the parts.
LEMMA NthNumbers ==
  ASSUME NEW s \in Seq(Byte)
  PROVE  /\ \A p \in Parts(s) : Nth(s, p) \in 1..Cardinality(Parts(s))
         /\ \A p, o \in Parts(s) : Nth(s, p) = Nth(s, o) => p = o
         /\ \A n \in 1..Cardinality(Parts(s)) : \E p \in Parts(s) : n = Nth(s, p)
<1> DEFINE R(p) == Cardinality(Preceding(Parts(s), p))
<1>1. \A p \in Parts(s) : Nth(s, p) = R(p) + 1 /\ R(p) \in Nat
  <2> SUFFICES ASSUME NEW p \in Parts(s) PROVE Nth(s, p) = R(p) + 1 /\ R(p) \in Nat
    OBVIOUS
  <2>1. Preceding(Parts(s), p) \subseteq Parts(s)
    BY DEF Preceding
  <2> QED BY <2>1, NthRanks, PartsFinite
<1>2. /\ \A p \in Parts(s) : R(p) + 1 \in 1..Cardinality(Parts(s))
      /\ \A p, o \in Parts(s) : R(p) = R(o) => p = o
      /\ \A n \in 1..Cardinality(Parts(s)) : \E p \in Parts(s) : n = R(p) + 1
  BY PartsRanked
<1> HIDE DEF R
<1>3. \A p, o \in Parts(s) : Nth(s, p) = Nth(s, o) => R(p) = R(o)
  BY <1>1
<1> QED BY <1>1, <1>2, <1>3

LEMMA NthGrows ==
  ASSUME NEW s \in Seq(Byte), NEW p \in Parts(s), NEW o \in Parts(s)
  PROVE  Nth(s, o) <= Nth(s, p) <=> o[1] <= p[1]
<1>1. ASSUME NEW x \in Parts(s), NEW y \in Parts(s), x[1] < y[1] PROVE Nth(s, x) < Nth(s, y)
  <2> DEFINE X == {z \in Parts(s) : z[1] <= x[1]}
             Y == {z \in Parts(s) : z[1] <= y[1]}
  <2>1. \A z \in Parts(s) : z[1] \in Int
    BY PartPlace
  <2>2. X \subseteq Y /\ y \in Y /\ y \notin X
    BY <1>1, <2>1
  <2>3. IsFiniteSet(X) /\ IsFiniteSet(Y) /\ Cardinality(X) \in Nat /\ Cardinality(Y) \in Nat
    BY PartsFinite
  <2>4. Nth(s, x) = Cardinality(X) /\ Nth(s, y) = Cardinality(Y)
    BY DEF Nth
  <2> HIDE DEF X, Y
  <2>5. Cardinality(X) <= Cardinality(Y) /\ Cardinality(X) # Cardinality(Y)
    BY <2>2, <2>3, FS_Subset
  <2> QED BY <2>3, <2>4, <2>5
<1>2. p[1] \in Int /\ o[1] \in Int /\ Nth(s, p) \in Int /\ Nth(s, o) \in Int
  BY PartPlace, NthNumbers
<1>3. p[1] = o[1] => p = o
  BY StartsDiffer
<1>4. (p[1] < o[1] => Nth(s, p) < Nth(s, o)) /\ (o[1] < p[1] => Nth(s, o) < Nth(s, p))
  BY <1>1
<1> QED BY <1>2, <1>3, <1>4

\* There are not more parts than bytes.
LEMMA PartsFew ==
  ASSUME NEW s \in Seq(Byte)
  PROVE  Cardinality(Parts(s)) \in Nat /\ Cardinality(Parts(s)) <= Len(s)
<1> DEFINE f == [p \in Parts(s) |-> p[1]]
<1>1. f \in Injection(Parts(s), 1..Len(s))
  <2>1. f \in [Parts(s) -> 1..Len(s)]
    BY PartPlace
  <2>2. \A p, o \in Parts(s) : f[p] = f[o] => p = o
    BY StartsDiffer
  <2> HIDE DEF f
  <2> QED BY <2>1, <2>2 DEF Injection, IsInjective
<1>2. IsFiniteSet(1..Len(s)) /\ Cardinality(1..Len(s)) = Len(s)
  <2>1. PICK n \in Nat : n = Len(s)
    OBVIOUS
  <2>2. IsFiniteSet(1..n) /\ Cardinality(1..n) = n
    BY FS_Interval
  <2> QED BY <2>1, <2>2
<1> HIDE DEF f
<1>3. Cardinality(Parts(s)) <= Cardinality(1..Len(s))
  BY <1>1, <1>2, FS_Injection
<1> QED BY <1>2, <1>3, PartsFinite

-----------------------------------------------------------------------------
(* The arguments of one key.                                               *)

Matching(args, key, n) == {i \in 1..n : args[i].key = key}

LEMMA MatchingGrows ==
  ASSUME NEW args, NEW key, NEW n \in Nat
  PROVE  /\ IsFiniteSet(Matching(args, key, n)) /\ Cardinality(Matching(args, key, n)) \in Nat
         /\ Cardinality(Matching(args, key, n)) <= n
         /\ n = 0 => Cardinality(Matching(args, key, n)) = 0
         /\ n > 0 => Cardinality(Matching(args, key, n)) =
                       Cardinality(Matching(args, key, n - 1)) + IF args[n].key = key THEN 1 ELSE 0
<1> DEFINE F(m) == Matching(args, key, m)
<1>1. \A m \in Nat : IsFiniteSet(F(m)) /\ Cardinality(F(m)) \in Nat /\ Cardinality(F(m)) <= m
  <2> SUFFICES ASSUME NEW m \in Nat
               PROVE  IsFiniteSet(F(m)) /\ Cardinality(F(m)) \in Nat /\ Cardinality(F(m)) <= m
    OBVIOUS
  <2>1. IsFiniteSet(1..m) /\ Cardinality(1..m) = m
    BY FS_Interval
  <2>2. F(m) \in SUBSET (1..m)
    BY DEF Matching
  <2> HIDE DEF F
  <2> QED BY <2>1, <2>2, FS_Subset, FS_CardinalityType
<1>2. n = 0 => Cardinality(F(n)) = 0
  <2>1. n = 0 => F(n) = {}
    BY DEF Matching
  <2> HIDE DEF F
  <2> QED BY <2>1, FS_EmptySet
<1>3. ASSUME n > 0
      PROVE  Cardinality(F(n)) = Cardinality(F(n - 1)) + IF args[n].key = key THEN 1 ELSE 0
  <2>1. n - 1 \in Nat /\ IsFiniteSet(F(n - 1)) /\ Cardinality(F(n - 1)) \in Nat
    BY <1>1, <1>3
  <2>2. CASE args[n].key = key
    <3>1. F(n) = F(n - 1) \cup {n} /\ n \notin F(n - 1)
      BY <1>3, <2>2 DEF Matching
    <3> HIDE DEF F
    <3>2. Cardinality(F(n - 1) \cup {n}) = Cardinality(F(n - 1)) + 1
      BY <2>1, <3>1, FS_AddElement
    <3> QED BY <2>2, <3>1, <3>2
  <2>3. CASE args[n].key # key
    <3>1. F(n) = F(n - 1)
      BY <1>3, <2>3 DEF Matching
    <3> HIDE DEF F
    <3> QED BY <2>1, <2>3, <3>1
  <2> QED BY <2>2, <2>3
<1> QED BY <1>1, <1>2, <1>3

Gathers(upto, args, key) ==
  /\ upto[0] = <<>>
  /\ \A i \in 1..Len(args) :
       upto[i] = IF args[i].key = key THEN Append(upto[i - 1], args[i]) ELSE upto[i - 1]

LEMMA Gathering ==
  ASSUME NEW A, NEW args \in Seq(A), NEW key
  PROVE  \E upto : Gathers(upto, args, key) /\ Bucket(args, key) = upto[Len(args)]
<1> DEFINE N == Len(args)
           D == Seq(A)
           More(x, i) == IF args[i].key = key THEN Append(x, args[i]) ELSE x
           step == [i \in 1..N |-> [x \in D |-> More(x, i)]]
           R(f) == f = [i \in 0..N |-> IF i = 0 THEN <<>>
                                       ELSE IF args[i].key = key THEN Append(f[i - 1], args[i])
                                       ELSE f[i - 1]]
           g == CHOOSE f : R(f)
<1>1. N \in Nat /\ \A i \in 1..N : args[i] \in A
  OBVIOUS
<1>2. PICK f : Solves(f, N, D, <<>>, step)
  <2>1. \A i \in 1..N : \A x \in D : More(x, i) \in D
    BY <1>1
  <2>2. <<>> \in D
    OBVIOUS
  <2>3. step \in [1..N -> [D -> D]]
    <3> HIDE DEF D, N, More
    <3> QED BY <2>1
  <2> HIDE DEF step, N, D
  <2> QED BY <1>1, <2>2, <2>3, StepsSolve
<1>3. R(f)
  <2>1. f \in [0..N -> D] /\ f[0] = <<>> /\ \A i \in 1..N : f[i] = step[i][f[i - 1]]
    BY <1>2 DEF Solves
  <2>2. \A i \in 1..N : f[i - 1] \in D
    <3>1. \A i \in 1..N : i - 1 \in 0..N
      BY <1>1
    <3> HIDE DEF D
    <3> QED BY <2>1, <3>1, Zenon
  <2>3. \A i \in 1..N : f[i] = More(f[i - 1], i)
    <3> HIDE DEF D, N, More
    <3> QED BY <2>1, <2>2
  <2>4. f = [i \in 0..N |-> f[i]]
    <3> HIDE DEF D
    <3> QED BY <2>1
  <2> HIDE DEF N, step, D
  <2>5. \A i \in 0..N : f[i] = IF i = 0 THEN <<>>
                               ELSE IF args[i].key = key THEN Append(f[i - 1], args[i])
                               ELSE f[i - 1]
    <3>1. \A i \in 0..N : i = 0 \/ i \in 1..N
      BY <1>1
    <3> QED BY <2>1, <2>3, <3>1
  <2> QED BY <2>4, <2>5
<1>4. R(g)
  <2> HIDE DEF R
  <2> QED BY <1>3
<1>5. Bucket(args, key) = g[N]
  BY DEF Bucket
<1> HIDE DEF g
<1>6. /\ g[0] = <<>>
      /\ \A i \in 1..N : g[i] = IF args[i].key = key THEN Append(g[i - 1], args[i]) ELSE g[i - 1]
  <2>1. \A i \in 0..N : g[i] = IF i = 0 THEN <<>>
                               ELSE IF args[i].key = key THEN Append(g[i - 1], args[i])
                               ELSE g[i - 1]
    BY <1>4, Zenon
  <2>2. 0 \in 0..N /\ \A i \in 1..N : i \in 0..N /\ i # 0
    BY <1>1
  <2> HIDE DEF N, R
  <2> QED BY <2>1, <2>2
<1> QED BY <1>5, <1>6 DEF Gathers

\* Each one is at its rank.
Gathered(u, args, key, n, A) ==
  /\ u \in Seq(A) /\ Len(u) = Cardinality(Matching(args, key, n))
  /\ \A i \in 1..n : args[i].key = key =>
       /\ Cardinality(Matching(args, key, i)) \in 1..Len(u)
       /\ u[Cardinality(Matching(args, key, i))] = args[i]

LEMMA BucketIs ==
  ASSUME NEW A, NEW args \in Seq(A), NEW key
  PROVE  Gathered(Bucket(args, key), args, key, Len(args), A)
<1>1. PICK upto : Gathers(upto, args, key) /\ Bucket(args, key) = upto[Len(args)]
  BY Gathering
<1> DEFINE C(n) == Cardinality(Matching(args, key, n))
           S == {n \in 0..Len(args) : Gathered(upto[n], args, key, n, A)}
<1>2. 0 \in S
  <2>1. upto[0] = <<>> /\ C(0) = 0
    BY <1>1, MatchingGrows DEF Gathers
  <2>2. Gathered(<<>>, args, key, 0, A)
    BY <2>1 DEF Gathered
  <2> QED BY <2>1, <2>2
<1>3. \A n \in 1..Len(args) : n - 1 \in S => n \in S
  <2> SUFFICES ASSUME NEW n \in 1..Len(args), n - 1 \in S PROVE n \in S
    OBVIOUS
  <2>1. PICK u, v, c, d, a : u = upto[n - 1] /\ v = upto[n] /\ c = C(n - 1) /\ d = C(n) /\ a = args[n]
    OBVIOUS
  <2>2. u \in Seq(A) /\ Len(u) = c
    BY <2>1 DEF Gathered
  <2>3. \A i \in 1..n - 1 : args[i].key = key => C(i) \in 1..c /\ u[C(i)] = args[i]
    BY <2>1, <2>2 DEF Gathered
  <2>4. c \in Nat /\ d = c + IF a.key = key THEN 1 ELSE 0
    <3>1. n \in Nat /\ n - 1 \in Nat /\ n > 0
      OBVIOUS
    <3> HIDE DEF S
    <3> QED BY <2>1, <3>1, MatchingGrows
  <2>5. a \in A
    BY <2>1
  <2>6. v = IF a.key = key THEN Append(u, a) ELSE u
    BY <1>1, <2>1 DEF Gathers
  <2> HIDE DEF S
  <2>7. CASE a.key = key
    <3>1. v \in Seq(A) /\ Len(v) = c + 1 /\ v[c + 1] = a /\ \A i \in 1..c : v[i] = u[i]
      BY <2>2, <2>4, <2>5, <2>6, <2>7
    <3>2. ASSUME NEW i \in 1..n, args[i].key = key PROVE C(i) \in 1..c + 1 /\ v[C(i)] = args[i]
      <4>1. CASE i = n
        <5>1. C(i) = d /\ args[i] = a
          BY <2>1, <4>1
        <5>2. d = c + 1 /\ c + 1 \in 1..c + 1
          BY <2>4, <2>7
        <5> QED BY <3>1, <5>1, <5>2
      <4>2. CASE i # n
        <5>1. i \in 1..n - 1
          BY <4>2
        <5>2. C(i) \in 1..c /\ u[C(i)] = args[i]
          BY <2>3, <3>2, <5>1
        <5> QED BY <2>4, <3>1, <5>2
      <4> QED BY <4>1, <4>2
    <3>3. Gathered(v, args, key, n, A)
      BY <2>1, <2>4, <2>7, <3>1, <3>2 DEF Gathered
    <3> QED BY <2>1, <3>3 DEF S
  <2>8. CASE a.key # key
    <3>1. v = u /\ d = c
      BY <2>4, <2>6, <2>8
    <3>2. ASSUME NEW i \in 1..n, args[i].key = key PROVE C(i) \in 1..c /\ v[C(i)] = args[i]
      <4>1. i \in 1..n - 1
        BY <2>1, <2>8, <3>2
      <4> QED BY <2>3, <3>1, <3>2, <4>1
    <3>3. Gathered(v, args, key, n, A)
      BY <2>1, <2>2, <3>1, <3>2 DEF Gathered
    <3> QED BY <2>1, <3>3 DEF S
  <2> QED BY <2>7, <2>8
<1>4. Len(args) \in S
  <2>1. Len(args) \in Nat /\ Len(args) \in 0..Len(args)
    OBVIOUS
  <2> HIDE DEF S
  <2> QED BY <1>2, <1>3, <2>1, UpTo
<1> QED BY <1>1, <1>4

\* What the parser leaves is the parts that are admitted, each at its number.
LEMMA ArgsAdmitted ==
  ASSUME NEW s \in Seq(Byte), NEW max \in Int, NEW acc, acc = ParseQueryString(s, max),
         NEW args, args = acc.args
  PROVE  /\ args \in Seq(Arguments) /\ Len(args) <= Len(s)
         /\ acc.truncated <=> (Admitted(s, max) # Parts(s))
         /\ \A p \in Admitted(s, max) : /\ Nth(s, p) \in 1..Len(args)
                                        /\ args[Nth(s, p)].key = ArgKey(s, p)
                                        /\ Worth(args[Nth(s, p)]) = ArgValue(s, p)
                                        /\ args[Nth(s, p)] = Cut(PartText(s, p))
         /\ \A i \in 1..Len(args) : \E p \in Admitted(s, max) : i = Nth(s, p)
<1>1. PICK E, c : E = Parts(s) /\ c = Cardinality(E)
  OBVIOUS
<1>2. Parsed(s, max, E, c, acc)
  BY <1>1, ArgsParsed
<1>3. PICK n \in Nat : n = Len(args) /\ args \in Seq(Arguments)
  BY <1>2 DEF Parsed, Taken
<1>4. c \in Nat /\ c <= Len(s)
  BY <1>1, PartsFew
<1>5. n = (IF max > 0 /\ max < c THEN max ELSE c) /\ (acc.truncated <=> (max > 0 /\ max < c))
  BY <1>2, <1>3 DEF Parsed
<1>6. /\ \A p \in E : Nth(s, p) \in 1..c
      /\ \A i \in 1..c : \E p \in E : i = Nth(s, p)
  BY <1>1, NthNumbers
<1>7. \A p \in E : p \in Admitted(s, max) <=> Nth(s, p) <= n
  <2> SUFFICES ASSUME NEW p \in E PROVE p \in Admitted(s, max) <=> Nth(s, p) <= n
    OBVIOUS
  <2>1. p \in Admitted(s, max) <=> (max <= 0 \/ Nth(s, p) <= max)
    BY <1>1 DEF Admitted
  <2>2. Nth(s, p) \in 1..c
    BY <1>6
  <2> QED BY <1>4, <1>5, <2>1, <2>2
<1>8. Admitted(s, max) \subseteq E
  BY <1>1 DEF Admitted
<1>9. \A p \in E : Nth(s, p) <= n => args[Nth(s, p)] = Cut(PartText(s, p))
  BY <1>2, <1>3 DEF Parsed, Cuts
<1>10. ASSUME NEW p \in Admitted(s, max)
       PROVE  /\ Nth(s, p) \in 1..n
              /\ args[Nth(s, p)].key = ArgKey(s, p) /\ Worth(args[Nth(s, p)]) = ArgValue(s, p)
              /\ args[Nth(s, p)] = Cut(PartText(s, p))
  <2>1. p \in Parts(s) /\ p \in E
    BY <1>1, <1>8
  <2>2. Nth(s, p) \in 1..n
    BY <1>4, <1>6, <1>7, <2>1
  <2>3. args[Nth(s, p)] = Cut(PartText(s, p))
    BY <1>7, <1>9, <2>1
  <2>4. /\ Cut(PartText(s, p)).key = ArgKey(s, p)
        /\ Worth(Cut(PartText(s, p))) = ArgValue(s, p)
    BY <2>1, PartArgument
  <2> QED BY <2>2, <2>3, <2>4
<1>11. ASSUME NEW i \in 1..n PROVE \E p \in Admitted(s, max) : i = Nth(s, p)
  <2>1. i \in 1..c
    BY <1>4, <1>5
  <2>2. PICK p \in E : i = Nth(s, p)
    BY <1>6, <2>1
  <2> QED BY <1>7, <2>2
<1>12. acc.truncated <=> (Admitted(s, max) # Parts(s))
  <2>1. CASE max > 0 /\ max < c
    <3>1. c \in 1..c
      BY <1>4, <2>1
    <3>2. PICK p \in E : c = Nth(s, p)
      BY <1>6, <3>1
    <3>3. p \notin Admitted(s, max)
      BY <1>4, <1>5, <1>7, <2>1, <3>2
    <3> QED BY <1>1, <1>5, <2>1, <3>2, <3>3
  <2>2. CASE ~ (max > 0 /\ max < c)
    <3>1. \A p \in E : Nth(s, p) <= n
      BY <1>4, <1>5, <1>6, <2>2
    <3>2. Admitted(s, max) = E
      BY <1>7, <1>8, <3>1
    <3> QED BY <1>1, <1>5, <2>2, <3>2
  <2> QED BY <2>1, <2>2
<1>13. n <= Len(s)
  BY <1>4, <1>5
<1> QED BY <1>3, <1>10, <1>11, <1>12, <1>13

LEMMA KeysFound ==
  ASSUME NEW s \in Seq(Byte), NEW max \in Int, NEW args, args = ParseQueryString(s, max).args
  PROVE  Keys(args) = {ArgKey(s, p) : p \in Admitted(s, max)} \ {<<>>}
<1>1. args \in Seq(Arguments)
  BY ArgsAdmitted
<1>2. \A p \in Admitted(s, max) : Nth(s, p) \in 1..Len(args) /\ args[Nth(s, p)].key = ArgKey(s, p)
  BY ArgsAdmitted
<1>3. \A i \in 1..Len(args) : \E p \in Admitted(s, max) : i = Nth(s, p)
  BY ArgsAdmitted
<1>4. DOMAIN args = 1..Len(args)
  BY <1>1
<1>5. {args[i].key : i \in DOMAIN args} = {ArgKey(s, p) : p \in Admitted(s, max)}
  BY <1>2, <1>3, <1>4
<1> QED BY <1>5 DEF Keys

OfKey(s, max, key) == {p \in Admitted(s, max) : ArgKey(s, p) = key}
OfKeyUpTo(s, max, key, n) == {p \in OfKey(s, max, key) : Nth(s, p) <= n}

\* Among the first n arguments there are as many of a key as among the first n parts.
LEMMA OfKeyCounted ==
  ASSUME NEW s \in Seq(Byte), NEW max \in Int, NEW args, args = ParseQueryString(s, max).args,
         NEW key, NEW n \in 0..Len(args)
  PROVE  Cardinality(OfKeyUpTo(s, max, key, n)) = Cardinality(Matching(args, key, n))
<1> DEFINE K(m) == {p \in OfKey(s, max, key) : Nth(s, p) <= m}
           S == {m \in 0..Len(args) : Cardinality(K(m)) = Cardinality(Matching(args, key, m))}
<1>1. args \in Seq(Arguments)
  BY ArgsAdmitted
<1>2. /\ \A p \in Admitted(s, max) : Nth(s, p) \in 1..Len(args) /\ args[Nth(s, p)].key = ArgKey(s, p)
      /\ \A i \in 1..Len(args) : \E p \in Admitted(s, max) : i = Nth(s, p)
  BY ArgsAdmitted
<1>3. PICK N \in Nat : N = Len(args)
  BY <1>1
<1>4. 0 \in S
  <2>1. K(0) = {}
    BY <1>2, <1>3 DEF OfKey
  <2>2. Cardinality(K(0)) = 0
    BY <2>1, FS_EmptySet
  <2>3. Cardinality(Matching(args, key, 0)) = 0
    BY MatchingGrows
  <2> HIDE DEF K
  <2> QED BY <1>3, <2>2, <2>3
<1>5. \A m \in 1..N : m - 1 \in S => m \in S
  <2> SUFFICES ASSUME NEW m \in 1..N, m - 1 \in S PROVE m \in S
    OBVIOUS
  <2>1. PICK p \in Admitted(s, max) : m = Nth(s, p)
    BY <1>2, <1>3
  <2>2. \A o \in Admitted(s, max) : m = Nth(s, o) => o = p
    <3>1. Admitted(s, max) \subseteq Parts(s)
      BY DEF Admitted
    <3> QED BY <2>1, <3>1, NthNumbers
  <2>3. args[m].key = ArgKey(s, p)
    BY <1>2, <2>1
  <2>4. Cardinality(Matching(args, key, m)) =
          Cardinality(Matching(args, key, m - 1)) + IF args[m].key = key THEN 1 ELSE 0
    <3>1. m \in Nat /\ m > 0
      OBVIOUS
    <3> QED BY <3>1, MatchingGrows
  <2>5. \A o \in Admitted(s, max) : Nth(s, o) \in Int
    BY <1>2
  <2>6. Cardinality(K(m - 1)) = Cardinality(Matching(args, key, m - 1))
    OBVIOUS
  <2>7. IsFiniteSet(K(m - 1)) /\ Cardinality(K(m - 1)) \in Nat
    <3>1. K(m - 1) \subseteq Parts(s)
      BY DEF OfKey, Admitted
    <3> HIDE DEF K
    <3> QED BY <3>1, PartsFinite
  <2> HIDE DEF S
  <2>8. Cardinality(K(m)) = Cardinality(K(m - 1)) + IF args[m].key = key THEN 1 ELSE 0
    <3>1. CASE args[m].key = key
      <4>1. K(m) = K(m - 1) \cup {p} /\ p \notin K(m - 1)
        <5>1. \A o \in Admitted(s, max) : Nth(s, o) <= m <=> Nth(s, o) <= m - 1 \/ o = p
          BY <2>1, <2>2, <2>5
        <5>2. p \in OfKey(s, max, key) /\ OfKey(s, max, key) \subseteq Admitted(s, max)
          BY <2>3, <3>1 DEF OfKey
        <5>3. ~ (Nth(s, p) <= m - 1)
          BY <2>1
        <5> QED BY <5>1, <5>2, <5>3
      <4> HIDE DEF K
      <4>2. Cardinality(K(m - 1) \cup {p}) = Cardinality(K(m - 1)) + 1
        BY <2>7, <4>1, FS_AddElement
      <4> QED BY <3>1, <4>1, <4>2
    <3>2. CASE args[m].key # key
      <4>1. K(m) = K(m - 1)
        BY <2>1, <2>2, <2>3, <2>5, <3>2 DEF OfKey
      <4> HIDE DEF K
      <4> QED BY <2>7, <3>2, <4>1
    <3> QED BY <3>1, <3>2
  <2> HIDE DEF K
  <2>9. m \in 0..Len(args)
    BY <1>3
  <2> QED BY <2>4, <2>6, <2>8, <2>9 DEF S
<1>6. n \in S
  <2>1. n \in 0..N
    BY <1>3
  <2> HIDE DEF S
  <2> QED BY <1>3, <1>4, <1>5, <2>1, UpTo
<1> QED BY <1>6 DEF OfKeyUpTo

\* The arguments of a key are those of its parts, in their order.
LEMMA KeyBucket ==
  ASSUME NEW s \in Seq(Byte), NEW max \in Int, NEW args, args = ParseQueryString(s, max).args,
         NEW key, NEW bucket, bucket = Bucket(args, key), NEW ps, ps = ArgsOfKey(s, max, key)
  PROVE  /\ bucket \in Seq(Arguments) /\ Len(bucket) = Cardinality(Matching(args, key, Len(args)))
         /\ DOMAIN ps = 1..Len(bucket) /\ Len(ps) = Len(bucket)
         /\ \A i \in 1..Len(bucket) : ArgValue(s, ps[i]) = Worth(bucket[i])
<1> DEFINE K == OfKey(s, max, key)
           M == Cardinality(K)
           Place(i) == CHOOSE x \in K : Cardinality(Preceding(K, x)) = i - 1
<1>1. args \in Seq(Arguments)
  BY ArgsAdmitted
<1>2. PICK N \in Nat : N = Len(args)
  BY <1>1
<1>3. K \subseteq Parts(s) /\ K \subseteq Admitted(s, max)
  BY DEF OfKey, Admitted
<1>4. IsFiniteSet(K) /\ M \in Nat
  <2> HIDE DEF K
  <2> QED BY <1>3, PartsFinite
<1>5. \A p \in K : Nth(s, p) \in 1..N /\ args[Nth(s, p)].key = key /\ Worth(args[Nth(s, p)]) = ArgValue(s, p)
  <2>1. \A p \in K : ArgKey(s, p) = key
    BY DEF OfKey
  <2>2. \A p \in Admitted(s, max) : /\ Nth(s, p) \in 1..N
                                    /\ args[Nth(s, p)].key = ArgKey(s, p)
                                    /\ Worth(args[Nth(s, p)]) = ArgValue(s, p)
    BY <1>2, ArgsAdmitted
  <2> HIDE DEF K
  <2> QED BY <1>3, <2>1, <2>2
<1>6. /\ bucket \in Seq(Arguments) /\ Len(bucket) = Cardinality(Matching(args, key, N))
      /\ \A i \in 1..N : args[i].key = key =>
           /\ Cardinality(Matching(args, key, i)) \in 1..Len(bucket)
           /\ bucket[Cardinality(Matching(args, key, i))] = args[i]
  BY <1>1, <1>2, BucketIs DEF Gathered
<1>7. \A n \in 0..N : Cardinality(OfKeyUpTo(s, max, key, n)) = Cardinality(Matching(args, key, n))
  <2> SUFFICES ASSUME NEW n \in 0..N
               PROVE  Cardinality(OfKeyUpTo(s, max, key, n)) = Cardinality(Matching(args, key, n))
    OBVIOUS
  <2>1. n \in 0..Len(args)
    BY <1>2
  <2> QED BY <2>1, OfKeyCounted
<1>8. Len(bucket) = M
  <2>1. OfKeyUpTo(s, max, key, N) = K
    BY <1>5 DEF OfKeyUpTo
  <2>2. N \in 0..N
    OBVIOUS
  <2> HIDE DEF K
  <2> QED BY <1>6, <1>7, <2>1, <2>2
<1>9. ps = [i \in 1..M |-> Place(i)]
  BY DEF ArgsOfKey, InOrder, OfKey, Preceding
<1>10. ASSUME NEW i \in 1..M PROVE \E x \in K : /\ ps[i] = x /\ i = Cardinality(Preceding(K, x)) + 1
  <2>1. /\ \A x, y \in K : Cardinality(Preceding(K, x)) = Cardinality(Preceding(K, y)) => x = y
        /\ \A n \in 1..M : \E x \in K : n = Cardinality(Preceding(K, x)) + 1
    <3> HIDE DEF K
    <3> QED BY <1>3, PartsRanked
  <2>2. PICK x \in K : i = Cardinality(Preceding(K, x)) + 1
    BY <2>1
  <2>3. Cardinality(Preceding(K, x)) \in Nat
    <3>1. Preceding(K, x) \subseteq Parts(s)
      BY <1>3 DEF Preceding
    <3> QED BY <3>1, PartsFinite
  <2>4. Cardinality(Preceding(K, x)) = i - 1
    BY <2>2, <2>3
  <2>5. Place(i) = x
    <3> HIDE DEF K
    <3> QED BY <2>1, <2>4
  <2>6. ps[i] = Place(i)
    <3> HIDE DEF Place
    <3> QED BY <1>9
  <2> QED BY <2>2, <2>5, <2>6
<1>11. ASSUME NEW i \in 1..M PROVE ArgValue(s, ps[i]) = Worth(bucket[i])
  <2>1. PICK x \in K : ps[i] = x /\ i = Cardinality(Preceding(K, x)) + 1
    BY <1>10
  <2>2. PICK n \in 1..N : n = Nth(s, x)
    BY <1>5
  <2>3. OfKeyUpTo(s, max, key, n) = Preceding(K, x) \cup {x}
    <3>1. \A p \in K : Nth(s, p) <= n <=> p[1] <= x[1]
      <4> HIDE DEF K
      <4> QED BY <1>3, <2>2, NthGrows
    <3>2. \A p \in K : p[1] \in Int /\ (p[1] = x[1] => p = x)
      <4> HIDE DEF K
      <4> QED BY <1>3, PartPlace, StartsDiffer
    <3>3. x[1] \in Int
      BY <3>2
    <3>4. OfKeyUpTo(s, max, key, n) = {p \in K : Nth(s, p) <= n}
      BY DEF OfKeyUpTo
    <3> HIDE DEF K
    <3> QED BY <3>1, <3>2, <3>3, <3>4 DEF Preceding
  <2>4. Cardinality(Preceding(K, x) \cup {x}) = Cardinality(Preceding(K, x)) + 1
    <3>1. IsFiniteSet(Preceding(K, x)) /\ x \notin Preceding(K, x)
      <4>1. Preceding(K, x) \subseteq Parts(s)
        BY <1>3 DEF Preceding
      <4>2. x[1] \in Int
        BY <1>3, PartPlace
      <4> QED BY <4>1, <4>2, PartsFinite DEF Preceding
    <3> HIDE DEF K
    <3> QED BY <3>1, FS_AddElement
  <2>5. Cardinality(Matching(args, key, n)) = i
    <3>1. n \in 0..N
      OBVIOUS
    <3> HIDE DEF K
    <3> QED BY <1>7, <2>1, <2>3, <2>4, <3>1
  <2>6. args[n].key = key /\ Worth(args[n]) = ArgValue(s, x)
    BY <1>5, <2>2
  <2>7. bucket[i] = args[n]
    BY <1>6, <2>5, <2>6
  <2> QED BY <2>1, <2>6, <2>7
<1>12. DOMAIN ps = 1..M /\ Len(ps) = M
  <2>1. DOMAIN ps = 1..M
    <3> HIDE DEF Place, M
    <3> QED BY <1>9
  <2>2. ps \in [1..M -> K]
    <3>1. \A i \in 1..M : ps[i] \in K
      BY <1>10
    <3>2. ps = [i \in 1..M |-> ps[i]]
      <4> HIDE DEF Place, M
      <4> QED BY <1>9
    <3> HIDE DEF K, M
    <3> QED BY <3>1, <3>2
  <2> HIDE DEF K, M
  <2> QED BY <1>4, <2>1, <2>2
<1> HIDE DEF K, M
<1> QED BY <1>2, <1>6, <1>8, <1>11, <1>12

\* the value of a key in the table, from its arguments
EntryValue(bucket) ==
  IF Len(bucket) = 1 THEN Worth(bucket[1])
  ELSE LuaTab([i \in {LuaInt(n) : n \in 1..Len(bucket)} |-> Worth(bucket[i[2]])])

LEMMA ArgsTableIs ==
  ASSUME NEW s \in Seq(Byte), NEW max \in Int, NEW args, args = ParseQueryString(s, max).args
  PROVE  ArgsTable(s, max) =
           LuaTab([k \in {LuaStr(key) : key \in Keys(args)} |-> EntryValue(Bucket(args, k[2]))])
<1> DEFINE Value(key) ==
             LET ps == ArgsOfKey(s, max, key)
             IN  IF Len(ps) = 1 THEN ArgValue(s, ps[1])
                 ELSE LuaTab([i \in {LuaInt(n) : n \in DOMAIN ps} |-> ArgValue(s, ps[i[2]])])
<1>1. \A key : Value(key) = EntryValue(Bucket(args, key))
  <2> SUFFICES ASSUME NEW key PROVE Value(key) = EntryValue(Bucket(args, key))
    OBVIOUS
  <2>1. PICK bucket, ps : bucket = Bucket(args, key) /\ ps = ArgsOfKey(s, max, key)
    OBVIOUS
  <2>2. /\ bucket \in Seq(Arguments)
        /\ DOMAIN ps = 1..Len(bucket) /\ Len(ps) = Len(bucket)
        /\ \A i \in 1..Len(bucket) : ArgValue(s, ps[i]) = Worth(bucket[i])
    BY <2>1, KeyBucket
  <2>3. CASE Len(bucket) = 1
    <3>1. ArgValue(s, ps[1]) = Worth(bucket[1])
      BY <2>2, <2>3
    <3> QED BY <2>1, <2>2, <2>3, <3>1 DEF EntryValue
  <2>4. CASE Len(bucket) # 1
    <3> DEFINE I1 == {LuaInt(n) : n \in 1..Len(bucket)}
    <3>1. \A i \in I1 : ArgValue(s, ps[i[2]]) = Worth(bucket[i[2]])
      BY <2>2 DEF LuaInt
    <3>2. [i \in I1 |-> ArgValue(s, ps[i[2]])] = [i \in I1 |-> Worth(bucket[i[2]])]
      <4> HIDE DEF I1
      <4> QED BY <3>1
    <3>3. Value(key) = LuaTab([i \in I1 |-> ArgValue(s, ps[i[2]])])
      BY <2>1, <2>2, <2>4
    <3>4. EntryValue(bucket) = LuaTab([i \in I1 |-> Worth(bucket[i[2]])])
      BY <2>4 DEF EntryValue
    <3> HIDE DEF I1, Value
    <3> QED BY <2>1, <3>2, <3>3, <3>4
  <2> QED BY <2>3, <2>4
<1>2. Keys(args) = {ArgKey(s, p) : p \in Admitted(s, max)} \ {<<>>}
  BY KeysFound
<1>3. ArgsTable(s, max) = LuaTab([k \in {LuaStr(key) : key \in Keys(args)} |-> Value(k[2])])
  BY <1>2 DEF ArgsTable
<1> HIDE DEF Value
<1>4. [k \in {LuaStr(key) : key \in Keys(args)} |-> Value(k[2])]
      = [k \in {LuaStr(key) : key \in Keys(args)} |-> EntryValue(Bucket(args, k[2]))]
  BY <1>1
<1> QED BY <1>3, <1>4

-----------------------------------------------------------------------------
(* What operations do to a stack, a part of them after another.            *)

Leads(ops, u, v) ==
  \E f : /\ f[0] = u /\ f[Len(ops)] = v
         /\ \A n \in 1..Len(ops) : f[n] = Perform(f[n - 1], ops[n])

LEMMA LeadsNowhere ==
  ASSUME NEW u
  PROVE  Leads(<<>>, u, u)
<1> DEFINE f == [n \in 0..0 |-> u]
<1>1. f[0] = u /\ Len(<<>>) = 0 /\ 1..0 = {}
  OBVIOUS
<1> HIDE DEF f
<1> QED BY <1>1 DEF Leads

LEMMA LeadsOne ==
  ASSUME NEW op, NEW u, NEW v, v = Perform(u, op)
  PROVE  Leads(<<op>>, u, v)
<1> DEFINE f == [n \in 0..1 |-> IF n = 0 THEN u ELSE v]
<1>1. f[0] = u /\ f[1] = v /\ Len(<<op>>) = 1 /\ <<op>>[1] = op /\ 1..1 = {1} /\ 1 - 1 = 0
  OBVIOUS
<1> HIDE DEF f
<1>2. \A n \in 1..1 : f[n] = Perform(f[n - 1], <<op>>[n])
  BY <1>1
<1> QED BY <1>1, <1>2 DEF Leads

LEMMA LeadsOn ==
  ASSUME NEW S, NEW a \in Seq(S), NEW b \in Seq(S), NEW u, NEW v, NEW w, Leads(a, u, v), Leads(b, v, w)
  PROVE  Leads(a \o b, u, w)
<1>1. PICK f : /\ f[0] = u /\ f[Len(a)] = v
               /\ \A n \in 1..Len(a) : f[n] = Perform(f[n - 1], a[n])
  BY DEF Leads
<1>2. PICK g : /\ g[0] = v /\ g[Len(b)] = w
               /\ \A n \in 1..Len(b) : g[n] = Perform(g[n - 1], b[n])
  BY DEF Leads
<1>3. PICK A \in Nat, B \in Nat : A = Len(a) /\ B = Len(b)
  <2>1. Len(a) \in Nat /\ Len(b) \in Nat
    OBVIOUS
  <2> QED BY <2>1
<1>4. PICK c : c = a \o b
  OBVIOUS
<1>5. Len(c) = A + B /\ (\A n \in 1..A : c[n] = a[n]) /\ \A n \in 1..B : c[A + n] = b[n]
  BY <1>3, <1>4, Joins DEF Joined
<1> DEFINE h == [n \in 0 .. A + B |-> IF n <= A THEN f[n] ELSE g[n - A]]
<1>6. \A n \in 0..A : h[n] = f[n]
  OBVIOUS
<1>7. \A n \in 0..B : h[A + n] = g[n]
  <2> SUFFICES ASSUME NEW n \in 0..B PROVE h[A + n] = g[n]
    OBVIOUS
  <2>1. CASE n = 0
    <3>1. A + n = A /\ A \in 0..A
      BY <2>1
    <3>2. h[A] = f[A]
      BY <1>6, <3>1
    <3> HIDE DEF h
    <3> QED BY <1>1, <1>2, <1>3, <2>1, <3>1, <3>2
  <2>2. CASE n # 0
    <3>1. A + n \in 0 .. A + B /\ ~ (A + n <= A) /\ (A + n) - A = n
      BY <2>2
    <3> QED BY <3>1
  <2> QED BY <2>1, <2>2
<1> HIDE DEF h
<1>8. \A n \in 1 .. A + B : h[n] = Perform(h[n - 1], c[n])
  <2> SUFFICES ASSUME NEW n \in 1 .. A + B PROVE h[n] = Perform(h[n - 1], c[n])
    OBVIOUS
  <2>1. CASE n <= A
    <3>1. n \in 0..A /\ n - 1 \in 0..A /\ n \in 1..A
      BY <2>1
    <3>2. h[n] = f[n] /\ h[n - 1] = f[n - 1] /\ c[n] = a[n] /\ f[n] = Perform(f[n - 1], a[n])
      BY <1>1, <1>3, <1>5, <1>6, <3>1
    <3> QED BY <3>2
  <2>2. CASE n > A
    <3>1. PICK m \in 1..B : n = A + m
      <4>1. n - A \in 1..B /\ n = A + (n - A)
        BY <2>2
      <4> QED BY <4>1
    <3>2. PICK k \in 0..B : k = m - 1
      OBVIOUS
    <3>3. m \in 0..B /\ n - 1 = A + k
      BY <3>1, <3>2
    <3>4. h[n] = g[m] /\ h[n - 1] = g[k] /\ c[n] = b[m] /\ g[m] = Perform(g[k], b[m])
      BY <1>2, <1>3, <1>5, <1>7, <3>1, <3>2, <3>3
    <3> QED BY <3>4
  <2> QED BY <2>1, <2>2
<1>9. h[0] = u /\ h[A + B] = w
  BY <1>1, <1>2, <1>3, <1>6, <1>7
<1> QED BY <1>3, <1>5, <1>8, <1>9, <1>4 DEF Leads

LEMMA LeadsAll ==
  ASSUME NEW S, NEW parts \in Seq(Seq(S)), NEW st,
         \A n \in 1..Len(parts) : Leads(parts[n], st[n - 1], st[n])
  PROVE  Leads(FlattenSeq(parts), st[0], st[Len(parts)])
<1>1. PICK flat : Flattens(flat, parts, S) /\ FlattenSeq(parts) = flat[Len(parts)]
  BY FlattenIs
<1>2. PICK N \in Nat : N = Len(parts)
  OBVIOUS
<1>3. /\ flat \in [0..N -> Seq(S)] /\ flat[0] = <<>>
      /\ \A i \in 1..N : flat[i] = flat[i - 1] \o parts[i]
  BY <1>1, <1>2 DEF Flattens
<1> DEFINE T == {n \in 0..N : Leads(flat[n], st[0], st[n])}
<1>4. 0 \in T
  BY <1>3, LeadsNowhere
<1>5. \A n \in 1..N : n - 1 \in T => n \in T
  <2> SUFFICES ASSUME NEW n \in 1..N, n - 1 \in T PROVE n \in T
    OBVIOUS
  <2>1. PICK a \in Seq(S), b \in Seq(S) : a = flat[n - 1] /\ b = parts[n]
    <3>1. n - 1 \in 0..N
      OBVIOUS
    <3>2. flat[n - 1] \in Seq(S)
      BY <1>3, <3>1, Zenon
    <3>3. parts[n] \in Seq(S)
      BY <1>2
    <3> QED BY <3>2, <3>3
  <2>2. Leads(a, st[0], st[n - 1])
    BY <2>1
  <2>3. Leads(b, st[n - 1], st[n])
    BY <1>2, <2>1
  <2>4. Leads(a \o b, st[0], st[n])
    BY <2>2, <2>3, LeadsOn
  <2>5. flat[n] = a \o b
    <3>1. flat[n] = flat[n - 1] \o parts[n]
      BY <1>3
    <3> QED BY <2>1, <3>1, Zenon
  <2>6. n \in 0..N
    OBVIOUS
  <2> QED BY <2>4, <2>5, <2>6
<1>6. N \in T
  <2>1. N \in 0..N
    OBVIOUS
  <2> HIDE DEF T
  <2> QED BY <1>4, <1>5, <2>1, UpTo
<1> QED BY <1>1, <1>2, <1>6

LEMMA LeadsPerformed ==
  ASSUME NEW ops, Len(ops) \in Nat, NEW v, Leads(ops, <<>>, v)
  PROVE  Performed(ops) = v
<1>1. PICK N \in Nat : N = Len(ops)
  OBVIOUS
<1>2. PICK f : f[0] = <<>> /\ f[N] = v /\ \A n \in 1..N : f[n] = Perform(f[n - 1], ops[n])
  BY <1>1 DEF Leads
<1>3. PICK perf : Performs(perf, ops) /\ Performed(ops) = perf[N]
  BY <1>1, Performing
<1>4. perf[0] = <<>> /\ \A n \in 1..N : perf[n] = Perform(perf[n - 1], ops[n])
  BY <1>1, <1>3 DEF Performs
<1> DEFINE T == {n \in 0..N : perf[n] = f[n]}
<1>5. 0 \in T
  BY <1>2, <1>4
<1>6. \A n \in 1..N : n - 1 \in T => n \in T
  BY <1>2, <1>4
<1>7. N \in T
  <2>1. N \in 0..N
    OBVIOUS
  <2> HIDE DEF T
  <2> QED BY <1>5, <1>6, <2>1, UpTo
<1> QED BY <1>2, <1>3, <1>7

-----------------------------------------------------------------------------
(* Entries of a table that lies on a stack.                                *)

With(f, k, v) == [x \in DOMAIN f \cup {k} |-> IF x = k THEN v ELSE f[x]]

\* the operations of the batches that golapis itself writes
OpShapes ==
  {<<"table">>, <<"set">>} \cup {<<"bool", TRUE>>}
  \cup {<<x, t>> : x \in {"string", "setFieldInline"}, t \in Seq(Byte)}
  \cup {<<x, n>> : x \in {"int", "setIndex"}, n \in Int}
  \cup {<<"tableSized", m, n>> : m \in Int, n \in Int}

TableOps == {op \in OpShapes : IsOperation(op)}

LEMMA Pushing ==
  ASSUME NEW st
  PROVE  /\ Perform(st, <<"table">>) = Push(st, NewTable)
         /\ Perform(st, <<"set">>) = SetsTop(st)
         /\ Perform(st, <<"bool", TRUE>>) = Push(st, LuaBool(TRUE))
         /\ \A t : Perform(st, <<"string", t>>) = Push(st, LuaStr(t))
         /\ \A t : Perform(st, <<"setFieldInline", t>>) = SetsField(st, LuaStr(t))
         /\ \A n : Perform(st, <<"int", n>>) = Push(st, LuaInt(n))
         /\ \A n : Perform(st, <<"setIndex", n>>) = SetsField(st, LuaInt(n))
         /\ \A m, n : Perform(st, <<"tableSized", m, n>>) = Push(st, NewTable)
<1>1. Perform(st, <<"table">>) = Push(st, NewTable)
  BY DEF Perform
<1>2. Perform(st, <<"set">>) = SetsTop(st)
  BY DEF Perform
<1>3. Perform(st, <<"bool", TRUE>>) = Push(st, LuaBool(TRUE))
  BY DEF Perform
<1>4. \A t : Perform(st, <<"string", t>>) = Push(st, LuaStr(t))
  BY DEF Perform
<1>5. \A t : Perform(st, <<"setFieldInline", t>>) = SetsField(st, LuaStr(t))
  BY DEF Perform
<1>6. \A n : Perform(st, <<"int", n>>) = Push(st, LuaInt(n))
  BY DEF Perform
<1>7. \A n : Perform(st, <<"setIndex", n>>) = SetsField(st, LuaInt(n))
  BY DEF Perform
<1>8. \A m, n : Perform(st, <<"tableSized", m, n>>) = Push(st, NewTable)
  BY DEF Perform
<1> QED BY <1>1, <1>2, <1>3, <1>4, <1>5, <1>6, <1>7, <1>8

\* A value that is not nil becomes the entry of its key.
LEMMA EntrySet ==
  ASSUME NEW st, NEW below, NEW at, at = Len(st) - below, NEW f, st[at] = LuaTab(f),
         NEW k, NEW v, v # LuaNil
  PROVE  TableSet(st, below, k, v) = [st EXCEPT ![at] = LuaTab(With(f, k, v))]
<1>1. st[at][2] = f
  BY DEF LuaTab
<1>2. (DOMAIN f \cup {k}) \ (IF v = LuaNil THEN {k} ELSE {}) = DOMAIN f \cup {k}
  OBVIOUS
<1> QED BY <1>1, <1>2 DEF TableSet, With

LEMMA DropsTop ==
  ASSUME NEW S, NEW b \in Seq(S), NEW x \in S, NEW y \in S
  PROVE  Drop(Append(b, x), 1) = b /\ Drop(Append(Append(b, x), y), 2) = b
<1>1. PICK n \in Nat : n = Len(b)
  OBVIOUS
<1>2. PICK c, d : c = Append(b, x) /\ d = Append(c, y)
  OBVIOUS
<1>3. /\ c \in Seq(S) /\ Len(c) = n + 1 /\ \A i \in 1..n : c[i] = b[i]
      /\ d \in Seq(S) /\ Len(d) = n + 2 /\ \A i \in 1..n : d[i] = b[i]
  BY <1>1, <1>2
<1>4. ASSUME NEW e \in Seq(S), Len(e) >= n, \A i \in 1..n : e[i] = b[i] PROVE SubSeq(e, 1, n) = b
  <2>1. PICK t : t = SubSeq(e, 1, n)
    OBVIOUS
  <2>2. \A i \in 1..n : e[i] \in S
    BY <1>4
  <2>3. t \in Seq(S) /\ Len(t) = (IF 1 <= n THEN n - 1 + 1 ELSE 0) /\ \A i \in 1 .. n - 1 + 1 : t[i] = e[1 + i - 1]
    BY <2>1, <2>2, SubSeqProperties
  <2>4. Len(t) = n /\ \A i \in 1..n : t[i] = b[i]
    <3>1. n - 1 + 1 = n /\ \A i \in 1..n : 1 + i - 1 = i
      OBVIOUS
    <3>2. Len(t) = n
      BY <2>3
    <3> QED BY <1>4, <2>3, <3>1, <3>2
  <2>5. t = b
    BY <1>1, <2>3, <2>4, SeqEqual
  <2> QED BY <2>1, <2>5
<1>5. Len(c) - 1 = n /\ Len(d) - 2 = n
  BY <1>3
<1>6. Drop(c, 1) = SubSeq(c, 1, n) /\ Drop(d, 2) = SubSeq(d, 1, n)
  BY <1>5 DEF Drop
<1>7. SubSeq(c, 1, n) = b
  BY <1>3, <1>4
<1>8. SubSeq(d, 1, n) = b
  BY <1>3, <1>4
<1> QED BY <1>2, <1>6, <1>7, <1>8

LEMMA FieldIsSet ==
  ASSUME NEW S, NEW b \in Seq(S), NEW f, NEW k, NEW v, v # LuaNil
  PROVE  SetsField(Push(Push(b, LuaTab(f)), v), k) = Push(b, LuaTab(With(f, k, v)))
<1>1. PICK n \in Nat : n = Len(b)
  OBVIOUS
<1>2. PICK x, y : x = LuaTab(f) /\ y = LuaTab(With(f, k, v))
  OBVIOUS
<1> DEFINE D == S \cup {x, y, v}
<1>3. b \in Seq(D) /\ x \in D /\ y \in D /\ v \in D
  OBVIOUS
<1> HIDE DEF D
<1>4. PICK st, c, e : c = Append(b, x) /\ st = Append(c, v) /\ e = Append(b, y)
  OBVIOUS
<1>5. /\ Len(st) = n + 2 /\ st[n + 1] = x /\ st[n + 2] = v
      /\ e \in Seq(D)
  BY <1>1, <1>3, <1>4
<1>6. Top(st, 0) = v
  <2>1. Len(st) - 0 = n + 2
    BY <1>5
  <2> QED BY <1>5, <2>1 DEF Top
<1>7. PICK at : at = n + 1
  OBVIOUS
<1>8. at = Len(st) - 1 /\ st[at] = x
  BY <1>5, <1>7
<1>9. TableSet(st, 1, k, v) = [st EXCEPT ![at] = y]
  <2>1. PICK below : below = 1
    OBVIOUS
  <2>2. at = Len(st) - below
    BY <1>8, <2>1
  <2>3. st[at] = LuaTab(f)
    BY <1>2, <1>8
  <2>4. TableSet(st, below, k, v) = [st EXCEPT ![at] = LuaTab(With(f, k, v))]
    BY <2>2, <2>3, EntrySet
  <2> QED BY <1>2, <2>1, <2>4
<1>10. [st EXCEPT ![at] = y] = Append(e, v)
  <2>1. PICK g, h : g = [st EXCEPT ![at] = y] /\ h = Append(e, v)
    OBVIOUS
  <2>2. st \in Seq(D) /\ at \in 1..Len(st)
    BY <1>1, <1>3, <1>4, <1>5, <1>7
  <2>3. g \in Seq(D) /\ Len(g) = n + 2 /\ \A i \in 1 .. n + 2 : g[i] = IF i = at THEN y ELSE st[i]
    BY <1>3, <1>5, <2>1, <2>2, ExceptSeq
  <2>4. h \in Seq(D) /\ Len(h) = n + 2
    BY <1>1, <1>3, <1>4, <2>1
  <2>5. \A i \in 1 .. n + 2 : h[i] = IF i = at THEN y ELSE st[i]
    BY <1>1, <1>3, <1>4, <1>7, <2>1
  <2>6. g = h
    BY <2>3, <2>4, <2>5, SeqEqual
  <2> QED BY <2>1, <2>6
<1>11. Drop(Append(e, v), 1) = e
  BY <1>3, <1>5, DropsTop
<1>12. SetsField(st, k) = e
  BY <1>6, <1>9, <1>10, <1>11 DEF SetsField
<1> QED BY <1>2, <1>4, <1>12 DEF Push

LEMMA TopIsSet ==
  ASSUME NEW S, NEW b \in Seq(S), NEW f, NEW k, NEW v, v # LuaNil
  PROVE  SetsTop(Push(Push(Push(b, LuaTab(f)), k), v)) = Push(b, LuaTab(With(f, k, v)))
<1>1. PICK n \in Nat : n = Len(b)
  OBVIOUS
<1>2. PICK x, y : x = LuaTab(f) /\ y = LuaTab(With(f, k, v))
  OBVIOUS
<1> DEFINE D == S \cup {x, y, v, k}
<1>3. b \in Seq(D) /\ x \in D /\ y \in D /\ v \in D /\ k \in D
  OBVIOUS
<1> HIDE DEF D
<1>4. PICK st, c, d, e : c = Append(b, x) /\ d = Append(c, k) /\ st = Append(d, v) /\ e = Append(b, y)
  OBVIOUS
<1>5. /\ Len(st) = n + 3 /\ st[n + 1] = x /\ st[n + 2] = k /\ st[n + 3] = v
      /\ e \in Seq(D)
  BY <1>1, <1>3, <1>4
<1>6. Top(st, 0) = v /\ Top(st, 1) = k
  <2>1. Len(st) - 0 = n + 3 /\ Len(st) - 1 = n + 2
    BY <1>5
  <2> QED BY <1>5, <2>1 DEF Top
<1>7. PICK at : at = n + 1
  OBVIOUS
<1>8. at = Len(st) - 2 /\ st[at] = x
  BY <1>5, <1>7
<1>9. TableSet(st, 2, k, v) = [st EXCEPT ![at] = y]
  <2>1. PICK below : below = 2
    OBVIOUS
  <2>2. at = Len(st) - below
    BY <1>8, <2>1
  <2>3. st[at] = LuaTab(f)
    BY <1>2, <1>8
  <2>4. TableSet(st, below, k, v) = [st EXCEPT ![at] = LuaTab(With(f, k, v))]
    BY <2>2, <2>3, EntrySet
  <2> QED BY <1>2, <2>1, <2>4
<1>10. [st EXCEPT ![at] = y] = Append(Append(e, k), v)
  <2>1. PICK g, h : g = [st EXCEPT ![at] = y] /\ h = Append(Append(e, k), v)
    OBVIOUS
  <2>2. st \in Seq(D) /\ at \in 1..Len(st)
    BY <1>1, <1>3, <1>4, <1>5, <1>7
  <2>3. g \in Seq(D) /\ Len(g) = n + 3 /\ \A i \in 1 .. n + 3 : g[i] = IF i = at THEN y ELSE st[i]
    BY <1>3, <1>5, <2>1, <2>2, ExceptSeq
  <2>4. h \in Seq(D) /\ Len(h) = n + 3
    BY <1>1, <1>3, <1>4, <2>1
  <2>5. \A i \in 1 .. n + 3 : h[i] = IF i = at THEN y ELSE st[i]
    BY <1>1, <1>3, <1>4, <1>7, <2>1
  <2>6. g = h
    BY <2>3, <2>4, <2>5, SeqEqual
  <2> QED BY <2>1, <2>6
<1>11. Drop(Append(Append(e, k), v), 2) = e
  BY <1>3, <1>5, DropsTop
<1>12. SetsTop(st) = e
  BY <1>6, <1>9, <1>10, <1>11 DEF SetsTop
<1> QED BY <1>2, <1>4, <1>12 DEF Push

LEMMA LeadsTwo ==
  ASSUME NEW a, NEW b, NEW u, NEW v, NEW w, v = Perform(u, a), w = Perform(v, b)
  PROVE  Leads(<<a, b>>, u, w)
<1> DEFINE f == [n \in 0..2 |-> IF n = 0 THEN u ELSE IF n = 1 THEN v ELSE w]
<1>1. /\ f[0] = u /\ f[1] = v /\ f[2] = w
      /\ Len(<<a, b>>) = 2 /\ <<a, b>>[1] = a /\ <<a, b>>[2] = b
      /\ 1..2 = {1, 2} /\ 1 - 1 = 0 /\ 2 - 1 = 1
  OBVIOUS
<1> HIDE DEF f
<1>2. \A n \in 1..2 : f[n] = Perform(f[n - 1], <<a, b>>[n])
  BY <1>1
<1> QED BY <1>1, <1>2 DEF Leads

LEMMA LeadsThree ==
  ASSUME NEW a, NEW b, NEW c, NEW u, NEW v, NEW w, NEW x,
         v = Perform(u, a), w = Perform(v, b), x = Perform(w, c)
  PROVE  Leads(<<a, b, c>>, u, x)
<1> DEFINE f == [n \in 0..3 |-> IF n = 0 THEN u ELSE IF n = 1 THEN v ELSE IF n = 2 THEN w ELSE x]
<1>1. /\ f[0] = u /\ f[1] = v /\ f[2] = w /\ f[3] = x
      /\ Len(<<a, b, c>>) = 3 /\ <<a, b, c>>[1] = a /\ <<a, b, c>>[2] = b /\ <<a, b, c>>[3] = c
      /\ 1..3 = {1, 2, 3} /\ 1 - 1 = 0 /\ 2 - 1 = 1 /\ 3 - 1 = 2
  OBVIOUS
<1> HIDE DEF f
<1>2. \A n \in 1..3 : f[n] = Perform(f[n - 1], <<a, b, c>>[n])
  BY <1>1
<1> QED BY <1>1, <1>2 DEF Leads

\* an argument of a key, which get_uri_args pushes
LEMMA WorthIsPushed ==
  ASSUME NEW arg \in Arguments, NEW st
  PROVE  Perform(st, ArgOp(arg)) = Push(st, Worth(arg)) /\ Worth(arg) # LuaNil
<1>1. CASE arg.isBoolean
  BY <1>1, Pushing DEF ArgOp, Worth, LuaBool, LuaNil
<1>2. CASE ~arg.isBoolean
  BY <1>2, Pushing DEF ArgOp, Worth, LuaStr, LuaNil
<1> QED BY <1>1, <1>2

\* the first n elements of the table of a key
ArgElements(bucket, n) == [x \in {LuaInt(i) : i \in 1..n} |-> Worth(bucket[x[2]])]

LEMMA ElementsGrow ==
  ASSUME NEW bucket, NEW n \in Nat, n > 0
  PROVE  With(ArgElements(bucket, n - 1), LuaInt(n), Worth(bucket[n])) = ArgElements(bucket, n)
<1> DEFINE A == {LuaInt(i) : i \in 1..n - 1}
           B == {LuaInt(i) : i \in 1..n}
<1>1. B = A \cup {LuaInt(n)}
  OBVIOUS
<1>2. LuaInt(n) \in B /\ LuaInt(n)[2] = n
  BY DEF LuaInt
<1>3. DOMAIN ArgElements(bucket, n - 1) = A
  BY DEF ArgElements
<1>4. \A x \in A : ArgElements(bucket, n - 1)[x] = Worth(bucket[x[2]])
  BY DEF ArgElements
<1>5. ArgElements(bucket, n) = [x \in B |-> Worth(bucket[x[2]])]
  BY DEF ArgElements
<1> HIDE DEF A, B
<1> QED BY <1>1, <1>2, <1>3, <1>4, <1>5 DEF With

\* the operations on the elements
ElementOps(bucket) == [i \in DOMAIN bucket |-> <<ArgOp(bucket[i]), <<"setIndex", i>> >>]

LEMMA ArgOpType ==
  ASSUME NEW arg \in Arguments, IsUint32(Len(arg.value))
  PROVE  ArgOp(arg) \in TableOps
<1>1. CASE arg.isBoolean
  <2>1. ArgOp(arg) = <<"bool", TRUE>>
    BY <1>1 DEF ArgOp
  <2>2. IsOperation(<<"bool", TRUE>>)
    BY DEF IsOperation
  <2> QED BY <2>1, <2>2 DEF OpShapes, TableOps
<1>2. CASE ~arg.isBoolean
  <2>1. arg.value \in Seq(Byte)
    BY DEF Arguments
  <2>2. ArgOp(arg) = <<"string", arg.value>>
    BY <1>2 DEF ArgOp
  <2>3. IsOperation(<<"string", arg.value>>)
    BY <2>1 DEF IsOperation
  <2> QED BY <2>1, <2>2, <2>3 DEF OpShapes, TableOps
<1> QED BY <1>1, <1>2

LEMMA OpTypes ==
  /\ <<"table">> \in TableOps /\ <<"set">> \in TableOps
  /\ \A t \in Seq(Byte) : IsUint32(Len(t)) =>
       <<"string", t>> \in TableOps /\ <<"setFieldInline", t>> \in TableOps
  /\ \A m, n \in Int : <<"tableSized", m, n>> \in TableOps
  /\ \A n : IsInt64(n) => <<"int", n>> \in TableOps
  /\ \A n : IsInt32(n) => <<"setIndex", n>> \in TableOps
<1>1. <<"table">> \in TableOps /\ <<"set">> \in TableOps
  BY DEF OpShapes, TableOps, IsOperation
<1>2. ASSUME NEW t \in Seq(Byte), IsUint32(Len(t))
      PROVE  <<"string", t>> \in TableOps /\ <<"setFieldInline", t>> \in TableOps
  BY <1>2 DEF OpShapes, TableOps, IsOperation
<1>3. ASSUME NEW m \in Int, NEW n \in Int PROVE <<"tableSized", m, n>> \in TableOps
  BY DEF OpShapes, TableOps, IsOperation
<1>4. ASSUME NEW n, IsInt64(n) PROVE <<"int", n>> \in TableOps
  BY <1>4, IntTypes DEF OpShapes, TableOps, IsOperation
<1>5. ASSUME NEW n, IsInt32(n) PROVE <<"setIndex", n>> \in TableOps
  BY <1>5, IntTypes DEF OpShapes, TableOps, IsOperation
<1> QED BY <1>1, <1>2, <1>3, <1>4, <1>5

\* A bound of the parts adds up to one of the whole.
LEMMA FlattenLength ==
  ASSUME NEW S, NEW parts \in Seq(Seq(S)), NEW w \in [0..Len(parts) -> Nat],
         \A n \in 1..Len(parts) : w[n - 1] + Len(parts[n]) <= w[n]
  PROVE  FlattenSeq(parts) \in Seq(S) /\ Len(FlattenSeq(parts)) <= w[Len(parts)]
<1>1. PICK flat : Flattens(flat, parts, S) /\ FlattenSeq(parts) = flat[Len(parts)]
  BY FlattenIs
<1>2. PICK N \in Nat : N = Len(parts)
  OBVIOUS
<1>3. /\ flat \in [0..N -> Seq(S)] /\ flat[0] = <<>>
      /\ \A i \in 1..N : flat[i] = flat[i - 1] \o parts[i]
  BY <1>1, <1>2 DEF Flattens
<1> DEFINE T == {n \in 0..N : Len(flat[n]) <= w[n]}
<1>4. 0 \in T
  <2>1. w[0] \in Nat
    BY <1>2
  <2> QED BY <1>3, <2>1
<1>5. \A n \in 1..N : n - 1 \in T => n \in T
  <2> SUFFICES ASSUME NEW n \in 1..N, n - 1 \in T PROVE n \in T
    OBVIOUS
  <2>1. n - 1 \in 0..N /\ n \in 0..N
    OBVIOUS
  <2>2. flat[n - 1] \in Seq(S) /\ w[n] \in Nat /\ w[n - 1] \in Nat
    BY <1>2, <1>3, <2>1, Zenon
  <2>3. parts[n] \in Seq(S)
    BY <1>2
  <2>4. PICK a \in Seq(S), b \in Seq(S) : a = flat[n - 1] /\ b = parts[n]
    BY <2>2, <2>3
  <2>5. flat[n] = a \o b
    <3>1. flat[n] = flat[n - 1] \o parts[n]
      BY <1>3
    <3> QED BY <2>4, <3>1, Zenon
  <2>6. Len(a \o b) = Len(a) + Len(b) /\ Len(a) \in Nat /\ Len(b) \in Nat
    OBVIOUS
  <2>7. Len(a) <= w[n - 1] /\ w[n - 1] + Len(b) <= w[n]
    BY <1>2, <2>4
  <2>8. Len(flat[n]) <= w[n]
    BY <2>2, <2>5, <2>6, <2>7
  <2> QED BY <2>1, <2>8
<1>6. N \in T
  <2>1. N \in 0..N
    OBVIOUS
  <2> HIDE DEF T
  <2> QED BY <1>4, <1>5, <2>1, UpTo
<1>7. flat[N] \in Seq(S)
  <2>1. N \in 0..N
    OBVIOUS
  <2> QED BY <1>3, <2>1, Zenon
<1> QED BY <1>1, <1>2, <1>6, <1>7

\* arguments short enough for a batch
Fitting(bucket) ==
  /\ bucket \in Seq(Arguments)
  /\ \A i \in 1..Len(bucket) : IsUint32(Len(bucket[i].value)) /\ IsInt32(i)

LEMMA ElementOpsType ==
  ASSUME NEW bucket, Fitting(bucket)
  PROVE  /\ ElementOps(bucket) \in Seq(Seq(TableOps)) /\ Len(ElementOps(bucket)) = Len(bucket)
         /\ FlattenSeq(ElementOps(bucket)) \in Seq(TableOps)
         /\ Len(FlattenSeq(ElementOps(bucket))) <= 2 * Len(bucket)
<1>1. PICK n \in Nat : n = Len(bucket) /\ DOMAIN bucket = 1..n
  BY DEF Fitting
<1>2. PICK parts : parts = ElementOps(bucket)
  OBVIOUS
<1>3. \A i \in 1..n : <<ArgOp(bucket[i]), <<"setIndex", i>> >> \in Seq(TableOps)
  <2> SUFFICES ASSUME NEW i \in 1..n PROVE <<ArgOp(bucket[i]), <<"setIndex", i>> >> \in Seq(TableOps)
    OBVIOUS
  <2>1. bucket[i] \in Arguments /\ IsUint32(Len(bucket[i].value)) /\ IsInt32(i)
    BY <1>1 DEF Fitting
  <2>2. ArgOp(bucket[i]) \in TableOps
    BY <2>1, ArgOpType
  <2>3. <<"setIndex", i>> \in TableOps
    BY <2>1, OpTypes
  <2> QED BY <2>2, <2>3
<1>4. parts = [i \in 1..n |-> <<ArgOp(bucket[i]), <<"setIndex", i>> >>]
  BY <1>1, <1>2 DEF ElementOps
<1>5. parts \in Seq(Seq(TableOps)) /\ Len(parts) = n
  <2>1. parts \in [1..n -> Seq(TableOps)]
    BY <1>3, <1>4
  <2> QED BY <2>1
<1> DEFINE w == [i \in 0..n |-> 2 * i]
<1>6. w \in [0..n -> Nat]
  OBVIOUS
<1>7. \A i \in 1..n : w[i - 1] + Len(parts[i]) <= w[i]
  <2> SUFFICES ASSUME NEW i \in 1..n PROVE w[i - 1] + Len(parts[i]) <= w[i]
    OBVIOUS
  <2>1. Len(parts[i]) = 2
    BY <1>4
  <2>2. i - 1 \in 0..n /\ i \in 0..n
    OBVIOUS
  <2>3. w[i - 1] = 2 * (i - 1) /\ w[i] = 2 * i
    BY <2>2
  <2> HIDE DEF w
  <2> QED BY <2>1, <2>3
<1>8. w[n] = 2 * n
  OBVIOUS
<1> HIDE DEF w
<1>9. FlattenSeq(parts) \in Seq(TableOps) /\ Len(FlattenSeq(parts)) <= w[n]
  BY <1>5, <1>6, <1>7, FlattenLength
<1> QED BY <1>1, <1>2, <1>5, <1>8, <1>9

LEMMA ElementsLead ==
  ASSUME NEW S, NEW b \in Seq(S), NEW bucket, Fitting(bucket)
  PROVE  Leads(FlattenSeq(ElementOps(bucket)), Push(b, NewTable),
               Push(b, LuaTab(ArgElements(bucket, Len(bucket)))))
<1>1. PICK n \in Nat : n = Len(bucket) /\ DOMAIN bucket = 1..n
  BY DEF Fitting
<1>2. PICK parts : parts = ElementOps(bucket) /\ parts \in Seq(Seq(TableOps)) /\ Len(parts) = n
  BY <1>1, ElementOpsType
<1> DEFINE st == [i \in 0..n |-> Push(b, LuaTab(ArgElements(bucket, i)))]
<1>3. \A i \in 1..n : Leads(parts[i], st[i - 1], st[i])
  <2> SUFFICES ASSUME NEW i \in 1..n PROVE Leads(parts[i], st[i - 1], st[i])
    OBVIOUS
  <2>1. PICK u, v, w, x, y : /\ u = LuaTab(ArgElements(bucket, i - 1)) /\ v = Worth(bucket[i])
                             /\ w = ArgElements(bucket, i) /\ x = ArgOp(bucket[i]) /\ y = <<"setIndex", i>>
    OBVIOUS
  <2>2. parts[i] = <<x, y>>
    BY <1>1, <1>2, <2>1 DEF ElementOps
  <2>3. bucket[i] \in Arguments
    BY <1>1 DEF Fitting
  <2>4. Push(Push(b, u), v) = Perform(Push(b, u), x) /\ v # LuaNil
    BY <2>1, <2>3, WorthIsPushed
  <2>5. Perform(Push(Push(b, u), v), y) = SetsField(Push(Push(b, u), v), LuaInt(i))
    BY <2>1, Pushing
  <2>6. SetsField(Push(Push(b, u), v), LuaInt(i))
          = Push(b, LuaTab(With(ArgElements(bucket, i - 1), LuaInt(i), v)))
    BY <2>1, <2>4, FieldIsSet
  <2>7. With(ArgElements(bucket, i - 1), LuaInt(i), v) = w
    <3>1. i \in Nat /\ i > 0
      OBVIOUS
    <3> QED BY <2>1, <3>1, ElementsGrow
  <2>8. Leads(<<x, y>>, Push(b, u), Push(b, LuaTab(w)))
    <3>1. PICK o, p, q : o = Push(b, u) /\ p = Push(o, v) /\ q = Push(b, LuaTab(w))
      OBVIOUS
    <3>2. p = Perform(o, x)
      BY <2>4, <3>1
    <3>3. q = Perform(p, y)
      BY <2>5, <2>6, <2>7, <3>1
    <3>4. Leads(<<x, y>>, o, q)
      BY <3>2, <3>3, LeadsTwo
    <3> QED BY <3>1, <3>4
  <2>9. st[i - 1] = Push(b, u) /\ st[i] = Push(b, LuaTab(w))
    <3>1. i - 1 \in 0..n /\ i \in 0..n
      OBVIOUS
    <3> QED BY <2>1, <3>1
  <2> HIDE DEF st
  <2> QED BY <2>2, <2>8, <2>9
<1>4. st[0] = Push(b, NewTable) /\ st[n] = Push(b, LuaTab(ArgElements(bucket, n)))
  <2>1. ArgElements(bucket, 0) = [k \in {} |-> LuaNil]
    <3>1. {LuaInt(i) : i \in 1..0} = {}
      OBVIOUS
    <3> QED BY <3>1 DEF ArgElements
  <2>2. 0 \in 0..n /\ n \in 0..n
    OBVIOUS
  <2> QED BY <2>1, <2>2 DEF NewTable
<1> HIDE DEF st
<1>5. Leads(FlattenSeq(parts), st[0], st[n])
  BY <1>2, <1>3, LeadsAll
<1> QED BY <1>1, <1>2, <1>4, <1>5

LEMMA EntryLeads ==
  ASSUME NEW f, NEW key \in Seq(Byte), IsUint32(Len(key)), NEW bucket, Fitting(bucket)
  PROVE  /\ Entry(key, bucket) \in Seq(TableOps)
         /\ Len(bucket) > 0 => Len(Entry(key, bucket)) <= 5 * Len(bucket)
         /\ Leads(Entry(key, bucket), Push(<<>>, LuaTab(f)),
                  Push(<<>>, LuaTab(With(f, LuaStr(key), EntryValue(bucket)))))
<1>1. PICK n \in Nat : n = Len(bucket)
  BY DEF Fitting
<1>2. PICK o, p, q, u : /\ o = <<"string", key>> /\ p = <<"set">> /\ q = <<"tableSized", n, 0>>
                        /\ u = Push(<<>>, LuaTab(f))
  OBVIOUS
<1>3. o \in TableOps /\ p \in TableOps /\ q \in TableOps
  <2>1. 0 \in Int /\ n \in Int
    OBVIOUS
  <2> QED BY <1>2, <2>1, OpTypes
<1>4. PICK v : v = Push(u, LuaStr(key)) /\ v = Perform(u, o)
  BY <1>2, Pushing
<1>5. <<>> \in Seq({LuaTab(f)}) /\ u \in Seq({LuaTab(f), LuaStr(key)}) /\ v \in Seq({LuaTab(f), LuaStr(key)})
  BY <1>2, <1>4 DEF Push
<1>6. ASSUME NEW val, val # LuaNil
      PROVE  Perform(Push(v, val), p) = Push(<<>>, LuaTab(With(f, LuaStr(key), val)))
  <2>1. Perform(Push(v, val), p) = SetsTop(Push(v, val))
    BY <1>2, Pushing
  <2>2. SetsTop(Push(Push(Push(<<>>, LuaTab(f)), LuaStr(key)), val))
          = Push(<<>>, LuaTab(With(f, LuaStr(key), val)))
    <3>1. PICK b, k, S : b = <<>> /\ k = LuaStr(key) /\ S = {LuaTab(f)} /\ b \in Seq(S)
      BY <1>5
    <3>2. SetsTop(Push(Push(Push(b, LuaTab(f)), k), val)) = Push(b, LuaTab(With(f, k, val)))
      <4>1. b \in Seq(S) /\ val # LuaNil
        BY <1>6, <3>1
      <4> QED BY <4>1, TopIsSet
    <3> QED BY <3>1, <3>2
  <2> QED BY <1>2, <1>4, <2>1, <2>2
<1>7. CASE n = 1
  <2>1. PICK x, val : x = ArgOp(bucket[1]) /\ val = Worth(bucket[1])
    OBVIOUS
  <2>2. bucket[1] \in Arguments /\ IsUint32(Len(bucket[1].value))
    <3>1. 1 \in 1..Len(bucket) /\ bucket \in Seq(Arguments)
      BY <1>1, <1>7 DEF Fitting
    <3>2. IsUint32(Len(bucket[1].value))
      BY <3>1 DEF Fitting
    <3> QED BY <3>1, <3>2
  <2>3. x \in TableOps /\ Perform(v, x) = Push(v, val) /\ val # LuaNil
    BY <2>1, <2>2, ArgOpType, WorthIsPushed
  <2>4. Entry(key, bucket) = <<o, x, p>>
    BY <1>1, <1>2, <1>7, <2>1 DEF Entry
  <2>5. EntryValue(bucket) = val
    BY <1>1, <1>7, <2>1 DEF EntryValue
  <2>6. PICK w, y : w = Push(v, val) /\ y = Push(<<>>, LuaTab(With(f, LuaStr(key), val)))
    OBVIOUS
  <2>7. v = Perform(u, o) /\ w = Perform(v, x) /\ y = Perform(w, p)
    BY <1>4, <1>6, <2>3, <2>6
  <2>8. Leads(<<o, x, p>>, u, y)
    BY <2>7, LeadsThree
  <2>9. <<o, x, p>> \in Seq(TableOps) /\ Len(<<o, x, p>>) = 3
    BY <1>3, <2>3
  <2> QED BY <1>1, <1>2, <1>7, <2>4, <2>5, <2>6, <2>8, <2>9
<1>8. CASE n # 1
  <2>1. PICK X, Y, Z : X = <<o, q>> /\ Y = FlattenSeq(ElementOps(bucket)) /\ Z = <<p>>
    OBVIOUS
  <2>2. Entry(key, bucket) = X \o Y \o Z
    BY <1>1, <1>2, <1>8, <2>1 DEF Entry, ElementOps
  <2>3. X \in Seq(TableOps) /\ Len(X) = 2 /\ Z \in Seq(TableOps) /\ Len(Z) = 1
    BY <1>3, <2>1
  <2>4. Y \in Seq(TableOps) /\ Len(Y) <= 2 * n
    BY <1>1, <2>1, ElementOpsType
  <2>5. PICK val, w, x, y : /\ val = LuaTab(ArgElements(bucket, n))
                            /\ w = Push(v, NewTable) /\ x = Push(v, val)
                            /\ y = Push(<<>>, LuaTab(With(f, LuaStr(key), val)))
    OBVIOUS
  <2>6. Leads(X, u, w)
    <3>1. w = Perform(v, q)
      BY <1>2, <2>5, Pushing
    <3>2. Leads(<<o, q>>, u, w)
      BY <1>4, <3>1, LeadsTwo
    <3> QED BY <2>1, <3>2
  <2>7. Leads(Y, w, x)
    BY <1>1, <1>5, <2>1, <2>5, ElementsLead
  <2>8. Leads(Z, x, y)
    <3>1. val # LuaNil
      BY <2>5 DEF LuaTab, LuaNil
    <3>2. y = Perform(x, p)
      BY <1>6, <2>5, <3>1
    <3> QED BY <2>1, <3>2, LeadsOne
  <2>9. PICK XY : XY = X \o Y
    OBVIOUS
  <2>10. XY \in Seq(TableOps) /\ Len(XY) = 2 + Len(Y) /\ Len(Y) \in Nat
    <3>1. X \o Y \in Seq(TableOps) /\ Joined(X \o Y, X, Y)
      BY <2>3, <2>4, Joins
    <3>2. Len(X \o Y) = Len(X) + Len(Y) /\ Len(Y) \in Nat
      BY <2>4, <3>1 DEF Joined
    <3> QED BY <2>3, <2>9, <3>1, <3>2
  <2>11. Leads(XY, u, x)
    BY <2>3, <2>4, <2>6, <2>7, <2>9, LeadsOn
  <2>12. Leads(XY \o Z, u, y)
    BY <2>3, <2>8, <2>10, <2>11, LeadsOn
  <2>13. XY \o Z \in Seq(TableOps) /\ Len(XY \o Z) = Len(XY) + 1
    <3>1. XY \o Z \in Seq(TableOps) /\ Joined(XY \o Z, XY, Z)
      BY <2>3, <2>10, Joins
    <3>2. Len(XY \o Z) = Len(XY) + Len(Z)
      BY <3>1 DEF Joined
    <3> QED BY <2>3, <3>1, <3>2
  <2>14. n > 0 => Len(XY \o Z) <= 5 * n
    BY <2>4, <2>10, <2>13
  <2>15. EntryValue(bucket) = val
    BY <1>1, <1>8, <2>5 DEF EntryValue, ArgElements
  <2>16. Entry(key, bucket) = XY \o Z
    BY <2>2, <2>9
  <2> QED BY <1>1, <1>2, <2>5, <2>12, <2>13, <2>14, <2>15, <2>16
<1> QED BY <1>7, <1>8

-----------------------------------------------------------------------------
(* The table of the arguments.                                             *)

LEMMA FewerFitInt ==
  ASSUME NEW N \in Nat, IsInt32(N), NEW n \in Nat, n <= N
  PROVE  IsInt32(n) /\ IsUint32(n)
<1>1. Above24(N) \in -128..127
  BY DEF IsInt32
<1>2. \A x \in Nat, y \in Nat : x <= y => x \div 256 <= y \div 256 /\ x \div 256 \in Nat
  OBVIOUS
<1>3. Above24(n) \in Nat /\ Above24(N) \in Nat /\ Above24(n) <= Above24(N)
  BY <1>2 DEF Above24
<1>4. Above24(n) \in -128..127 /\ Above24(n) < 256
  BY <1>1, <1>3
<1> QED BY <1>4 DEF IsInt32, IsUint32

\* arguments of a query string of L bytes
ShortArguments(L) == {a \in Arguments : Len(a.key) <= L /\ Len(a.value) <= L}

LEMMA ArgsShort ==
  ASSUME NEW s \in Seq(Byte), NEW max \in Int, NEW args, args = ParseQueryString(s, max).args
  PROVE  args \in Seq(ShortArguments(Len(s)))
<1>1. args \in Seq(Arguments)
  BY ArgsAdmitted
<1>2. PICK n \in Nat : n = Len(args)
  BY <1>1
<1>3. ASSUME NEW i \in 1..n PROVE args[i] \in ShortArguments(Len(s))
  <2>1. PICK p \in Admitted(s, max) : i = Nth(s, p)
    BY <1>2, ArgsAdmitted
  <2>2. args[i] = Cut(PartText(s, p))
    BY <2>1, ArgsAdmitted
  <2>3. p \in Parts(s)
    BY DEF Admitted
  <2>4. PICK part : part = PartText(s, p) /\ part \in Seq(Byte) /\ Len(part) <= Len(s)
    BY <2>3, PartArgument
  <2>5. Cut(part) \in Arguments /\ Len(Cut(part).key) <= Len(part) /\ Len(Cut(part).value) <= Len(part)
    BY <2>4, CutType
  <2>6. PICK arg : arg = Cut(part)
    OBVIOUS
  <2>7. arg.key \in Seq(Byte) /\ arg.value \in Seq(Byte)
    BY <2>5, <2>6 DEF Arguments
  <2>8. Len(arg.key) <= Len(s) /\ Len(arg.value) <= Len(s)
    <3>1. Len(arg.key) \in Nat /\ Len(arg.value) \in Nat /\ Len(part) \in Nat /\ Len(s) \in Nat
      BY <2>4, <2>7
    <3> QED BY <2>4, <2>5, <2>6, <3>1
  <2> QED BY <2>2, <2>4, <2>5, <2>6, <2>8 DEF ShortArguments
<1> QED BY <1>1, <1>2, <1>3

\* the arguments of the first n keys
Held(args, order, n) == {i \in 1..Len(args) : \E j \in 1..n : args[i].key = order[j]}

LEMMA HeldGrows ==
  ASSUME NEW args, Len(args) \in Nat, NEW order, NEW M \in Nat,
         \A i, j \in 1..M : i # j => order[i] # order[j], NEW n \in 0..M
  PROVE  /\ Cardinality(Held(args, order, n)) \in Nat /\ Cardinality(Held(args, order, n)) <= Len(args)
         /\ n = 0 => Cardinality(Held(args, order, n)) = 0
         /\ n > 0 => Cardinality(Held(args, order, n)) =
              Cardinality(Held(args, order, n - 1)) + Cardinality(Matching(args, order[n], Len(args)))
<1> DEFINE H(m) == Held(args, order, m)
<1>1. PICK N \in Nat : N = Len(args)
  OBVIOUS
<1>2. \A m : IsFiniteSet(H(m)) /\ Cardinality(H(m)) \in Nat /\ Cardinality(H(m)) <= N
  <2> SUFFICES ASSUME NEW m PROVE IsFiniteSet(H(m)) /\ Cardinality(H(m)) \in Nat /\ Cardinality(H(m)) <= N
    OBVIOUS
  <2>1. IsFiniteSet(1..N) /\ Cardinality(1..N) = N
    BY FS_Interval
  <2>2. H(m) \in SUBSET (1..N)
    BY <1>1 DEF Held
  <2> HIDE DEF H
  <2> QED BY <2>1, <2>2, FS_Subset, FS_CardinalityType
<1>3. n = 0 => Cardinality(H(n)) = 0
  <2>1. n = 0 => H(n) = {}
    BY DEF Held
  <2> HIDE DEF H
  <2> QED BY <2>1, FS_EmptySet
<1>4. ASSUME n > 0
      PROVE  Cardinality(H(n)) = Cardinality(H(n - 1)) + Cardinality(Matching(args, order[n], N))
  <2>1. PICK A, B : A = H(n - 1) /\ B = Matching(args, order[n], N)
    OBVIOUS
  <2>2. IsFiniteSet(A) /\ Cardinality(A) \in Nat
    <3> HIDE DEF H
    <3> QED BY <1>2, <2>1
  <2>3. IsFiniteSet(B) /\ Cardinality(B) \in Nat
    BY <2>1, MatchingGrows
  <2>4. H(n) = A \cup B
    <3>1. \A j \in 1..n : j \in 1..n - 1 \/ j = n
      OBVIOUS
    <3>2. n \in 1..n /\ \A j \in 1..n - 1 : j \in 1..n
      BY <1>4
    <3> QED BY <1>1, <2>1, <3>1, <3>2 DEF Held, Matching
  <2>5. A \cap B = {}
    <3>1. \A j \in 1..n - 1 : order[j] # order[n]
      BY <1>4
    <3> QED BY <1>1, <2>1, <3>1 DEF Held, Matching
  <2>6. Cardinality(A \cup B) = Cardinality(A) + Cardinality(B)
    <3>1. Cardinality(A \cup B) = Cardinality(A) + Cardinality(B) - Cardinality(A \cap B)
      BY <2>2, <2>3, FS_Union
    <3>2. Cardinality(A \cap B) = 0
      BY <2>5, FS_EmptySet
    <3> QED BY <2>2, <2>3, <3>1, <3>2
  <2> HIDE DEF H
  <2> QED BY <2>1, <2>4, <2>6
<1> QED BY <1>1, <1>2, <1>3, <1>4

LEMMA KeysFinite ==
  ASSUME NEW args, Len(args) \in Nat, DOMAIN args = 1..Len(args)
  PROVE  IsFiniteSet(Keys(args)) /\ Cardinality(Keys(args)) \in Nat
<1> DEFINE R == {args[i].key : i \in 1..Len(args)}
           f == [i \in 1..Len(args) |-> args[i].key]
<1>1. f \in Surjection(1..Len(args), R)
  BY DEF Surjection
<1>2. IsFiniteSet(1..Len(args))
  BY FS_Interval
<1>3. IsFiniteSet(R)
  <2> HIDE DEF f, R
  <2> QED BY <1>1, <1>2, FS_Surjection
<1>4. Keys(args) \in SUBSET R
  BY DEF Keys
<1> HIDE DEF R
<1>5. IsFiniteSet(Keys(args))
  BY <1>3, <1>4, FS_Subset
<1> QED BY <1>5, FS_CardinalityType

LEMMA BucketFits ==
  ASSUME NEW s \in Seq(Byte), IsInt32(5 * Len(s) + 1),
         NEW max \in Int, NEW args, args = ParseQueryString(s, max).args, NEW key \in Keys(args)
  PROVE  /\ key \in Seq(Byte) /\ IsUint32(Len(key))
         /\ Fitting(Bucket(args, key)) /\ Len(Bucket(args, key)) > 0
         /\ Len(Bucket(args, key)) = Cardinality(Matching(args, key, Len(args)))
<1>1. PICK L \in Nat : L = Len(s)
  OBVIOUS
<1>2. PICK A : A = ShortArguments(L)
  OBVIOUS
<1>3. args \in Seq(A)
  BY <1>1, <1>2, ArgsShort
<1>4. PICK N \in Nat : N = Len(args) /\ N <= L
  BY <1>1, <1>3, ArgsAdmitted
<1>5. ASSUME NEW n \in Nat, n <= L PROVE IsInt32(n) /\ IsUint32(n)
  <2>1. PICK m \in Nat : m = 5 * L + 1
    OBVIOUS
  <2>2. n <= m /\ IsInt32(m)
    BY <1>1, <1>5, <2>1
  <2> QED BY <2>2, FewerFitInt
<1>6. \A a \in A : /\ a \in Arguments /\ a.key \in Seq(Byte) /\ IsUint32(Len(a.key)) /\ IsUint32(Len(a.value))
  <2> SUFFICES ASSUME NEW a \in A
               PROVE  /\ a \in Arguments /\ a.key \in Seq(Byte)
                      /\ IsUint32(Len(a.key)) /\ IsUint32(Len(a.value))
    OBVIOUS
  <2>1. a \in Arguments /\ Len(a.key) <= L /\ Len(a.value) <= L
    BY <1>2 DEF ShortArguments
  <2>2. a.key \in Seq(Byte) /\ a.value \in Seq(Byte)
    BY <2>1 DEF Arguments
  <2>3. Len(a.key) \in Nat /\ Len(a.value) \in Nat
    BY <2>2
  <2> QED BY <1>5, <2>1, <2>2, <2>3
<1>7. PICK i \in 1..N : args[i].key = key
  <2>1. DOMAIN args = 1..N
    BY <1>3, <1>4
  <2> QED BY <2>1 DEF Keys
<1>8. args[i] \in A
  BY <1>3, <1>4
<1>9. key \in Seq(Byte) /\ IsUint32(Len(key))
  BY <1>6, <1>7, <1>8
<1>10. PICK bucket : bucket = Bucket(args, key)
  OBVIOUS
<1>11. Gathered(bucket, args, key, N, A)
  BY <1>3, <1>4, <1>10, BucketIs
<1>12. PICK B \in Nat : B = Len(bucket) /\ bucket \in Seq(A) /\ B = Cardinality(Matching(args, key, N))
  BY <1>11 DEF Gathered
<1>13. B <= N
  BY <1>12, MatchingGrows
<1>14. B > 0
  <2>1. Cardinality(Matching(args, key, i)) \in 1..Len(bucket)
    BY <1>7, <1>11 DEF Gathered
  <2> QED BY <1>12, <2>1
<1>15. Fitting(bucket)
  <2>0. bucket \in Seq(A) /\ B = Len(bucket)
    BY <1>12
  <2>1. \A j \in 1..B : bucket[j] \in A
    BY <2>0
  <2>2. \A j \in 1..B : IsUint32(Len(bucket[j].value))
    BY <1>6, <2>1
  <2>3. \A j \in 1..B : IsInt32(j)
    <3>1. \A j \in 1..B : j \in Nat /\ j <= L
      BY <1>4, <1>13
    <3> QED BY <1>5, <3>1
  <2>4. bucket \in Seq(Arguments)
    <3>1. A \subseteq Arguments
      BY <1>6
    <3>2. \A j \in 1..B : bucket[j] \in Arguments
      BY <2>1, <3>1
    <3> QED BY <2>0, <3>2
  <2> QED BY <1>12, <2>2, <2>3, <2>4 DEF Fitting
<1> QED BY <1>4, <1>9, <1>10, <1>12, <1>14, <1>15

\* what is in the table of the arguments after the first n keys
Filled(args, order, n) ==
  [x \in {LuaStr(order[j]) : j \in 1..n} |-> EntryValue(Bucket(args, x[2]))]

LEMMA FilledGrows ==
  ASSUME NEW args, NEW order, NEW n \in Nat, n > 0
  PROVE  With(Filled(args, order, n - 1), LuaStr(order[n]), EntryValue(Bucket(args, order[n])))
           = Filled(args, order, n)
<1> DEFINE A == {LuaStr(order[j]) : j \in 1..n - 1}
           B == {LuaStr(order[j]) : j \in 1..n}
           V(x) == EntryValue(Bucket(args, x[2]))
<1>1. B = A \cup {LuaStr(order[n])}
  <2>1. \A j : j \in 1..n <=> j \in 1..n - 1 \/ j = n
    OBVIOUS
  <2> QED BY <2>1
<1>2. LuaStr(order[n]) \in B /\ LuaStr(order[n])[2] = order[n]
  BY DEF LuaStr
<1>3. PICK key, v : key = LuaStr(order[n]) /\ v = EntryValue(Bucket(args, order[n])) /\ v = V(key)
  BY <1>2
<1>4. Filled(args, order, n - 1) = [x \in A |-> V(x)] /\ Filled(args, order, n) = [x \in B |-> V(x)]
  BY DEF Filled
<1> HIDE DEF A, B, V
<1>5. With([x \in A |-> V(x)], key, v) = [x \in B |-> V(x)]
  BY <1>1, <1>3 DEF With
<1> QED BY <1>3, <1>4, <1>5

\* A sequence of all members of a set has each of them once.
LEMMA OrderIs ==
  ASSUME NEW S, IsFiniteSet(S), NEW order \in Orders(S)
  PROVE  /\ Len(order) \in Nat /\ DOMAIN order = 1..Len(order)
         /\ \A i, j \in 1..Len(order) : i # j => order[i] # order[j]
         /\ \A j \in 1..Len(order) : order[j] \in S
         /\ S = {order[j] : j \in 1..Len(order)}
<1> DEFINE N == Cardinality(S)
<1>1. N \in Nat
  BY FS_CardinalityType
<1>2. order \in [1..N -> S] /\ \A i, j \in 1..N : i # j => order[i] # order[j]
  BY DEF Orders, SetToSeqs
<1> HIDE DEF N
<1>3. Len(order) = N /\ DOMAIN order = 1..N
  BY <1>1, <1>2
<1>4. order \in Injection(1..N, S)
  BY <1>2 DEF Injection, IsInjective
<1>5. Cardinality(1..N) = N
  BY <1>1, FS_Interval
<1>6. order \in Surjection(1..N, S)
  BY <1>1, <1>4, <1>5, FS_Injection DEF N
<1>7. S = {order[j] : j \in 1..N}
  BY <1>2, <1>6 DEF Surjection
<1> QED BY <1>1, <1>2, <1>3, <1>7

\* A short batch that leads to one value leaves it.
LEMMA LedLeaves ==
  ASSUME NEW ops \in Seq(TableOps), IsUint32(Len(ops)), NEW v, Leads(ops, <<>>, Push(<<>>, v))
  PROVE  Leaves(Pushed(ops), v)
<1>1. \A n \in 1..Len(ops) : IsOperation(ops[n])
  <2>1. \A n \in 1..Len(ops) : ops[n] \in TableOps
    OBVIOUS
  <2>2. \A op \in TableOps : IsOperation(op)
    BY DEF TableOps
  <2> QED BY <2>1, <2>2
<1>2. Pushed(ops) = Reached(Len(EncodeAll(ops).buf), Performed(ops))
  BY <1>1, BatchRuns
<1>3. Performed(ops) = Push(<<>>, v)
  BY LeadsPerformed
<1>4. Push(<<>>, v) = <<v>>
  BY DEF Push
<1> QED BY <1>2, <1>3, <1>4 DEF Leaves, Reached

LEMMA ArgsPushed ==
  ASSUME NEW s \in Seq(Byte), IsInt32(5 * Len(s) + 1),
         NEW max \in Int, NEW args, args = ParseQueryString(s, max).args,
         NEW order \in Orders(Keys(args))
  PROVE  Leaves(Pushed(QueryArgsOps(args, order)), ArgsTable(s, max))
<1>1. PICK L \in Nat : L = Len(s)
  OBVIOUS
<1>2. PICK N \in Nat : N = Len(args) /\ N <= L /\ DOMAIN args = 1..N
  <2>1. args \in Seq(Arguments) /\ Len(args) <= Len(s)
    BY ArgsAdmitted
  <2>2. Len(args) \in Nat /\ DOMAIN args = 1..Len(args)
    BY <2>1
  <2> QED BY <1>1, <2>1, <2>2
<1>3. IsFiniteSet(Keys(args))
  BY <1>2, KeysFinite
<1>4. PICK M \in Nat : M = Len(order)
  BY <1>3, OrderIs
<1>5. /\ DOMAIN order = 1..M
      /\ \A i, j \in 1..M : i # j => order[i] # order[j]
      /\ \A j \in 1..M : order[j] \in Keys(args)
      /\ Keys(args) = {order[j] : j \in 1..M}
  BY <1>3, <1>4, OrderIs
<1> DEFINE parts == [k \in 1..M |-> Entry(order[k], Bucket(args, order[k]))]
           st == [k \in 0..M |-> Push(<<>>, LuaTab(Filled(args, order, k)))]
           w == [k \in 0..M |-> 5 * Cardinality(Held(args, order, k))]
<1>6. ASSUME NEW k \in 1..M
      PROVE  /\ parts[k] \in Seq(TableOps)
             /\ Len(parts[k]) <= 5 * Cardinality(Matching(args, order[k], N))
             /\ Leads(parts[k], st[k - 1], st[k])
  <2>1. PICK key, bucket : key = order[k] /\ bucket = Bucket(args, key) /\ key \in Keys(args)
    BY <1>5
  <2>2. /\ key \in Seq(Byte) /\ IsUint32(Len(key)) /\ Fitting(bucket) /\ Len(bucket) > 0
        /\ Len(bucket) = Cardinality(Matching(args, key, N))
    BY <1>2, <2>1, BucketFits
  <2>3. PICK f : f = Filled(args, order, k - 1)
    OBVIOUS
  <2>4. /\ Entry(key, bucket) \in Seq(TableOps) /\ Len(Entry(key, bucket)) <= 5 * Len(bucket)
        /\ Leads(Entry(key, bucket), Push(<<>>, LuaTab(f)),
                 Push(<<>>, LuaTab(With(f, LuaStr(key), EntryValue(bucket)))))
    BY <2>2, EntryLeads
  <2>5. With(f, LuaStr(key), EntryValue(bucket)) = Filled(args, order, k)
    <3>1. k \in Nat /\ k > 0
      OBVIOUS
    <3> QED BY <2>1, <2>3, <3>1, FilledGrows
  <2>6. st[k - 1] = Push(<<>>, LuaTab(f)) /\ st[k] = Push(<<>>, LuaTab(Filled(args, order, k)))
    <3>1. k - 1 \in 0..M /\ k \in 0..M
      OBVIOUS
    <3> QED BY <2>3, <3>1
  <2>7. parts[k] = Entry(key, bucket)
    BY <2>1
  <2> HIDE DEF parts, st
  <2> QED BY <2>1, <2>2, <2>4, <2>5, <2>6, <2>7
<1>7. parts \in Seq(Seq(TableOps)) /\ Len(parts) = M
  <2>1. parts = [k \in 1..M |-> parts[k]]
    OBVIOUS
  <2> HIDE DEF parts, st
  <2>2. parts \in [1..M -> Seq(TableOps)]
    BY <1>6, <2>1
  <2> QED BY <2>2
<1>8. w \in [0..M -> Nat] /\ w[M] <= 5 * N
  <2>1. \A k \in 0..M : Cardinality(Held(args, order, k)) \in Nat /\ Cardinality(Held(args, order, k)) <= N
    BY <1>2, <1>5, HeldGrows
  <2>2. M \in 0..M
    OBVIOUS
  <2>3. w[M] = 5 * Cardinality(Held(args, order, M))
    BY <2>2
  <2>4. w[M] <= 5 * N
    BY <2>1, <2>2, <2>3
  <2> QED BY <2>1, <2>4
<1>9. \A k \in 1..M : w[k - 1] + Len(parts[k]) <= w[k]
  <2> SUFFICES ASSUME NEW k \in 1..M PROVE w[k - 1] + Len(parts[k]) <= w[k]
    OBVIOUS
  <2>1. k \in 0..M /\ k - 1 \in 0..M /\ k > 0
    OBVIOUS
  <2>2. PICK h \in Nat, m \in Nat : /\ h = Cardinality(Held(args, order, k - 1))
                                   /\ m = Cardinality(Matching(args, order[k], N))
    <3>1. Cardinality(Held(args, order, k - 1)) \in Nat
      BY <1>2, <1>5, <2>1, HeldGrows
    <3>2. Cardinality(Matching(args, order[k], N)) \in Nat
      BY MatchingGrows
    <3> QED BY <3>1, <3>2
  <2>3. Cardinality(Held(args, order, k)) = h + m
    BY <1>2, <1>5, <2>1, <2>2, HeldGrows
  <2>4. w[k - 1] = 5 * h /\ w[k] = 5 * (h + m)
    BY <2>1, <2>2, <2>3
  <2>5. Len(parts[k]) <= 5 * m
    BY <1>6, <2>2
  <2>6. parts[k] \in Seq(TableOps)
    BY <1>6
  <2>7. Len(parts[k]) \in Nat
    BY <2>6
  <2> HIDE DEF w, parts
  <2>8. PICK n \in Nat : n = Len(parts[k])
    BY <2>7
  <2>9. 5 * h + n <= 5 * (h + m)
    <3>1. h \in Nat /\ m \in Nat /\ n \in Nat
      BY <2>2, <2>8
    <3>2. n <= 5 * m
      BY <2>5, <2>8
    <3> QED BY <3>1, <3>2
  <2> QED BY <2>4, <2>8, <2>9
<1>10. st[0] = Push(<<>>, NewTable) /\ st[M] = Push(<<>>, ArgsTable(s, max))
  <2>1. 0 \in 0..M /\ M \in 0..M
    OBVIOUS
  <2>2. Filled(args, order, 0) = [k \in {} |-> LuaNil]
    <3>1. {LuaStr(order[j]) : j \in 1..0} = {}
      OBVIOUS
    <3> QED BY <3>1 DEF Filled
  <2>3. {LuaStr(order[j]) : j \in 1..M} = {LuaStr(key) : key \in Keys(args)}
    BY <1>5
  <2>4. ArgsTable(s, max) = LuaTab(Filled(args, order, M))
    BY <2>3, ArgsTableIs DEF Filled
  <2>5. st[0] = Push(<<>>, LuaTab(Filled(args, order, 0)))
    BY <2>1
  <2>6. st[M] = Push(<<>>, LuaTab(Filled(args, order, M)))
    BY <2>1
  <2> HIDE DEF st
  <2> QED BY <2>2, <2>4, <2>5, <2>6 DEF NewTable
<1>11. PICK X, Y, ops : /\ X = << <<"tableSized", 0, M>> >> /\ Y = FlattenSeq(parts)
                        /\ ops = X \o Y
  OBVIOUS
<1>12. QueryArgsOps(args, order) = ops
  BY <1>4, <1>5, <1>11 DEF QueryArgsOps
<1> HIDE DEF parts, st, w
<1>13. Y \in Seq(TableOps) /\ Len(Y) <= w[M]
  BY <1>7, <1>8, <1>9, <1>11, FlattenLength
<1>14. Leads(Y, st[0], st[M])
  BY <1>6, <1>7, <1>11, LeadsAll
<1>15. X \in Seq(TableOps) /\ Len(X) = 1
  <2>1. <<"tableSized", 0, M>> \in TableOps
    <3>1. 0 \in Int /\ M \in Int
      OBVIOUS
    <3> QED BY <3>1, OpTypes
  <2> QED BY <1>11, <2>1
<1>16. Leads(X, <<>>, st[0])
  <2>1. PICK op, u, v : op = <<"tableSized", 0, M>> /\ u = <<>> /\ v = Push(u, NewTable)
    OBVIOUS
  <2>2. v = Perform(u, op)
    BY <2>1, Pushing
  <2>3. Leads(<<op>>, u, v)
    BY <2>2, LeadsOne
  <2> QED BY <1>10, <1>11, <2>1, <2>3
<1>17. Leads(ops, <<>>, st[M])
  BY <1>11, <1>13, <1>14, <1>15, <1>16, LeadsOn
<1>18. ops \in Seq(TableOps) /\ Len(ops) = 1 + Len(Y) /\ Len(Y) \in Nat
  <2>1. X \o Y \in Seq(TableOps) /\ Joined(X \o Y, X, Y)
    BY <1>13, <1>15, Joins
  <2>2. Len(X \o Y) = Len(X) + Len(Y) /\ Len(Y) \in Nat
    BY <1>13, <2>1 DEF Joined
  <2> QED BY <1>11, <1>15, <2>1, <2>2
<1>19. IsUint32(Len(ops))
  <2>1. PICK m \in Nat : m = 5 * L + 1
    OBVIOUS
  <2>2. w[M] \in Nat
    <3>1. M \in 0..M
      OBVIOUS
    <3> QED BY <1>8, <3>1
  <2>3. Len(ops) \in Nat /\ Len(ops) <= m
    BY <1>2, <1>8, <1>13, <1>18, <2>1, <2>2
  <2>4. IsInt32(m)
    BY <1>1, <2>1
  <2> QED BY <2>3, <2>4, FewerFitInt
<1> QED BY <1>10, <1>12, <1>17, <1>18, <1>19, LedLeaves

-----------------------------------------------------------------------------
(* The table of a captured response.                                       *)

HasValue(headers, name) == headers[name] # <<>>

\* the operations on one header
HeaderOps(headers, name) ==
  IF HasValue(headers, name)
  THEN << <<"string", name>>, <<"string", headers[name][1]>>, <<"set">> >> ELSE <<>>

\* what is in the table of the headers after the first n of them
HeadersSet(headers, order, n) ==
  [x \in {LuaStr(h) : h \in {order[j] : j \in {i \in 1..n : HasValue(headers, order[i])}}}
     |-> LuaStr(headers[x[2]][1])]

LEMMA HeadersGrow ==
  ASSUME NEW headers, NEW order, NEW n \in Nat, n > 0, NEW name, name = order[n]
  PROVE  HeadersSet(headers, order, n) =
           IF HasValue(headers, name)
           THEN With(HeadersSet(headers, order, n - 1), LuaStr(name), LuaStr(headers[name][1]))
           ELSE HeadersSet(headers, order, n - 1)
<1> DEFINE Has(m) == {order[j] : j \in {i \in 1..m : HasValue(headers, order[i])}}
           At1(m) == {LuaStr(h) : h \in Has(m)}
           V(x) == LuaStr(headers[x[2]][1])
<1>1. Has(n) = IF HasValue(headers, name) THEN Has(n - 1) \cup {name} ELSE Has(n - 1)
  <2>1. \A j : j \in 1..n <=> j \in 1..n - 1 \/ j = n
    OBVIOUS
  <2> QED BY <2>1
<1> HIDE DEF Has
<1>2. PICK key, v : key = LuaStr(name) /\ v = LuaStr(headers[name][1]) /\ v = V(key)
  <2>1. LuaStr(name)[2] = name
    BY DEF LuaStr
  <2> QED BY <2>1
<1>3. At1(n) = IF HasValue(headers, name) THEN At1(n - 1) \cup {key} ELSE At1(n - 1)
  BY <1>1, <1>2
<1>4. HeadersSet(headers, order, n - 1) = [x \in At1(n - 1) |-> V(x)]
      /\ HeadersSet(headers, order, n) = [x \in At1(n) |-> V(x)]
  BY DEF HeadersSet, Has
<1> HIDE DEF At1, V
<1>5. CASE HasValue(headers, name)
  <2>1. With([x \in At1(n - 1) |-> V(x)], key, v) = [x \in At1(n) |-> V(x)]
    BY <1>2, <1>3, <1>5 DEF With
  <2> QED BY <1>2, <1>4, <1>5, <2>1
<1>6. CASE ~HasValue(headers, name)
  BY <1>3, <1>4, <1>6
<1> QED BY <1>5, <1>6

LEMMA HeaderLeads ==
  ASSUME NEW headers, NEW name \in Seq(Byte), IsUint32(Len(name)), headers[name] \in Seq(Seq(Byte)),
         \A i \in DOMAIN headers[name] : IsUint32(Len(headers[name][i])),
         NEW S, NEW b \in Seq(S), NEW f
  PROVE  /\ HeaderOps(headers, name) \in Seq(TableOps) /\ Len(HeaderOps(headers, name)) <= 3
         /\ Leads(HeaderOps(headers, name), Push(b, LuaTab(f)),
                  Push(b, LuaTab(IF HasValue(headers, name)
                                 THEN With(f, LuaStr(name), LuaStr(headers[name][1])) ELSE f)))
<1>1. CASE HasValue(headers, name)
  <2>1. PICK o, p, q, v, k, t : /\ v = headers[name][1] /\ k = LuaStr(name) /\ t = LuaStr(v)
                                /\ o = <<"string", name>> /\ p = <<"string", v>> /\ q = <<"set">>
    OBVIOUS
  <2>2. v \in Seq(Byte) /\ IsUint32(Len(v))
    <3>1. 1 \in DOMAIN headers[name]
      BY <1>1 DEF HasValue
    <3> QED BY <2>1, <3>1
  <2>3. o \in TableOps /\ p \in TableOps /\ q \in TableOps
    BY <2>1, <2>2, OpTypes
  <2>4. HeaderOps(headers, name) = <<o, p, q>>
    BY <1>1, <2>1 DEF HeaderOps
  <2>5. PICK u, x, y, z : /\ u = Push(b, LuaTab(f)) /\ x = Push(u, k) /\ y = Push(x, t)
                          /\ z = Push(b, LuaTab(With(f, k, t)))
    OBVIOUS
  <2>6. x = Perform(u, o) /\ y = Perform(x, p)
    BY <2>1, <2>5, Pushing
  <2>7. t # LuaNil
    BY <2>1 DEF LuaStr, LuaNil
  <2>8. SetsTop(Push(Push(Push(b, LuaTab(f)), k), t)) = Push(b, LuaTab(With(f, k, t)))
    BY <2>7, TopIsSet
  <2>9. z = Perform(y, q)
    <3>1. Perform(y, q) = SetsTop(y)
      BY <2>1, Pushing
    <3> QED BY <2>5, <2>8, <3>1
  <2>10. Leads(<<o, p, q>>, u, z)
    BY <2>6, <2>9, LeadsThree
  <2>11. <<o, p, q>> \in Seq(TableOps) /\ Len(<<o, p, q>>) = 3
    BY <2>3
  <2> QED BY <1>1, <2>1, <2>4, <2>5, <2>10, <2>11
<1>2. CASE ~HasValue(headers, name)
  BY <1>2, LeadsNowhere DEF HeaderOps
<1> QED BY <1>1, <1>2

LEMMA LeadsSix ==
  ASSUME NEW a, NEW b, NEW c, NEW d, NEW e, NEW g,
         NEW s0, NEW s1, NEW s2, NEW s3, NEW s4, NEW s5, NEW s6,
         s1 = Perform(s0, a), s2 = Perform(s1, b), s3 = Perform(s2, c),
         s4 = Perform(s3, d), s5 = Perform(s4, e), s6 = Perform(s5, g)
  PROVE  Leads(<<a, b, c, d, e, g>>, s0, s6)
<1> DEFINE f == [n \in 0..6 |-> IF n = 0 THEN s0 ELSE IF n = 1 THEN s1 ELSE IF n = 2 THEN s2
                                ELSE IF n = 3 THEN s3 ELSE IF n = 4 THEN s4 ELSE IF n = 5 THEN s5
                                ELSE s6]
<1>1. PICK ops : ops = <<a, b, c, d, e, g>>
  OBVIOUS
<1>2. /\ Len(ops) = 6 /\ ops[1] = a /\ ops[2] = b /\ ops[3] = c
      /\ ops[4] = d /\ ops[5] = e /\ ops[6] = g
  BY <1>1
<1>3. /\ f[0] = s0 /\ f[1] = s1 /\ f[2] = s2 /\ f[3] = s3 /\ f[4] = s4 /\ f[5] = s5 /\ f[6] = s6
      /\ 1..6 = {1, 2, 3, 4, 5, 6}
      /\ 1 - 1 = 0 /\ 2 - 1 = 1 /\ 3 - 1 = 2 /\ 4 - 1 = 3 /\ 5 - 1 = 4 /\ 6 - 1 = 5
  OBVIOUS
<1> HIDE DEF f
<1>4. \A n \in 1..6 : f[n] = Perform(f[n - 1], ops[n])
  BY <1>2, <1>3
<1> QED BY <1>1, <1>2, <1>3, <1>4 DEF Leads

\* Fields of a table that lies alone on the stack.
LEMMA OneField ==
  ASSUME NEW f, NEW v, v # LuaNil, NEW t
  PROVE  Perform(Push(Push(<<>>, LuaTab(f)), v), <<"setFieldInline", t>>)
           = Push(<<>>, LuaTab(With(f, LuaStr(t), v)))
<1> <<>> \in Seq({v})
  OBVIOUS
<1>1. PICK b, k, S : b = <<>> /\ k = LuaStr(t) /\ S = {v} /\ b \in Seq(S)
  OBVIOUS
<1>2. SetsField(Push(Push(b, LuaTab(f)), v), k) = Push(b, LuaTab(With(f, k, v)))
  <2>1. b \in Seq(S)
    BY <1>1
  <2> QED BY <2>1, FieldIsSet
<1>3. Perform(Push(Push(<<>>, LuaTab(f)), v), <<"setFieldInline", t>>)
        = SetsField(Push(Push(<<>>, LuaTab(f)), v), LuaStr(t))
  BY Pushing
<1> QED BY <1>1, <1>2, <1>3

LEMMA CapturePushed ==
  ASSUME NEW r, IsCapture(r), NEW order \in Orders(DOMAIN r.headers)
  PROVE  Leaves(Pushed(CaptureOps(r.status, r.body, r.headers, order)), CaptureTable(r))
<1>1. PICK headers, H : headers = r.headers /\ H = DOMAIN headers
  OBVIOUS
<1>2. IsFiniteSet(H)
  BY <1>1 DEF IsCapture
<1>3. PICK M \in Nat : M = Len(order)
  BY <1>1, <1>2, OrderIs
<1>4. /\ DOMAIN order = 1..M
      /\ \A j \in 1..M : order[j] \in H
      /\ H = {order[j] : j \in 1..M}
  BY <1>1, <1>2, <1>3, OrderIs
<1>5. M = Cardinality(H)
  <2>1. order \in [1..Cardinality(H) -> H] /\ Cardinality(H) \in Nat
    BY <1>1, <1>2, FS_CardinalityType DEF Orders, SetToSeqs
  <2> QED BY <1>3, <2>1
<1> DEFINE parts == [k \in 1..M |-> HeaderOps(headers, order[k])]
           F0 == [k \in {} |-> LuaNil]
           F1 == With(F0, LuaStr(StatusField), LuaInt(r.status))
           F2 == With(F1, LuaStr(BodyField), LuaStr(r.body))
           F3 == With(F2, LuaStr(HeaderField), LuaTab(HeadersSet(headers, order, M)))
           b == Push(<<>>, LuaTab(F2))
           st == [k \in 0..M |-> Push(b, LuaTab(HeadersSet(headers, order, k)))]
           w == [k \in 0..M |-> 3 * k]
<1>6. b \in Seq({LuaTab(F2)})
  <2> HIDE DEF F2
  <2> QED BY DEF Push
<1>7. ASSUME NEW k \in 1..M
      PROVE  parts[k] \in Seq(TableOps) /\ Len(parts[k]) <= 3 /\ Leads(parts[k], st[k - 1], st[k])
  <2>1. PICK name : name = order[k] /\ name \in H
    BY <1>4
  <2>2. /\ name \in Seq(Byte) /\ IsUint32(Len(name)) /\ headers[name] \in Seq(Seq(Byte))
        /\ \A i \in DOMAIN headers[name] : IsUint32(Len(headers[name][i]))
    BY <1>1, <2>1 DEF IsCapture
  <2>3. PICK f, g : /\ f = HeadersSet(headers, order, k - 1)
                    /\ g = IF HasValue(headers, name)
                           THEN With(f, LuaStr(name), LuaStr(headers[name][1])) ELSE f
    OBVIOUS
  <2>4. PICK x, S : x = b /\ S = {LuaTab(F2)} /\ x \in Seq(S)
    BY <1>6
  <2> HIDE DEF b, F2
  <2>5. /\ HeaderOps(headers, name) \in Seq(TableOps) /\ Len(HeaderOps(headers, name)) <= 3
        /\ Leads(HeaderOps(headers, name), Push(x, LuaTab(f)), Push(x, LuaTab(g)))
    <3>1. x \in Seq(S)
      BY <2>4
    <3>2. /\ HeaderOps(headers, name) \in Seq(TableOps) /\ Len(HeaderOps(headers, name)) <= 3
          /\ Leads(HeaderOps(headers, name), Push(x, LuaTab(f)),
                   Push(x, LuaTab(IF HasValue(headers, name)
                                  THEN With(f, LuaStr(name), LuaStr(headers[name][1])) ELSE f)))
      BY <2>2, <3>1, HeaderLeads
    <3> QED BY <2>3, <3>2
  <2>6. g = HeadersSet(headers, order, k)
    <3>1. k \in Nat /\ k > 0
      OBVIOUS
    <3> QED BY <2>1, <2>3, <3>1, HeadersGrow
  <2>7. st[k - 1] = Push(x, LuaTab(f)) /\ st[k] = Push(x, LuaTab(g))
    <3>1. k - 1 \in 0..M /\ k \in 0..M
      OBVIOUS
    <3> QED BY <2>3, <2>4, <2>6, <3>1
  <2>8. parts[k] = HeaderOps(headers, name)
    BY <2>1
  <2> HIDE DEF parts, st
  <2> QED BY <2>5, <2>7, <2>8
<1>8. parts \in Seq(Seq(TableOps)) /\ Len(parts) = M
  <2>1. parts = [k \in 1..M |-> parts[k]]
    OBVIOUS
  <2> HIDE DEF parts, st
  <2>2. parts \in [1..M -> Seq(TableOps)]
    BY <1>7, <2>1
  <2> QED BY <2>2
<1>9. w \in [0..M -> Nat] /\ w[M] = 3 * M
  OBVIOUS
<1>10. \A k \in 1..M : w[k - 1] + Len(parts[k]) <= w[k]
  <2> SUFFICES ASSUME NEW k \in 1..M PROVE w[k - 1] + Len(parts[k]) <= w[k]
    OBVIOUS
  <2>1. k \in 0..M /\ k - 1 \in 0..M
    OBVIOUS
  <2>2. w[k - 1] = 3 * (k - 1) /\ w[k] = 3 * k
    BY <2>1
  <2>3. parts[k] \in Seq(TableOps) /\ Len(parts[k]) <= 3
    BY <1>7
  <2>4. PICK n \in Nat : n = Len(parts[k])
    BY <2>3
  <2> HIDE DEF w, parts
  <2>5. n <= 3
    BY <2>3, <2>4
  <2>6. 3 * (k - 1) + n <= 3 * k
    <3>1. k \in Nat
      OBVIOUS
    <3> HIDE <2>4
    <3> QED BY <2>5, <3>1
  <2>7. w[k - 1] + n <= w[k]
    BY <2>2, <2>6
  <2> QED BY <2>4, <2>7
<1>11. st[0] = Push(b, NewTable) /\ st[M] = Push(b, LuaTab(HeadersSet(headers, order, M)))
  <2>1. 0 \in 0..M /\ M \in 0..M
    OBVIOUS
  <2>2. HeadersSet(headers, order, 0) = F0
    <3>1. {LuaStr(h) : h \in {order[j] : j \in {i \in 1..0 : HasValue(headers, order[i])}}} = {}
      OBVIOUS
    <3> QED BY <3>1 DEF HeadersSet
  <2> HIDE DEF b
  <2> QED BY <2>1, <2>2 DEF NewTable
<1>12. PICK Y : Y = FlattenSeq(parts)
  OBVIOUS
<1> DEFINE o1 == <<"table">>
           o2 == <<"int", r.status>>
           o3 == <<"setFieldInline", StatusField>>
           o4 == <<"string", r.body>>
           o5 == <<"setFieldInline", BodyField>>
           o6 == <<"tableSized", 0, M>>
           o7 == <<"setFieldInline", HeaderField>>
<1>13. PICK X, Z : X = <<o1, o2, o3, o4, o5, o6>> /\ Z = <<o7>>
  OBVIOUS
<1>14. CaptureOps(r.status, r.body, r.headers, order) = X \o Y \o Z
  <2>1. parts = [k \in DOMAIN order |-> IF headers[order[k]] = <<>> THEN <<>>
                   ELSE << <<"string", order[k]>>, <<"string", headers[order[k]][1]>>, <<"set">> >>]
    BY <1>4 DEF HeaderOps, HasValue
  <2> HIDE DEF parts
  <2> QED BY <1>1, <1>3, <1>12, <1>13, <2>1 DEF CaptureOps
<1>15. StatusField \in Seq(Byte) /\ BodyField \in Seq(Byte) /\ HeaderField \in Seq(Byte)
       /\ IsUint32(Len(StatusField)) /\ IsUint32(Len(BodyField)) /\ IsUint32(Len(HeaderField))
  <2>1. Len(StatusField) = 1 /\ Len(BodyField) = 1 /\ Len(HeaderField) = 1
    BY DEF StatusField, BodyField, HeaderField
  <2>2. IsUint32(1)
    BY DEF IsUint32, Above24
  <2>3. StatusField \in Seq(Byte) /\ BodyField \in Seq(Byte) /\ HeaderField \in Seq(Byte)
    BY DEF StatusField, BodyField, HeaderField, Byte
  <2> QED BY <2>1, <2>2, <2>3
<1>16. /\ o1 \in TableOps /\ o2 \in TableOps /\ o3 \in TableOps /\ o4 \in TableOps
       /\ o5 \in TableOps /\ o6 \in TableOps /\ o7 \in TableOps
  <2>1. IsInt64(r.status) /\ r.body \in Seq(Byte) /\ IsUint32(Len(r.body)) /\ 0 \in Int /\ M \in Int
    BY DEF IsCapture
  <2> QED BY <1>15, <2>1, OpTypes
<1>17. X \in Seq(TableOps) /\ Len(X) = 6 /\ Z \in Seq(TableOps) /\ Len(Z) = 1
  <2> HIDE DEF o1, o2, o3, o4, o5, o6, o7
  <2> QED BY <1>13, <1>16
<1> HIDE DEF parts, st, w, F0, F1, F2, F3, b
<1>18. LuaInt(r.status) # LuaNil /\ LuaStr(r.body) # LuaNil
  BY DEF LuaInt, LuaStr, LuaNil
<1>19. Leads(X, <<>>, st[0])
  <2>1. PICK s0, s1, s2, s3, s4, s5, s6 :
          /\ s0 = <<>> /\ s1 = Push(s0, LuaTab(F0)) /\ s2 = Push(s1, LuaInt(r.status))
          /\ s3 = Push(s0, LuaTab(F1)) /\ s4 = Push(s3, LuaStr(r.body))
          /\ s5 = b /\ s6 = Push(b, NewTable)
    OBVIOUS
  <2>2. s1 = Perform(s0, o1)
    BY <2>1, Pushing DEF NewTable, F0
  <2>3. s2 = Perform(s1, o2)
    BY <2>1, Pushing
  <2>4. s3 = Perform(s2, o3)
    BY <1>18, <2>1, OneField DEF F1
  <2>5. s4 = Perform(s3, o4)
    BY <2>1, Pushing
  <2>6. s5 = Perform(s4, o5)
    BY <1>18, <2>1, OneField DEF F2, b
  <2>7. s6 = Perform(s5, o6)
    BY <2>1, Pushing
  <2> HIDE DEF o1, o2, o3, o4, o5, o6
  <2>8. Leads(<<o1, o2, o3, o4, o5, o6>>, s0, s6)
    BY <2>2, <2>3, <2>4, <2>5, <2>6, <2>7, LeadsSix
  <2> QED BY <1>11, <1>13, <2>1, <2>8
<1>20. Leads(Y, st[0], st[M])
  BY <1>7, <1>8, <1>12, LeadsAll
<1>21. Y \in Seq(TableOps) /\ Len(Y) <= w[M]
  BY <1>8, <1>9, <1>10, <1>12, FlattenLength
<1>22. Leads(Z, st[M], Push(<<>>, LuaTab(F3)))
  <2>1. PICK t : t = LuaTab(HeadersSet(headers, order, M)) /\ t # LuaNil
    <3>1. PICK t : t = LuaTab(HeadersSet(headers, order, M))
      OBVIOUS
    <3>2. t # LuaNil
      BY <3>1 DEF LuaTab, LuaNil
    <3> QED BY <3>1, <3>2
  <2>2. Perform(Push(b, t), o7) = Push(<<>>, LuaTab(F3))
    BY <2>1, OneField DEF b, F3
  <2> HIDE DEF o7
  <2> QED BY <1>11, <1>13, <2>1, <2>2, LeadsOne
<1>23. PICK XY, ops : XY = X \o Y /\ ops = XY \o Z
  OBVIOUS
<1>24. XY \in Seq(TableOps) /\ Len(XY) = 6 + Len(Y) /\ Len(Y) \in Nat
  <2>1. X \o Y \in Seq(TableOps) /\ Joined(X \o Y, X, Y)
    BY <1>17, <1>21, Joins
  <2>2. Len(X \o Y) = Len(X) + Len(Y) /\ Len(Y) \in Nat
    BY <1>21, <2>1 DEF Joined
  <2> QED BY <1>17, <1>23, <2>1, <2>2
<1>25. ops \in Seq(TableOps) /\ Len(ops) = Len(XY) + 1
  <2>1. XY \o Z \in Seq(TableOps) /\ Joined(XY \o Z, XY, Z)
    BY <1>17, <1>24, Joins
  <2>2. Len(XY \o Z) = Len(XY) + Len(Z)
    BY <2>1 DEF Joined
  <2> QED BY <1>17, <1>23, <2>1, <2>2
<1>26. Leads(ops, <<>>, Push(<<>>, LuaTab(F3)))
  <2>1. Leads(XY, <<>>, st[M])
    BY <1>17, <1>19, <1>20, <1>21, <1>23, LeadsOn
  <2> QED BY <1>17, <1>22, <1>23, <1>24, <2>1, LeadsOn
<1>27. IsUint32(Len(ops))
  <2>1. PICK m \in Nat : m = 3 * M + 7
    OBVIOUS
  <2>2. Len(ops) \in Nat /\ Len(ops) <= m
    BY <1>9, <1>21, <1>24, <1>25, <2>1
  <2>3. IsInt32(m)
    BY <1>1, <1>5, <2>1 DEF IsCapture
  <2> QED BY <2>2, <2>3, FewerFitInt
<1>28. Leaves(Pushed(ops), LuaTab(F3))
  BY <1>25, <1>26, <1>27, LedLeaves
<1>29. LuaTab(F3) = CaptureTable(r)
  <2> DEFINE D == {LuaStr(StatusField), LuaStr(BodyField), LuaStr(HeaderField)}
             W(k) == CASE k[2] = StatusField -> LuaInt(r.status)
                       [] k[2] = BodyField   -> LuaStr(r.body)
                       [] OTHER -> LuaTab(HeadersSet(headers, order, M))
  <2>1. {order[j] : j \in {i \in 1..M : HasValue(headers, order[i])}}
          = {x \in DOMAIN r.headers : r.headers[x] # <<>>}
    <3>1. \A x : x \in DOMAIN r.headers <=> \E j \in 1..M : x = order[j]
      BY <1>1, <1>4
    <3>2. \A x : HasValue(headers, x) <=> r.headers[x] # <<>>
      BY <1>1 DEF HasValue
    <3> QED BY <3>1, <3>2
  <2>2. HeadersSet(headers, order, M)
          = [h \in {LuaStr(n) : n \in {x \in DOMAIN r.headers : r.headers[x] # <<>>}}
               |-> LuaStr(r.headers[h[2]][1])]
    BY <1>1, <2>1 DEF HeadersSet
  <2>3. CaptureTable(r) = LuaTab([k \in D |-> W(k)])
    BY <2>2 DEF CaptureTable
  <2>4. F3 = [k \in D |-> W(k)]
    <3>1. PICK s1, s2, s3, v1, v2, v3 :
            /\ s1 = LuaStr(StatusField) /\ s2 = LuaStr(BodyField) /\ s3 = LuaStr(HeaderField)
            /\ v1 = LuaInt(r.status) /\ v2 = LuaStr(r.body) /\ v3 = LuaTab(HeadersSet(headers, order, M))
      OBVIOUS
    <3>2. StatusField # BodyField /\ StatusField # HeaderField /\ BodyField # HeaderField
      BY DEF StatusField, BodyField, HeaderField
    <3>3. s1[2] = StatusField /\ s2[2] = BodyField /\ s3[2] = HeaderField
      BY <3>1 DEF LuaStr
    <3>4. W(s1) = v1 /\ W(s2) = v2 /\ W(s3) = v3
      BY <3>1, <3>2, <3>3
    <3>5. s1 # s2 /\ s1 # s3 /\ s2 # s3
      BY <3>2, <3>3
    <3> HIDE DEF W
    <3>6. F1 = [k \in {s1} |-> v1]
      BY <3>1 DEF F1, F0, With
    <3>7. F2 = [k \in {s1, s2} |-> IF k = s1 THEN v1 ELSE v2]
      BY <3>1, <3>5, <3>6 DEF F2, With
    <3>8. F3 = [k \in {s1, s2, s3} |-> IF k = s1 THEN v1 ELSE IF k = s2 THEN v2 ELSE v3]
      BY <3>1, <3>5, <3>7 DEF F3, With
    <3>9. \A k \in {s1, s2, s3} : W(k) = IF k = s1 THEN v1 ELSE IF k = s2 THEN v2 ELSE v3
      BY <3>4, <3>5
    <3>10. D = {s1, s2, s3}
      BY <3>1
    <3> HIDE DEF D
    <3> QED BY <3>8, <3>9, <3>10
  <2> HIDE DEF D, W
  <2> QED BY <2>3, <2>4
<1> QED BY <1>14, <1>23, <1>28, <1>29

\* The tables that get_uri_args, get_post_args and location.capture give to Lua
\* are exactly what the query and the response say, whatever the order in which
\* Go's maps are read (TablesExact).
THEOREM TablesAreExact == Spec => []TablesExact
<1>1. Init => TablesExact
  BY DEF Init, NoCall, TablesExact
<1>2. TablesExact /\ [Next]_last => TablesExact'
  <2> SUFFICES ASSUME TablesExact, [Next]_last PROVE TablesExact'
    OBVIOUS
  <2>1. ASSUME NEW q \in Queries, NEW max \in Maxima, GetArgs(q, max) PROVE TablesExact'
    <3>1. PICK parsed, args : parsed = ParseQueryString(q, max) /\ args = parsed.args
      OBVIOUS
    <3>2. PICK order \in Orders(Keys(args)) :
            last' = [call |-> "args", raw |-> q, max |-> max, truncated |-> parsed.truncated,
                     pushed |-> Pushed(QueryArgsOps(args, order))]
      BY <2>1, <3>1 DEF GetArgs, Calls
    <3>3. /\ last'.call = "args" /\ last'.raw = q /\ last'.max = max
          /\ last'.truncated = parsed.truncated
          /\ last'.pushed = Pushed(QueryArgsOps(args, order))
      BY <3>2
    <3>4. q \in Seq(Byte) /\ IsInt32(5 * Len(q) + 1) /\ max \in Int
      BY QueriesAssumption, MaximaAssumption
    <3>5. args = ParseQueryString(q, max).args
      BY <3>1
    <3>6. Leaves(Pushed(QueryArgsOps(args, order)), ArgsTable(q, max))
      BY <3>4, <3>5, ArgsPushed
    <3>7. parsed.truncated <=> (Admitted(q, max) # Parts(q))
      BY <3>1, <3>4, ArgsAdmitted
    <3> QED BY <3>3, <3>6, <3>7 DEF TablesExact
  <2>2. ASSUME NEW r \in Captures, PushCapture(r) PROVE TablesExact'
    <3>1. PICK order \in Orders(DOMAIN r.headers) :
            last' = [call |-> "capture", response |-> r,
                     pushed |-> Pushed(CaptureOps(r.status, r.body, r.headers, order))]
      BY <2>2 DEF PushCapture, Calls
    <3>2. /\ last'.call = "capture" /\ last'.response = r
          /\ last'.pushed = Pushed(CaptureOps(r.status, r.body, r.headers, order))
      BY <3>1
    <3>3. IsCapture(r)
      BY CapturesAssumption
    <3>4. Leaves(Pushed(CaptureOps(r.status, r.body, r.headers, order)), CaptureTable(r))
      BY <3>3, CapturePushed
    <3> QED BY <3>2, <3>4 DEF TablesExact
  <2>3. CASE last'.call \notin {"args", "capture"}
    BY <2>3 DEF TablesExact
  <2>4. CASE UNCHANGED last
    BY <2>4 DEF TablesExact
  <2>5. ASSUME Call, ~ \E q \in Queries, max \in Maxima : GetArgs(q, max),
               ~ \E r \in Captures : PushCapture(r)
        PROVE  last'.call \notin {"args", "capture"}
    BY <2>5 DEF Call, Calls, ReqGetHeaders, Unescape, Escape, PushBatch, Say, Send, Fetch
  <2> QED BY <2>1, <2>2, <2>3, <2>4, <2>5 DEF Next
<1> QED BY <1>1, <1>2, PTL DEF Spec

-----------------------------------------------------------------------------
(* Paths through tables.                                                   *)

NoValue == <<"no value", 0>>
Places  == Nat \ {0}

\* V has the values of the heap and a nil
Over(heap, V) ==
  /\ NilValue \in V /\ NoValue \notin V
  /\ \A v \in V : IsValue(heap, v)
  /\ \A t \in DOMAIN heap : \A i \in DOMAIN heap[t] : heap[t][i] \in V

\* where one more step leads to
Onward(heap, length, v, i) ==
  IF IsTable(v) /\ i <= length[v[2]] THEN Element(heap[v[2]], i) ELSE NoValue

\* the values along a path
Trail(at, heap, length, vs, p) ==
  /\ at[1] = vs[p[1]]
  /\ \A k \in 2..Len(p) : at[k] = Onward(heap, length, at[k - 1], p[k])

LEMMA NoValueIsNoTable == ~IsTable(NoValue)
BY DEF NoValue, IsTable

LEMMA OnwardType ==
  ASSUME NEW V, NEW heap, Over(heap, V), NEW length, NEW v \in V \cup {NoValue}, NEW i
  PROVE  Onward(heap, length, v, i) \in V \cup {NoValue}
<1>1. CASE IsTable(v) /\ i <= length[v[2]]
  <2>1. v \in V
    BY <1>1, NoValueIsNoTable
  <2>2. v[2] \in DOMAIN heap
    BY <1>1, <2>1 DEF Over, IsValue
  <2>3. Element(heap[v[2]], i) \in V
    BY <2>2 DEF Over, Element
  <2> QED BY <1>1, <2>3 DEF Onward
<1>2. CASE ~ (IsTable(v) /\ i <= length[v[2]])
  BY <1>2 DEF Onward
<1> QED BY <1>1, <1>2

LEMMA AtIs ==
  ASSUME NEW V, NEW heap, Over(heap, V), NEW length, NEW vs, NEW p \in Seq(Places),
         Len(p) > 0, vs[p[1]] \in V
  PROVE  \E at : Trail(at, heap, length, vs, p) /\ At(heap, length, vs, p) = at[Len(p)]
<1> DEFINE N == Len(p)
           D == V \cup {NoValue}
           step == [m \in 1 .. N - 1 |-> [v \in D |-> Onward(heap, length, v, p[m + 1])]]
           next(v, i) == IF IsTable(v) /\ i <= length[v[2]]
                         THEN Element(heap[v[2]], i) ELSE <<"no value", 0>>
           R(at) == at = [k \in DOMAIN p |-> IF k = 1 THEN vs[p[1]] ELSE next(at[k - 1], p[k])]
           g == CHOOSE at : R(at)
<1>1. N \in Nat /\ N > 0 /\ N - 1 \in Nat /\ DOMAIN p = 1..N
  OBVIOUS
<1>2. \A v, i : next(v, i) = Onward(heap, length, v, i)
  BY DEF Onward, NoValue
<1>3. PICK f : Solves(f, N - 1, D, vs[p[1]], step)
  <2>1. step \in [1 .. N - 1 -> [D -> D]]
    BY OnwardType
  <2>2. vs[p[1]] \in D
    OBVIOUS
  <2> HIDE DEF step, N, D
  <2> QED BY <1>1, <2>1, <2>2, StepsSolve
<1>4. f \in [0 .. N - 1 -> D] /\ f[0] = vs[p[1]]
      /\ \A m \in 1 .. N - 1 : f[m] = Onward(heap, length, f[m - 1], p[m + 1])
  <2>1. f \in [0 .. N - 1 -> D] /\ f[0] = vs[p[1]] /\ \A m \in 1 .. N - 1 : f[m] = step[m][f[m - 1]]
    BY <1>3 DEF Solves
  <2>2. \A m \in 1 .. N - 1 : f[m - 1] \in D
    <3>1. \A m \in 1 .. N - 1 : m - 1 \in 0 .. N - 1
      BY <1>1
    <3> HIDE DEF N, D, step
    <3> QED BY <2>1, <3>1, Zenon
  <2> QED BY <2>1, <2>2
<1> HIDE DEF N, D, step
<1> DEFINE a == [k \in 1..N |-> f[k - 1]]
<1>5. R(a)
  <2>1. \A k \in 1..N : k # 1 => k - 1 \in 1..N /\ k - 1 \in 1 .. N - 1 /\ k - 1 + 1 = k
    BY <1>1
  <2>2. a[1] = vs[p[1]]
    BY <1>1, <1>4
  <2>3. \A k \in 1..N : k # 1 => a[k] = Onward(heap, length, a[k - 1], p[k])
    <3> SUFFICES ASSUME NEW k \in 1..N, k # 1 PROVE a[k] = Onward(heap, length, a[k - 1], p[k])
      OBVIOUS
    <3>1. PICK m \in 1 .. N - 1 : m = k - 1 /\ m \in 1..N /\ m + 1 = k
      BY <2>1
    <3>2. a[k] = f[m] /\ a[k - 1] = f[m - 1]
      BY <3>1
    <3>3. f[m] = Onward(heap, length, f[m - 1], p[m + 1])
      BY <1>4
    <3> QED BY <3>1, <3>2, <3>3
  <2>4. a = [k \in 1..N |-> a[k]]
    OBVIOUS
  <2> HIDE DEF a
  <2>5. \A k \in 1..N : a[k] = IF k = 1 THEN vs[p[1]] ELSE next(a[k - 1], p[k])
    BY <1>2, <2>2, <2>3
  <2> HIDE DEF next
  <2> QED BY <1>1, <2>4, <2>5
<1>6. R(g)
  <2> HIDE DEF R, a
  <2> QED BY <1>5
<1>7. At(heap, length, vs, p) = g[N]
  BY DEF At, N
<1> HIDE DEF g
<1>8. g[1] = vs[p[1]] /\ \A k \in 2..N : g[k] = Onward(heap, length, g[k - 1], p[k])
  <2>1. \A k \in 2..N : k \in 1..N /\ k # 1
    BY <1>1
  <2>2. \A k \in 1..N : g[k] = IF k = 1 THEN vs[p[1]] ELSE next(g[k - 1], p[k])
    <3> HIDE DEF next
    <3> QED BY <1>1, <1>6
  <2>3. 1 \in 1..N
    BY <1>1
  <2> HIDE DEF next
  <2> QED BY <1>2, <2>1, <2>2, <2>3
<1> QED BY <1>7, <1>8 DEF Trail, N

\* p is i and then q
Follows(p, i, q) ==
  /\ p \in Seq(Places) /\ Len(p) = Len(q) + 1 /\ p[1] = i
  /\ \A k \in 1..Len(q) : p[k + 1] = q[k]

LEMMA Prefixed ==
  ASSUME NEW i \in Places, NEW q \in Seq(Places), NEW p, p = <<i>> \o q
  PROVE  Follows(p, i, q)
<1>1. PICK h : h = <<i>>
  OBVIOUS
<1>2. h \in Seq(Places) /\ Len(h) = 1 /\ h[1] = i
  BY <1>1
<1>3. h \o q \in Seq(Places) /\ Joined(h \o q, h, q)
  BY <1>2, Joins
<1>4. p \in Seq(Places) /\ Joined(p, h, q)
  BY <1>1, <1>3
<1>5. Len(q) \in Nat
  OBVIOUS
<1>6. Len(p) = 1 + Len(q) /\ p[1] = i /\ \A k \in 1..Len(q) : p[1 + k] = q[k]
  BY <1>2, <1>4 DEF Joined
<1> QED BY <1>4, <1>5, <1>6 DEF Follows

LEMMA ElementsType ==
  ASSUME NEW V, NEW heap, Over(heap, V), NEW t, t \in DOMAIN heap, NEW n, n \in Nat,
         NEW own, own = Elements(heap[t], n)
  PROVE  own \in Seq(V) /\ Len(own) = n /\ \A j \in 1..n : own[j] = Element(heap[t], j)
<1>1. \A j \in 1..n : Element(heap[t], j) \in V
  BY DEF Over, Element
<1> QED BY <1>1 DEF Elements

\* what is reached from a table in vs is reached from its elements
LEMMA AtOn ==
  ASSUME NEW V, NEW heap, Over(heap, V), NEW length \in [DOMAIN heap -> Nat], NEW vs \in Seq(V),
         NEW i \in 1..Len(vs), IsTable(vs[i]), NEW t, t = vs[i][2],
         NEW q \in Seq(Places), Len(q) > 0, q[1] <= length[t],
         NEW p, Follows(p, i, q), NEW own, own = Elements(heap[t], length[t])
  PROVE  At(heap, length, vs, p) = At(heap, length, own, q)
<1>1. i \in Places /\ vs[i] \in V
  BY DEF Places
<1>2. t \in DOMAIN heap /\ length[t] \in Nat
  BY <1>1 DEF Over, IsValue
<1>3. /\ p \in Seq(Places) /\ Len(p) = Len(q) + 1 /\ p[1] = i
      /\ \A k \in 1..Len(q) : p[k + 1] = q[k]
  BY DEF Follows
<1>4. PICK M \in Nat : M = Len(q) /\ M > 0 /\ Len(p) = M + 1
  BY <1>3
<1>5. q[1] \in 1..length[t]
  <2>1. q[1] \in Places
    BY <1>4
  <2> QED BY <1>2, <2>1 DEF Places
<1>6. own[q[1]] = Element(heap[t], q[1]) /\ own[q[1]] \in V
  <2>1. own \in Seq(V) /\ Len(own) = length[t] /\ \A j \in 1..length[t] : own[j] = Element(heap[t], j)
    BY <1>2, ElementsType
  <2> QED BY <1>2, <1>5, <2>1
<1>7. PICK a : Trail(a, heap, length, vs, p) /\ At(heap, length, vs, p) = a[Len(p)]
  <2>1. Len(p) > 0 /\ vs[p[1]] \in V
    BY <1>1, <1>3, <1>4
  <2>2. p \in Seq(Places)
    BY <1>3
  <2> QED BY <2>1, <2>2, AtIs
<1>8. PICK b : Trail(b, heap, length, own, q) /\ At(heap, length, own, q) = b[Len(q)]
  BY <1>6, AtIs
<1> DEFINE S == {k \in 0 .. M - 1 : a[k + 2] = b[k + 1]}
<1>9. M - 1 \in Nat /\ 1 \in 1..M /\ 2 \in 2..M + 1 /\ 1 + 1 = 2 /\ 2 - 1 = 1
  BY <1>4
<1>10. 0 \in S
  <2>1. a[1] = vs[i] /\ a[2] = Onward(heap, length, a[1], p[2])
    BY <1>3, <1>4, <1>7, <1>9 DEF Trail
  <2>2. p[2] = q[1]
    BY <1>3, <1>4, <1>9
  <2>3. a[2] = Element(heap[t], q[1])
    BY <2>1, <2>2 DEF Onward
  <2>4. b[1] = own[q[1]]
    BY <1>8 DEF Trail
  <2> QED BY <1>6, <1>9, <2>3, <2>4
<1>11. \A k \in 1 .. M - 1 : k - 1 \in S => k \in S
  <2> SUFFICES ASSUME NEW k \in 1 .. M - 1, k - 1 \in S PROVE k \in S
    OBVIOUS
  <2>1. a[k + 1] = b[k]
    <3>1. k - 1 + 2 = k + 1 /\ k - 1 + 1 = k
      OBVIOUS
    <3> QED BY <3>1
  <2>2. PICK m \in 2..M : m = k + 1 /\ m + 1 = k + 2 /\ m + 1 \in 2..M + 1 /\ m - 1 = k /\ m + 1 - 1 = m
                          /\ m \in 1..M
    BY <1>4
  <2>3. a[m + 1] = Onward(heap, length, a[m], p[m + 1])
    BY <1>4, <1>7, <2>2 DEF Trail
  <2>4. b[m] = Onward(heap, length, b[k], q[m])
    BY <1>4, <1>8, <2>2 DEF Trail
  <2>5. p[m + 1] = q[m]
    BY <1>3, <1>4, <2>2
  <2>6. a[k + 2] = b[k + 1]
    BY <2>1, <2>2, <2>3, <2>4, <2>5
  <2> QED BY <2>6
<1>12. M - 1 \in S
  <2> HIDE DEF S
  <2>1. \A k \in 0 .. M - 1 : k \in S
    BY <1>9, <1>10, <1>11, UpTo
  <2> QED BY <1>9, <2>1
<1>13. a[M + 1] = b[M]
  <2>1. M - 1 + 2 = M + 1 /\ M - 1 + 1 = M
    BY <1>4
  <2> QED BY <1>12, <2>1
<1> QED BY <1>4, <1>7, <1>8, <1>13

\* nothing is reached from a value that is no table, or beyond the length of a table
LEMMA AtOff ==
  ASSUME NEW V, NEW heap, Over(heap, V), NEW length \in [DOMAIN heap -> Nat], NEW vs \in Seq(V),
         NEW i \in 1..Len(vs), NEW q \in Seq(Places), Len(q) > 0,
         ~ (IsTable(vs[i]) /\ q[1] <= length[vs[i][2]]), NEW p, Follows(p, i, q)
  PROVE  At(heap, length, vs, p) = NoValue
<1>1. i \in Places /\ vs[i] \in V
  BY DEF Places
<1>2. /\ p \in Seq(Places) /\ Len(p) = Len(q) + 1 /\ p[1] = i
      /\ \A k \in 1..Len(q) : p[k + 1] = q[k]
  BY DEF Follows
<1>3. PICK M \in Nat : M = Len(q) /\ M > 0 /\ Len(p) = M + 1
  BY <1>2
<1>4. PICK a : Trail(a, heap, length, vs, p) /\ At(heap, length, vs, p) = a[Len(p)]
  <2>1. Len(p) > 0 /\ vs[p[1]] \in V
    BY <1>1, <1>2, <1>3
  <2>2. p \in Seq(Places)
    BY <1>2
  <2> QED BY <2>1, <2>2, AtIs
<1> DEFINE S == {k \in 0 .. M - 1 : a[k + 2] = NoValue}
<1>5. M - 1 \in Nat /\ 1 \in 1..M /\ 2 \in 2..M + 1 /\ 1 + 1 = 2 /\ 2 - 1 = 1
  BY <1>3
<1>6. 0 \in S
  <2>1. a[1] = vs[i] /\ a[2] = Onward(heap, length, a[1], p[2])
    BY <1>2, <1>3, <1>4, <1>5 DEF Trail
  <2>2. p[2] = q[1]
    BY <1>2, <1>3, <1>5
  <2>3. a[2] = NoValue
    BY <2>1, <2>2 DEF Onward
  <2> QED BY <1>5, <2>3
<1>7. \A k \in 1 .. M - 1 : k - 1 \in S => k \in S
  <2> SUFFICES ASSUME NEW k \in 1 .. M - 1, k - 1 \in S PROVE k \in S
    OBVIOUS
  <2>1. a[k + 1] = NoValue
    <3>1. k - 1 + 2 = k + 1
      OBVIOUS
    <3> QED BY <3>1
  <2>2. k + 2 \in 2..M + 1 /\ k + 2 - 1 = k + 1
    BY <1>3
  <2>3. a[k + 2] = Onward(heap, length, a[k + 1], p[k + 2])
    BY <1>3, <1>4, <2>2 DEF Trail
  <2>4. a[k + 2] = NoValue
    BY <2>1, <2>3, NoValueIsNoTable DEF Onward
  <2> QED BY <2>4
<1>8. M - 1 \in S
  <2> HIDE DEF S
  <2>1. \A k \in 0 .. M - 1 : k \in S
    BY <1>5, <1>6, <1>7, UpTo
  <2> QED BY <1>5, <2>1
<1>9. a[M + 1] = NoValue
  <2>1. M - 1 + 2 = M + 1
    BY <1>3
  <2> QED BY <1>8, <2>1
<1> QED BY <1>3, <1>4, <1>9

\* the paths over places up to w, and where they lead
PathsIn(w, heap, length, vs, n) ==
  {p \in UNION {[1..k -> 1..w] : k \in 1..n} :
     p[1] \in DOMAIN vs /\ Found(At(heap, length, vs, p))}

ReachedBy(w, heap, length, vs, n) ==
  {<<p, At(heap, length, vs, p)>> : p \in PathsIn(w, heap, length, vs, n)}

\* no list of values and no table has more than w places
Narrow(w, heap, length) ==
  w \in Nat /\ length \in [DOMAIN heap -> Nat] /\ \A t \in DOMAIN heap : length[t] <= w

LEMMA PathsAre ==
  ASSUME NEW w \in Nat, NEW heap, NEW length, NEW vs, NEW n \in Nat, NEW p
  PROVE  p \in PathsIn(w, heap, length, vs, n)
           <=> /\ p \in Seq(1..w) /\ Len(p) \in 1..n /\ p[1] \in DOMAIN vs
               /\ Found(At(heap, length, vs, p))
<1>1. p \in UNION {[1..k -> 1..w] : k \in 1..n} <=> p \in Seq(1..w) /\ Len(p) \in 1..n
  <2>1. ASSUME NEW k \in 1..n, p \in [1..k -> 1..w] PROVE p \in Seq(1..w) /\ Len(p) \in 1..n
    BY <2>1
  <2>2. ASSUME p \in Seq(1..w), Len(p) \in 1..n PROVE \E k \in 1..n : p \in [1..k -> 1..w]
    BY <2>2
  <2> QED BY <2>1, <2>2
<1> QED BY <1>1 DEF PathsIn

LEMMA PlacesOf ==
  ASSUME NEW w \in Nat, NEW q \in Seq(1..w)
  PROVE  q \in Seq(Places)
<1>1. 1..w \subseteq Places
  BY DEF Places
<1>2. q \in [1..Len(q) -> 1..w] /\ Len(q) \in Nat
  OBVIOUS
<1>3. q \in [1..Len(q) -> Places]
  BY <1>1, <1>2
<1> QED BY <1>2, <1>3

\* own has the elements of v
Owns(own, heap, length, v) ==
  IsTable(v) /\ own = Elements(heap[v[2]], length[v[2]])

LEMMA OwnType ==
  ASSUME NEW V, NEW heap, Over(heap, V), NEW w, NEW length, Narrow(w, heap, length),
         NEW v \in V, NEW own, Owns(own, heap, length, v)
  PROVE  /\ own \in Seq(V) /\ Len(own) <= w /\ length[v[2]] \in Nat
         /\ DOMAIN own = 1..length[v[2]]
<1>1. PICK t, n : t = v[2] /\ n = length[t]
  OBVIOUS
<1>2. t \in DOMAIN heap /\ n \in Nat /\ n <= w /\ own = Elements(heap[t], n)
  BY <1>1 DEF Over, IsValue, Owns, Narrow
<1>3. own \in Seq(V) /\ Len(own) = n
  BY <1>2, ElementsType
<1>4. DOMAIN own = 1..n
  BY <1>3
<1> QED BY <1>1, <1>2, <1>3, <1>4

LEMMA AtOwn ==
  ASSUME NEW V, NEW heap, Over(heap, V), NEW w, NEW length, Narrow(w, heap, length),
         NEW vs \in Seq(V), NEW i \in 1..Len(vs), NEW own, Owns(own, heap, length, vs[i]),
         NEW q \in Seq(Places), Len(q) > 0, q[1] \in DOMAIN own, NEW p, Follows(p, i, q)
  PROVE  At(heap, length, vs, p) = At(heap, length, own, q)
<1>1. PICK t : t = vs[i][2]
  OBVIOUS
<1>2. IsTable(vs[i]) /\ own = Elements(heap[t], length[t]) /\ length \in [DOMAIN heap -> Nat]
  BY <1>1 DEF Owns, Narrow
<1>3. q[1] <= length[t]
  <2>1. length[t] \in Nat /\ DOMAIN own = 1..length[t]
    BY <1>1, OwnType
  <2> QED BY <2>1
<1> QED BY <1>1, <1>2, <1>3, AtOn

LEMMA NoneFound == ~Found(NoValue)
BY DEF Found, NoValue

LEMMA AtElse ==
  ASSUME NEW V, NEW heap, Over(heap, V), NEW w, NEW length, Narrow(w, heap, length),
         NEW vs \in Seq(V), NEW i \in 1..Len(vs), NEW q \in Seq(Places), Len(q) > 0,
         NEW p, Follows(p, i, q), Found(At(heap, length, vs, p))
  PROVE  /\ IsTable(vs[i])
         /\ \A own : Owns(own, heap, length, vs[i]) => q[1] \in DOMAIN own
<1>1. length \in [DOMAIN heap -> Nat] /\ vs[i] \in V
  BY DEF Narrow
<1>2. IsTable(vs[i]) /\ q[1] <= length[vs[i][2]]
  <2> SUFFICES ASSUME ~ (IsTable(vs[i]) /\ q[1] <= length[vs[i][2]]) PROVE FALSE
    OBVIOUS
  <2>1. At(heap, length, vs, p) = NoValue
    BY <1>1, AtOff
  <2> QED BY <2>1, NoneFound
<1>3. ASSUME NEW own, Owns(own, heap, length, vs[i]) PROVE q[1] \in DOMAIN own
  <2>1. length[vs[i][2]] \in Nat /\ DOMAIN own = 1..length[vs[i][2]]
    BY <1>1, <1>3, OwnType
  <2>2. q[1] \in Nat /\ q[1] > 0
    BY DEF Places
  <2> QED BY <1>2, <2>1, <2>2
<1> QED BY <1>2, <1>3

LEMMA AtHead ==
  ASSUME NEW V, NEW heap, Over(heap, V), NEW length, NEW vs, NEW p \in Seq(Places),
         Len(p) = 1, vs[p[1]] \in V
  PROVE  At(heap, length, vs, p) = vs[p[1]]
<1>1. Len(p) > 0
  OBVIOUS
<1>2. PICK a : Trail(a, heap, length, vs, p) /\ At(heap, length, vs, p) = a[Len(p)]
  BY <1>1, AtIs
<1> QED BY <1>2 DEF Trail

LEMMA ReachOne ==
  ASSUME NEW V, NEW heap, Over(heap, V), NEW w, NEW length, Narrow(w, heap, length),
         NEW vs \in Seq(V), NEW n \in Nat, n > 0, NEW i \in 1..Len(vs),
         NEW p, p \in Seq(1..w), Len(p) = 1, p[1] = i
  PROVE  p \in PathsIn(w, heap, length, vs, n) /\ At(heap, length, vs, p) = vs[i]
<1>1. vs[i] \in V /\ w \in Nat /\ i \in DOMAIN vs
  BY DEF Narrow
<1>2. p \in Seq(Places)
  BY <1>1, PlacesOf
<1>3. At(heap, length, vs, p) = vs[i]
  BY <1>1, <1>2, AtHead
<1>4. Found(vs[i])
  BY <1>1 DEF Over, IsValue
<1>5. Len(p) \in 1..n
  OBVIOUS
<1>6. p \in PathsIn(w, heap, length, vs, n)
  BY <1>1, <1>3, <1>4, <1>5, PathsAre
<1> QED BY <1>3, <1>6

LEMMA ReachOn ==
  ASSUME NEW V, NEW heap, Over(heap, V), NEW w, NEW length, Narrow(w, heap, length),
         NEW vs \in Seq(V), NEW n \in Nat, NEW i \in 1..Len(vs),
         NEW own, Owns(own, heap, length, vs[i]),
         NEW q, q \in PathsIn(w, heap, length, own, n), NEW p \in Seq(1..w), Follows(p, i, q)
  PROVE  /\ p \in PathsIn(w, heap, length, vs, n + 1)
         /\ At(heap, length, vs, p) = At(heap, length, own, q)
         /\ Len(p) = Len(q) + 1
<1>1. vs[i] \in V /\ w \in Nat /\ i \in DOMAIN vs
  BY DEF Narrow
<1>2. /\ q \in Seq(1..w) /\ Len(q) \in 1..n /\ q[1] \in DOMAIN own
      /\ Found(At(heap, length, own, q))
  BY <1>1, PathsAre
<1>3. q \in Seq(Places) /\ Len(q) > 0
  BY <1>1, <1>2, PlacesOf
<1>4. At(heap, length, vs, p) = At(heap, length, own, q)
  BY <1>2, <1>3, AtOwn
<1>5. Len(p) = Len(q) + 1 /\ p[1] = i
  BY DEF Follows
<1>6. Len(p) \in 1..n + 1
  BY <1>2, <1>5
<1>7. p \in PathsIn(w, heap, length, vs, n + 1)
  <2>1. Found(At(heap, length, vs, p)) /\ n + 1 \in Nat
    BY <1>2, <1>4
  <2> QED BY <1>1, <1>5, <1>6, <2>1, PathsAre
<1> QED BY <1>4, <1>5, <1>7

LEMMA PathRest ==
  ASSUME NEW w \in Nat, NEW p \in Seq(1..w), Len(p) > 1
  PROVE  \E q \in Seq(1..w) : p = <<p[1]>> \o q /\ Len(q) = Len(p) - 1
<1>1. PICK q : q = Tail(p)
  OBVIOUS
<1>2. q \in Seq(1..w) /\ Len(q) = Len(p) - 1
  BY <1>1
<1>3. p = <<p[1]>> \o q
  BY <1>1
<1> QED BY <1>2, <1>3

\* p is i and then q, as a sequence
Longer(p, i, q) == p = <<i>> \o q

LEMMA ReachBack ==
  ASSUME NEW V, NEW heap, Over(heap, V), NEW w, NEW length, Narrow(w, heap, length),
         NEW vs \in Seq(V), NEW n \in Nat,
         NEW p, p \in PathsIn(w, heap, length, vs, n + 1), NEW i, i = p[1], Len(p) # 1,
         NEW own, Owns(own, heap, length, vs[i])
  PROVE  \E q \in PathsIn(w, heap, length, own, n) : Longer(p, i, q)
<1>1. /\ p \in Seq(1..w) /\ Len(p) \in 1..n + 1 /\ p[1] \in DOMAIN vs
      /\ Found(At(heap, length, vs, p))
  <2>1. w \in Nat /\ n + 1 \in Nat
    BY DEF Narrow
  <2> QED BY <2>1, PathsAre
<1>2. i \in 1..Len(vs) /\ i \in Places /\ vs[i] \in V /\ w \in Nat
  BY <1>1 DEF Places, Narrow
<1>3. PICK q \in Seq(1..w) : p = <<i>> \o q /\ Len(q) = Len(p) - 1
  <2>1. PICK m \in 1..n + 1 : m = Len(p)
    BY <1>1
  <2>2. Len(p) > 1
    BY <2>1
  <2> QED BY <1>1, <1>2, <2>2, PathRest
<1>4. Len(q) \in 1..n
  BY <1>1, <1>3
<1>5. q \in Seq(Places) /\ Len(q) > 0
  BY <1>2, <1>3, <1>4, PlacesOf
<1>6. Follows(p, i, q)
  BY <1>2, <1>3, <1>5, Prefixed
<1>7. q[1] \in DOMAIN own
  BY <1>1, <1>2, <1>5, <1>6, AtElse
<1>8. At(heap, length, vs, p) = At(heap, length, own, q)
  BY <1>2, <1>5, <1>6, <1>7, AtOwn
<1>9. q \in PathsIn(w, heap, length, own, n)
  BY <1>1, <1>2, <1>3, <1>4, <1>7, <1>8, PathsAre
<1> QED BY <1>3, <1>9 DEF Longer

\* only tables have more below them
LEMMA ReachMore ==
  ASSUME NEW V, NEW heap, Over(heap, V), NEW w, NEW length, Narrow(w, heap, length),
         NEW vs \in Seq(V), NEW n \in Nat,
         NEW p, p \in PathsIn(w, heap, length, vs, n), Len(p) > 1, NEW i, i = p[1]
  PROVE  IsTable(vs[i])
<1>1. /\ p \in Seq(1..w) /\ p[1] \in DOMAIN vs /\ Found(At(heap, length, vs, p)) /\ w \in Nat
  <2>1. w \in Nat
    BY DEF Narrow
  <2> QED BY <2>1, PathsAre
<1>2. i \in 1..Len(vs)
  BY <1>1
<1>3. PICK q \in Seq(1..w) : p = <<i>> \o q /\ Len(q) = Len(p) - 1
  BY <1>1, <1>2, PathRest
<1>4. q \in Seq(Places) /\ Len(q) > 0 /\ i \in Places
  BY <1>1, <1>2, <1>3, PlacesOf DEF Places
<1>5. Follows(p, i, q)
  BY <1>3, <1>4, Prefixed
<1> QED BY <1>1, <1>2, <1>4, <1>5, AtElse

\* what is reached by way of the i-th value
Via(x) == x[1][1]
Starting(R, i) == {x \in R : Via(x) = i}

\* the same, seen from a list with it at place i
Deeper(R, i) == {<< <<i>> \o x[1], x[2]>> : x \in R}

First(i, v) == {<< <<i>>, v>>}

LEMMA ReachedType ==
  ASSUME NEW w \in Nat, NEW heap, NEW length, NEW vs, NEW n \in Nat,
         NEW x \in ReachedBy(w, heap, length, vs, n)
  PROVE  /\ x = <<x[1], At(heap, length, vs, x[1])>> /\ x[1] \in PathsIn(w, heap, length, vs, n)
         /\ x[1] \in Seq(1..w) /\ Len(x[1]) \in 1..n /\ Via(x) \in DOMAIN vs
<1>1. PICK p : p \in PathsIn(w, heap, length, vs, n) /\ x = <<p, At(heap, length, vs, p)>>
  BY DEF ReachedBy
<1>2. p = x[1]
  BY <1>1
<1>3. p \in Seq(1..w) /\ Len(p) \in 1..n /\ p[1] \in DOMAIN vs
  BY <1>1, PathsAre
<1> QED BY <1>1, <1>2, <1>3 DEF Via

LEMMA NothingReached ==
  ASSUME NEW w \in Nat, NEW heap, NEW length, NEW vs
  PROVE  ReachedBy(w, heap, length, vs, 0) = {}
<1>1. \A p : p \notin PathsIn(w, heap, length, vs, 0)
  BY PathsAre
<1> QED BY <1>1 DEF ReachedBy

LEMMA FirstReached ==
  ASSUME NEW V, NEW heap, Over(heap, V), NEW w, NEW length, Narrow(w, heap, length),
         NEW vs \in Seq(V), Len(vs) <= w, NEW n \in Nat, NEW i \in 1..Len(vs)
  PROVE  First(i, vs[i]) \subseteq Starting(ReachedBy(w, heap, length, vs, n + 1), i)
<1>1. PICK p : p = <<i>>
  OBVIOUS
<1>2. i \in 1..w /\ w \in Nat
  BY DEF Narrow
<1>3. p \in Seq(1..w) /\ Len(p) = 1 /\ p[1] = i
  BY <1>1, <1>2
<1>4. p \in PathsIn(w, heap, length, vs, n + 1) /\ At(heap, length, vs, p) = vs[i]
  <2>1. n + 1 \in Nat /\ n + 1 > 0
    OBVIOUS
  <2> QED BY <1>3, <2>1, ReachOne
<1>5. <<p, vs[i]>> \in ReachedBy(w, heap, length, vs, n + 1)
  BY <1>4 DEF ReachedBy
<1> QED BY <1>1, <1>3, <1>5 DEF Starting, First, Via

LEMMA StartsPlain ==
  ASSUME NEW V, NEW heap, Over(heap, V), NEW w, NEW length, Narrow(w, heap, length),
         NEW vs \in Seq(V), Len(vs) <= w, NEW n \in Nat, NEW i \in 1..Len(vs), ~IsTable(vs[i])
  PROVE  Starting(ReachedBy(w, heap, length, vs, n + 1), i) = First(i, vs[i])
<1>1. w \in Nat /\ n + 1 \in Nat
  BY DEF Narrow
<1>2. ASSUME NEW x \in ReachedBy(w, heap, length, vs, n + 1), Via(x) = i
      PROVE  x \in First(i, vs[i])
  <2>1. PICK p : p = x[1]
    OBVIOUS
  <2>2. /\ x = <<p, At(heap, length, vs, p)>> /\ p \in PathsIn(w, heap, length, vs, n + 1)
        /\ p \in Seq(1..w) /\ Len(p) \in 1..n + 1 /\ p[1] = i
    BY <1>1, <1>2, <2>1, ReachedType DEF Via
  <2>3. Len(p) = 1
    <3>1. p \in PathsIn(w, heap, length, vs, n + 1) /\ i = p[1] /\ n + 1 \in Nat
      BY <1>1, <2>2
    <3>2. ~ (Len(p) > 1)
      BY <3>1, ReachMore
    <3>3. PICK m \in 1..n + 1 : m = Len(p)
      BY <2>2
    <3>4. m = 1
      BY <3>2, <3>3
    <3> QED BY <3>3, <3>4
  <2>4. At(heap, length, vs, p) = vs[i]
    BY <1>1, <2>2, <2>3, ReachOne
  <2>5. p = <<i>>
    BY <2>2, <2>3
  <2> QED BY <2>2, <2>4, <2>5 DEF First
<1>3. First(i, vs[i]) \subseteq Starting(ReachedBy(w, heap, length, vs, n + 1), i)
  BY FirstReached
<1> QED BY <1>2, <1>3 DEF Starting

LEMMA StartsTable ==
  ASSUME NEW V, NEW heap, Over(heap, V), NEW w, NEW length, Narrow(w, heap, length),
         NEW vs \in Seq(V), Len(vs) <= w, NEW n \in Nat, NEW i \in 1..Len(vs),
         NEW own, Owns(own, heap, length, vs[i])
  PROVE  Starting(ReachedBy(w, heap, length, vs, n + 1), i)
           = First(i, vs[i]) \cup Deeper(ReachedBy(w, heap, length, own, n), i)
<1>1. w \in Nat /\ n + 1 \in Nat /\ i \in Places /\ i \in 1..w
  BY DEF Narrow, Places
<1>2. ASSUME NEW x \in ReachedBy(w, heap, length, vs, n + 1), Via(x) = i
      PROVE  x \in First(i, vs[i]) \/ x \in Deeper(ReachedBy(w, heap, length, own, n), i)
  <2>1. PICK p : p = x[1]
    OBVIOUS
  <2>2. /\ x = <<p, At(heap, length, vs, p)>> /\ p \in PathsIn(w, heap, length, vs, n + 1)
        /\ p \in Seq(1..w) /\ Len(p) \in 1..n + 1 /\ p[1] = i
    BY <1>1, <1>2, <2>1, ReachedType DEF Via
  <2>3. CASE Len(p) = 1
    <3>1. At(heap, length, vs, p) = vs[i]
      BY <1>1, <2>2, <2>3, ReachOne
    <3>2. p = <<i>>
      BY <2>2, <2>3
    <3> QED BY <2>2, <3>1, <3>2 DEF First
  <2>4. CASE Len(p) # 1
    <3>8. p \in PathsIn(w, heap, length, vs, n + 1) /\ i = p[1] /\ p \in Seq(1..w)
      BY <2>2
    <3>9. PICK q \in PathsIn(w, heap, length, own, n) : Longer(p, i, q)
      BY <2>4, <3>8, ReachBack
    <3>1. q \in PathsIn(w, heap, length, own, n) /\ p = <<i>> \o q
      BY <3>9 DEF Longer
    <3>2. q \in Seq(Places)
      BY <1>1, <3>1, PathsAre, PlacesOf
    <3>3. Follows(p, i, q)
      BY <1>1, <3>1, <3>2, Prefixed
    <3>4. At(heap, length, vs, p) = At(heap, length, own, q)
      <4>1. q \in PathsIn(w, heap, length, own, n)
        BY <3>1
      <4> HIDE <3>1
      <4> QED BY <3>3, <3>8, <4>1, ReachOn
    <3>5. PICK y : y = <<q, At(heap, length, own, q)>>
      OBVIOUS
    <3>6. y \in ReachedBy(w, heap, length, own, n) /\ y[1] = q /\ y[2] = At(heap, length, own, q)
      BY <3>1, <3>5 DEF ReachedBy
    <3>7. x = << <<i>> \o y[1], y[2]>>
      BY <2>2, <3>1, <3>4, <3>6
    <3> QED BY <3>6, <3>7 DEF Deeper
  <2> QED BY <2>3, <2>4
<1>3. ASSUME NEW y \in ReachedBy(w, heap, length, own, n)
      PROVE  << <<i>> \o y[1], y[2]>> \in Starting(ReachedBy(w, heap, length, vs, n + 1), i)
  <2>1. PICK q, p, h : q = y[1] /\ p = <<i>> \o q /\ h = <<i>>
    OBVIOUS
  <2>2. /\ y = <<q, At(heap, length, own, q)>> /\ q \in PathsIn(w, heap, length, own, n)
        /\ q \in Seq(1..w)
    BY <1>1, <2>1, ReachedType
  <2>3. q \in Seq(Places)
    BY <1>1, <2>2, PlacesOf
  <2>4. Follows(p, i, q)
    BY <1>1, <2>1, <2>3, Prefixed
  <2>5. p \in Seq(1..w)
    <3>1. h \in Seq(1..w)
      BY <1>1, <2>1
    <3>2. h \o q \in Seq(1..w)
      BY <2>2, <3>1
    <3> QED BY <2>1, <3>2
  <2>6. p \in PathsIn(w, heap, length, vs, n + 1) /\ At(heap, length, vs, p) = At(heap, length, own, q)
    BY <2>2, <2>4, <2>5, ReachOn
  <2>7. <<p, At(heap, length, own, q)>> \in ReachedBy(w, heap, length, vs, n + 1)
    BY <2>6 DEF ReachedBy
  <2>8. p[1] = i
    BY <2>4 DEF Follows
  <2>9. y[2] = At(heap, length, own, q)
    BY <2>2
  <2> QED BY <2>1, <2>7, <2>8, <2>9 DEF Starting, Via
<1>4. First(i, vs[i]) \subseteq Starting(ReachedBy(w, heap, length, vs, n + 1), i)
  BY FirstReached
<1> QED BY <1>2, <1>3, <1>4 DEF Starting, Deeper

-----------------------------------------------------------------------------
(* What a text says of the values that are reached.                        *)

Pathed(R) == \A x \in R : x = <<x[1], x[2]>> /\ x[1] \in Seq(Places)

PlainOf(R) == {x \in R : ~IsTable(x[2])}

\* E has the leaves of R in the order of their paths
Enumerates(E, R) ==
  /\ E \in Seq(PlainOf(R))
  /\ \A x \in PlainOf(R) : \E k \in 1..Len(E) : E[k] = x
  /\ \A k, m \in 1..Len(E) : k < m => PathBefore(E[k][1], E[m][1])

Tells(text, R) ==
  \E E : Enumerates(E, R) /\ text = [k \in 1..Len(E) |-> E[k][2]]

\* what the text of x is defined for, d being the length of paths at which no table may be
Good(x, arrays, types, d) ==
  IF IsTable(x[2]) THEN Len(x[1]) < d /\ x[2][2] \in arrays ELSE x[2][1] \in types

Fits(R, arrays, types, d) == \A x \in R : Good(x, arrays, types, d)

\* r is the text of what R reaches, or the error
Meant(r, R, arrays, types, d) ==
  \/ Fits(R, arrays, types, d) /\ \E text : r = Written(text) /\ Tells(text, R)
  \/ ~Fits(R, arrays, types, d) /\ r = BadArgument

\* the paths of R are before those of S
AllBefore(R, S) == \A x \in R : \A y \in S : PathBefore(x[1], y[1])

LEMMA LeavesJoined ==
  ASSUME NEW R, NEW S
  PROVE  PlainOf(R \cup S) = PlainOf(R) \cup PlainOf(S)
BY DEF PlainOf

LEMMA SeqIn ==
  ASSUME NEW S, NEW T, S \subseteq T, NEW s \in Seq(S)
  PROVE  s \in Seq(T)
<1>1. PICK n \in Nat : n = Len(s) /\ s \in [1..n -> S]
  OBVIOUS
<1>2. s \in [1..n -> T]
  BY <1>1
<1> QED BY <1>2

LEMMA EnumeratesBoth ==
  ASSUME NEW R, NEW S, AllBefore(R, S), NEW E, Enumerates(E, R), NEW F, Enumerates(F, S)
  PROVE  Enumerates(E \o F, R \cup S)
<1> DEFINE L == PlainOf(R \cup S)
<1>1. PlainOf(R) \subseteq L /\ PlainOf(S) \subseteq L /\ \A x \in L : x \in PlainOf(R) \/ x \in PlainOf(S)
  BY LeavesJoined
<1>2. E \in Seq(PlainOf(R)) /\ F \in Seq(PlainOf(S))
  BY DEF Enumerates
<1> HIDE DEF L
<1>3. E \in Seq(L) /\ F \in Seq(L)
  BY <1>1, <1>2, SeqIn
<1>4. PICK a \in Nat, b \in Nat : a = Len(E) /\ b = Len(F)
  BY <1>3
<1>5. PICK G : G = E \o F
  OBVIOUS
<1>6. G \in Seq(L) /\ Joined(G, E, F)
  BY <1>3, <1>5, Joins
<1>7. /\ Len(G) = a + b
      /\ \A k \in 1..a : G[k] = E[k]
      /\ \A k \in 1..b : G[a + k] = F[k]
  BY <1>4, <1>6 DEF Joined
<1>8. ASSUME NEW x \in L PROVE \E k \in 1 .. a + b : G[k] = x
  <2>1. CASE x \in PlainOf(R)
    <3>1. PICK k \in 1..a : E[k] = x
      BY <1>4, <2>1 DEF Enumerates
    <3>2. k \in 1 .. a + b /\ G[k] = x
      BY <1>7, <3>1
    <3> QED BY <3>2
  <2>2. CASE x \in PlainOf(S)
    <3>1. PICK k \in 1..b : F[k] = x
      BY <1>4, <2>2 DEF Enumerates
    <3>2. a + k \in 1 .. a + b /\ G[a + k] = x
      BY <1>7, <3>1
    <3> QED BY <3>2
  <2> QED BY <1>1, <2>1, <2>2
<1>9. ASSUME NEW k \in 1 .. a + b, NEW m \in 1 .. a + b, k < m
      PROVE  PathBefore(G[k][1], G[m][1])
  <2>1. CASE m \in 1..a
    <3>1. k \in 1..a
      BY <1>9, <2>1
    <3>2. PathBefore(E[k][1], E[m][1])
      BY <1>4, <1>9, <2>1, <3>1 DEF Enumerates
    <3> QED BY <1>7, <2>1, <3>1, <3>2
  <2>2. CASE k \notin 1..a
    <3>1. PICK r \in 1..b, s \in 1..b : k = a + r /\ m = a + s
      <4>1. k - a \in 1..b /\ m - a \in 1..b /\ k = a + (k - a) /\ m = a + (m - a)
        BY <1>9, <2>2
      <4> QED BY <4>1
    <3>2. r < s
      BY <1>9, <3>1
    <3>3. PathBefore(F[r][1], F[s][1])
      BY <1>4, <3>2 DEF Enumerates
    <3> QED BY <1>7, <3>1, <3>3
  <2>3. CASE k \in 1..a /\ m \notin 1..a
    <3>1. PICK s \in 1..b : m = a + s
      <4>1. m - a \in 1..b /\ m = a + (m - a)
        BY <1>9, <2>3
      <4> QED BY <4>1
    <3>2. G[k] \in R /\ G[m] \in S
      <4>1. G[k] = E[k] /\ G[m] = F[s]
        BY <1>7, <2>3, <3>1
      <4>2. E[k] \in PlainOf(R) /\ F[s] \in PlainOf(S)
        BY <1>2, <1>4, <2>3, <3>1
      <4> QED BY <4>1, <4>2 DEF PlainOf
    <3> QED BY <3>2 DEF AllBefore
  <2> QED BY <2>1, <2>2, <2>3
<1> QED BY <1>5, <1>6, <1>7, <1>8, <1>9 DEF Enumerates, L

LEMMA TellsBoth ==
  ASSUME NEW R, NEW S, AllBefore(R, S), NEW s, Tells(s, R), NEW t, Tells(t, S)
  PROVE  Tells(s \o t, R \cup S)
<1>1. PICK E : Enumerates(E, R) /\ s = [k \in 1..Len(E) |-> E[k][2]]
  BY DEF Tells
<1>2. PICK F : Enumerates(F, S) /\ t = [k \in 1..Len(F) |-> F[k][2]]
  BY DEF Tells
<1>3. Enumerates(E \o F, R \cup S)
  BY <1>1, <1>2, EnumeratesBoth
<1> DEFINE C == {x[2] : x \in R \cup S}
           L == R \cup S
<1>4. PICK G, u : G = E \o F /\ u = s \o t
  OBVIOUS
<1>5. E \in Seq(L) /\ F \in Seq(L)
  <2>1. E \in Seq(PlainOf(R)) /\ F \in Seq(PlainOf(S))
    BY <1>1, <1>2 DEF Enumerates
  <2>2. PlainOf(R) \subseteq L /\ PlainOf(S) \subseteq L
    BY DEF PlainOf
  <2> HIDE DEF L
  <2> QED BY <2>1, <2>2, SeqIn
<1>6. PICK a \in Nat, b \in Nat : a = Len(E) /\ b = Len(F)
  BY <1>5
<1>7. s \in Seq(C) /\ t \in Seq(C) /\ Len(s) = a /\ Len(t) = b
  <2>1. s \in [1..a -> C] /\ t \in [1..b -> C]
    BY <1>1, <1>2, <1>5, <1>6
  <2> HIDE DEF C
  <2> QED BY <2>1
<1> HIDE DEF C, L
<1>8. G \in Seq(L) /\ Joined(G, E, F)
  BY <1>4, <1>5, Joins
<1>9. u \in Seq(C) /\ Joined(u, s, t)
  BY <1>4, <1>7, Joins
<1>10. Len(G) = a + b /\ Len(u) = a + b
  BY <1>6, <1>7, <1>8, <1>9 DEF Joined
<1>11. ASSUME NEW k \in 1 .. a + b PROVE u[k] = G[k][2]
  <2>1. CASE k \in 1..a
    <3>1. u[k] = s[k] /\ G[k] = E[k]
      BY <1>6, <1>7, <1>8, <1>9, <2>1 DEF Joined
    <3> QED BY <1>1, <1>6, <2>1, <3>1
  <2>2. CASE k \notin 1..a
    <3>1. PICK r \in 1..b : k = a + r
      <4>1. k - a \in 1..b /\ k = a + (k - a)
        BY <2>2
      <4> QED BY <4>1
    <3>2. u[k] = t[r] /\ G[k] = F[r]
      BY <1>6, <1>7, <1>8, <1>9, <3>1 DEF Joined
    <3> QED BY <1>2, <1>6, <3>2
  <2> QED BY <2>1, <2>2
<1>12. u = [k \in 1 .. a + b |-> G[k][2]]
  <2>1. DOMAIN u = 1 .. a + b /\ u = [k \in DOMAIN u |-> u[k]]
    BY <1>9, <1>10
  <2> QED BY <1>11, <2>1
<1>13. Enumerates(G, R \cup S) /\ u = [k \in 1..Len(G) |-> G[k][2]]
  BY <1>3, <1>4, <1>10, <1>12
<1> QED BY <1>4, <1>13 DEF Tells

LEMMA ThenMeans ==
  ASSUME NEW R, NEW S, AllBefore(R, S), NEW A, NEW T, NEW d,
         NEW a, Meant(a, R, A, T, d), NEW b, Meant(b, S, A, T, d)
  PROVE  Meant(Then(a, b), R \cup S, A, T, d)
<1>1. Fits(R \cup S, A, T, d) <=> Fits(R, A, T, d) /\ Fits(S, A, T, d)
  BY DEF Fits
<1>2. BadArgument.ok = FALSE /\ \A u : Written(u).ok = TRUE /\ Written(u).text = u
  BY DEF BadArgument, Written
<1>3. CASE ~Fits(R, A, T, d)
  <2>1. a = BadArgument
    BY <1>3 DEF Meant
  <2>2. Then(a, b) = BadArgument
    BY <1>2, <2>1 DEF Then
  <2> QED BY <1>1, <1>3, <2>2 DEF Meant
<1>4. CASE Fits(R, A, T, d) /\ ~Fits(S, A, T, d)
  <2>1. b = BadArgument /\ \E u : a = Written(u)
    BY <1>4 DEF Meant
  <2>2. Then(a, b) = BadArgument
    BY <1>2, <2>1 DEF Then
  <2> QED BY <1>1, <1>4, <2>2 DEF Meant
<1>5. CASE Fits(R, A, T, d) /\ Fits(S, A, T, d)
  <2>1. PICK s : a = Written(s) /\ Tells(s, R)
    BY <1>5 DEF Meant
  <2>2. PICK t : b = Written(t) /\ Tells(t, S)
    BY <1>5 DEF Meant
  <2>3. Then(a, b) = Written(s \o t)
    BY <1>2, <2>1, <2>2 DEF Then
  <2>4. Tells(s \o t, R \cup S)
    BY <2>1, <2>2, TellsBoth
  <2> QED BY <1>1, <1>5, <2>3, <2>4 DEF Meant
<1> QED BY <1>3, <1>4, <1>5

LEMMA NothingMeans ==
  ASSUME NEW A, NEW T, NEW d
  PROVE  Meant(Written(<<>>), {}, A, T, d)
<1>1. PICK E : E = <<>>
  OBVIOUS
<1>2. PlainOf({}) = {} /\ Len(E) = 0 /\ E \in Seq(PlainOf({}))
  BY <1>1 DEF PlainOf
<1>3. Enumerates(E, {})
  BY <1>2 DEF Enumerates
<1>4. E = [k \in 1..Len(E) |-> E[k][2]]
  BY <1>1
<1>5. Tells(<<>>, {})
  BY <1>1, <1>3, <1>4 DEF Tells
<1>6. Fits({}, A, T, d)
  BY DEF Fits
<1> QED BY <1>5, <1>6 DEF Meant

\* a value that is no table
LEMMA PlainMeans ==
  ASSUME NEW i, NEW v, ~IsTable(v), NEW A, NEW T, NEW d
  PROVE  Meant(IF v[1] \in T THEN Written(<<v>>) ELSE BadArgument, First(i, v), A, T, d)
<1>1. PICK x : x = << <<i>>, v>>
  OBVIOUS
<1>2. x[2] = v /\ First(i, v) = {x}
  BY <1>1 DEF First
<1>3. Fits(First(i, v), A, T, d) <=> v[1] \in T
  BY <1>2 DEF Fits, Good
<1>4. PlainOf({x}) = {x}
  BY <1>2 DEF PlainOf
<1>5. PICK E : E = <<x>>
  OBVIOUS
<1>6. E \in Seq({x}) /\ Len(E) = 1 /\ E[1] = x
  BY <1>5
<1>7. Enumerates(E, {x})
  <2>1. \A k, m \in 1..Len(E) : ~ (k < m)
    BY <1>6
  <2>2. \A y \in PlainOf({x}) : \E k \in 1..Len(E) : E[k] = y
    BY <1>4, <1>6
  <2> QED BY <1>4, <1>6, <2>1, <2>2 DEF Enumerates
<1>8. <<v>> = [k \in 1..Len(E) |-> E[k][2]]
  BY <1>2, <1>6
<1>9. Tells(<<v>>, First(i, v))
  BY <1>2, <1>7, <1>8 DEF Tells
<1> QED BY <1>3, <1>9 DEF Meant

\* a table that is refused
LEMMA RefusedMeans ==
  ASSUME NEW i, NEW v, IsTable(v), NEW A, NEW T, NEW d \in Nat, d <= 1 \/ v[2] \notin A,
         NEW S, First(i, v) \subseteq S
  PROVE  Meant(BadArgument, S, A, T, d)
<1>1. PICK x, p : x = <<p, v>> /\ p = <<i>>
  OBVIOUS
<1>2. x[1] = p /\ x[2] = v /\ x \in S /\ Len(p) = 1
  BY <1>1 DEF First
<1>3. ~Good(x, A, T, d)
  BY <1>2 DEF Good
<1> QED BY <1>2, <1>3 DEF Meant, Fits

LEMMA BeforeDeeper ==
  ASSUME NEW i \in Places, NEW p \in Seq(Places), NEW q \in Seq(Places), PathBefore(p, q),
         NEW P, Follows(P, i, p), NEW Q, Follows(Q, i, q)
  PROVE  PathBefore(P, Q)
<1>1. PICK a \in Nat, b \in Nat : a = Len(p) /\ b = Len(q)
  OBVIOUS
<1>2. PICK k : /\ k \in DOMAIN p \cap DOMAIN q /\ p[k] < q[k]
               /\ \A j \in 1 .. k - 1 : p[j] = q[j]
  BY DEF PathBefore
<1>3. k \in 1..a /\ k \in 1..b
  BY <1>1, <1>2
<1>4. /\ P \in Seq(Places) /\ Len(P) = a + 1 /\ P[1] = i /\ \A j \in 1..a : P[j + 1] = p[j]
      /\ Q \in Seq(Places) /\ Len(Q) = b + 1 /\ Q[1] = i /\ \A j \in 1..b : Q[j + 1] = q[j]
  BY <1>1 DEF Follows
<1>5. PICK m : m = k + 1
  OBVIOUS
<1>6. m \in 1 .. a + 1 /\ m \in 1 .. b + 1
  BY <1>3, <1>5
<1>7. P[m] < Q[m]
  BY <1>2, <1>3, <1>4, <1>5
<1>8. ASSUME NEW j \in 1 .. m - 1 PROVE P[j] = Q[j]
  <2>1. CASE j = 1
    BY <1>4, <2>1
  <2>2. CASE j # 1
    <3>1. PICK h \in 1 .. k - 1 : j = h + 1
      <4>1. j - 1 \in 1 .. k - 1 /\ j = j - 1 + 1
        BY <1>3, <1>5, <2>2
      <4> QED BY <4>1
    <3>2. h \in 1..a /\ h \in 1..b
      BY <1>3, <3>1
    <3> QED BY <1>2, <1>4, <3>1, <3>2
  <2> QED BY <2>1, <2>2
<1>9. DOMAIN P = 1 .. a + 1 /\ DOMAIN Q = 1 .. b + 1
  BY <1>4
<1>10. m \in DOMAIN P \cap DOMAIN Q
  BY <1>6, <1>9
<1> QED BY <1>7, <1>8, <1>10 DEF PathBefore

\* x, seen from a list with the value it is below at place i
Moved(i, x) == << <<i>> \o x[1], x[2]>>

LEMMA MovedIs ==
  ASSUME NEW i \in Places, NEW R, Pathed(R), NEW x \in R, NEW y, y = Moved(i, x)
  PROVE  /\ y[2] = x[2] /\ Follows(y[1], i, x[1]) /\ Via(y) = i
         /\ y = <<y[1], y[2]>> /\ y[1] \in Seq(Places) /\ Len(y[1]) = Len(x[1]) + 1
<1>1. PICK q, p : q = x[1] /\ p = <<i>> \o q
  OBVIOUS
<1>2. q \in Seq(Places) /\ y = <<p, x[2]>>
  BY <1>1 DEF Pathed, Moved
<1>3. Follows(p, i, q)
  BY <1>1, <1>2, Prefixed
<1>4. p[1] = i /\ p \in Seq(Places) /\ Len(p) = Len(q) + 1
  BY <1>3 DEF Follows
<1> QED BY <1>1, <1>2, <1>3, <1>4 DEF Via

LEMMA EnumeratesDeeper ==
  ASSUME NEW i \in Places, NEW R, Pathed(R), NEW E, Enumerates(E, R),
         NEW F, F = [k \in 1..Len(E) |-> Moved(i, E[k])]
  PROVE  /\ Enumerates(F, Deeper(R, i)) /\ Len(F) = Len(E)
         /\ \A k \in 1..Len(E) : F[k][2] = E[k][2]
<1>1. E \in Seq(PlainOf(R))
  BY DEF Enumerates
<1>2. PICK a \in Nat : a = Len(E)
  BY <1>1
<1>3. \A k \in 1..a : E[k] \in PlainOf(R) /\ E[k] \in R /\ ~IsTable(E[k][2])
  BY <1>1, <1>2 DEF PlainOf
<1>4. \A k \in 1..a : F[k] = Moved(i, E[k])
  BY <1>2
<1>5. \A k \in 1..a : F[k][2] = E[k][2] /\ Follows(F[k][1], i, E[k][1])
  BY <1>3, <1>4, MovedIs
<1>6. ASSUME NEW x \in R PROVE Moved(i, x) \in Deeper(R, i)
  BY DEF Moved, Deeper
<1>7. \A k \in 1..a : F[k] \in PlainOf(Deeper(R, i))
  BY <1>3, <1>4, <1>5, <1>6 DEF PlainOf
<1>8. F \in Seq(PlainOf(Deeper(R, i))) /\ Len(F) = a
  <2>1. F \in [1..a -> PlainOf(Deeper(R, i))]
    BY <1>2, <1>7
  <2> QED BY <2>1
<1>9. ASSUME NEW y \in PlainOf(Deeper(R, i)) PROVE \E k \in 1..a : F[k] = y
  <2>1. y \in Deeper(R, i) /\ ~IsTable(y[2])
    BY DEF PlainOf
  <2>2. PICK x \in R : y = Moved(i, x)
    BY <2>1 DEF Deeper, Moved
  <2>3. x \in PlainOf(R)
    <3>1. y[2] = x[2]
      BY <2>2, MovedIs
    <3> QED BY <2>1, <3>1 DEF PlainOf
  <2>4. PICK k \in 1..a : E[k] = x
    BY <1>2, <2>3 DEF Enumerates
  <2> QED BY <1>4, <2>2, <2>4
<1>10. ASSUME NEW k \in 1..a, NEW m \in 1..a, k < m PROVE PathBefore(F[k][1], F[m][1])
  <2>1. PathBefore(E[k][1], E[m][1])
    BY <1>2, <1>10 DEF Enumerates
  <2>2. E[k][1] \in Seq(Places) /\ E[m][1] \in Seq(Places)
    BY <1>3 DEF Pathed
  <2>3. Follows(F[k][1], i, E[k][1]) /\ Follows(F[m][1], i, E[m][1])
    BY <1>5
  <2> QED BY <2>1, <2>2, <2>3, BeforeDeeper
<1>11. Enumerates(F, Deeper(R, i))
  BY <1>8, <1>9, <1>10 DEF Enumerates
<1> QED BY <1>2, <1>5, <1>8, <1>11

LEMMA TellsDeeper ==
  ASSUME NEW i \in Places, NEW R, Pathed(R), NEW v, IsTable(v), NEW t, Tells(t, R)
  PROVE  Tells(t, First(i, v) \cup Deeper(R, i))
<1>1. PICK E : Enumerates(E, R) /\ t = [k \in 1..Len(E) |-> E[k][2]]
  BY DEF Tells
<1>2. PICK F : F = [k \in 1..Len(E) |-> Moved(i, E[k])]
  OBVIOUS
<1>3. /\ Enumerates(F, Deeper(R, i)) /\ Len(F) = Len(E)
      /\ \A k \in 1..Len(E) : F[k][2] = E[k][2]
  BY <1>1, <1>2, EnumeratesDeeper
<1>4. PlainOf(First(i, v) \cup Deeper(R, i)) = PlainOf(Deeper(R, i))
  <2>1. \A x \in First(i, v) : x[2] = v
    BY DEF First
  <2> QED BY <2>1 DEF PlainOf
<1>5. Enumerates(F, First(i, v) \cup Deeper(R, i))
  BY <1>3, <1>4 DEF Enumerates
<1>6. t = [k \in 1..Len(F) |-> F[k][2]]
  BY <1>1, <1>3
<1> QED BY <1>5, <1>6 DEF Tells

\* a table whose elements are told
LEMMA TableMeans ==
  ASSUME NEW i \in Places, NEW R, Pathed(R), NEW v, IsTable(v), NEW A, NEW T, NEW d \in Nat,
         d > 0, v[2] \in A, NEW r, Meant(r, R, A, T, d)
  PROVE  Meant(r, First(i, v) \cup Deeper(R, i), A, T, d + 1)
<1> DEFINE S == First(i, v) \cup Deeper(R, i)
<1>1. ASSUME NEW x \in R PROVE Good(Moved(i, x), A, T, d + 1) <=> Good(x, A, T, d)
  <2>1. PICK y : y = Moved(i, x)
    OBVIOUS
  <2>2. y[2] = x[2] /\ Len(y[1]) = Len(x[1]) + 1
    BY <2>1, MovedIs
  <2>3. Len(x[1]) \in Nat
    BY DEF Pathed
  <2>4. Len(y[1]) < d + 1 <=> Len(x[1]) < d
    BY <2>2, <2>3
  <2> QED BY <2>1, <2>2, <2>4 DEF Good
<1>2. \A x \in First(i, v) : Good(x, A, T, d + 1)
  <2>1. PICK x, p : x = <<p, v>> /\ p = <<i>>
    OBVIOUS
  <2>2. x[1] = p /\ x[2] = v /\ First(i, v) = {x} /\ Len(p) = 1
    BY <2>1 DEF First
  <2>3. Good(x, A, T, d + 1)
    BY <2>2 DEF Good
  <2> QED BY <2>2, <2>3
<1>3. Deeper(R, i) = {Moved(i, x) : x \in R}
  BY DEF Deeper, Moved
<1>4. Fits(S, A, T, d + 1) <=> Fits(R, A, T, d)
  <2>1. Fits(S, A, T, d + 1) <=> \A x \in R : Good(Moved(i, x), A, T, d + 1)
    BY <1>2, <1>3 DEF Fits
  <2> QED BY <1>1, <2>1 DEF Fits
<1>5. ASSUME NEW t, Tells(t, R) PROVE Tells(t, S)
  BY <1>5, TellsDeeper
<1> HIDE DEF S
<1>6. Meant(r, S, A, T, d + 1)
  BY <1>4, <1>5 DEF Meant
<1> QED BY <1>6 DEF S

-----------------------------------------------------------------------------
(* The recursions of the code.                                             *)

Told(V) == {BadArgument} \cup {Written(t) : t \in Seq(V)}

LEMMA ThenType ==
  ASSUME NEW V, NEW a \in Told(V), NEW b \in Told(V)
  PROVE  Then(a, b) \in Told(V)
<1>1. BadArgument.ok = FALSE /\ \A u : Written(u).ok = TRUE /\ Written(u).text = u
  BY DEF BadArgument, Written
<1>2. CASE a = BadArgument \/ b = BadArgument
  <2>1. Then(a, b) = a \/ Then(a, b) = b
    BY <1>1, <1>2 DEF Then, Told
  <2> QED BY <2>1
<1>3. CASE a # BadArgument /\ b # BadArgument
  <2>1. PICK s \in Seq(V), t \in Seq(V) : a = Written(s) /\ b = Written(t)
    BY <1>3 DEF Told
  <2>2. Then(a, b) = Written(s \o t)
    BY <1>1, <2>1 DEF Then
  <2>3. s \o t \in Seq(V)
    OBVIOUS
  <2> QED BY <2>2, <2>3 DEF Told
<1> QED BY <1>2, <1>3

LEMMA TextType ==
  ASSUME NEW V, NEW heap, Over(heap, V), NEW tables \in [DOMAIN heap -> Told(V)], NEW types,
         NEW v \in V
  PROVE  TextOf(tables, types, v) \in Told(V)
<1>1. IsTable(v) => v[2] \in DOMAIN heap
  BY DEF Over, IsValue
<1>2. CASE IsTable(v)
  BY <1>1, <1>2 DEF TextOf
<1>3. CASE ~IsTable(v)
  <2>1. <<v>> \in Seq(V)
    OBVIOUS
  <2> QED BY <1>3, <2>1 DEF TextOf, Told
<1> QED BY <1>2, <1>3

\* the texts of the first values of vs
TextsUpTo(upto, tables, types, vs) ==
  /\ upto[0] = Written(<<>>)
  /\ \A i \in 1..Len(vs) : upto[i] = Then(upto[i - 1], TextOf(tables, types, vs[i]))

LEMMA TextsAre ==
  ASSUME NEW V, NEW heap, Over(heap, V), NEW tables \in [DOMAIN heap -> Told(V)], NEW types,
         NEW vs \in Seq(V)
  PROVE  /\ \E upto : /\ TextsUpTo(upto, tables, types, vs)
                      /\ TextOfAll(tables, types, vs) = upto[Len(vs)]
         /\ TextOfAll(tables, types, vs) \in Told(V)
<1> DEFINE N == Len(vs)
           D == Told(V)
           step == [i \in 1..N |-> [x \in D |-> Then(x, TextOf(tables, types, vs[i]))]]
           R(f) == f = [i \in 0..N |-> IF i = 0 THEN Written(<<>>)
                                       ELSE Then(f[i - 1], TextOf(tables, types, vs[i]))]
           g == CHOOSE f : R(f)
<1>1. N \in Nat /\ \A i \in 1..N : vs[i] \in V
  OBVIOUS
<1>2. Written(<<>>) \in D
  <2>1. <<>> \in Seq(V)
    OBVIOUS
  <2> QED BY <2>1 DEF Told
<1>3. \A i \in 1..N : TextOf(tables, types, vs[i]) \in D
  BY <1>1, TextType
<1>4. PICK f : Solves(f, N, D, Written(<<>>), step)
  <2>1. step \in [1..N -> [D -> D]]
    BY <1>3, ThenType
  <2> HIDE DEF step, N, D
  <2> QED BY <1>1, <1>2, <2>1, StepsSolve
<1> HIDE DEF D
<1>5. R(f)
  <2>1. f \in [0..N -> D] /\ f[0] = Written(<<>>) /\ \A i \in 1..N : f[i] = step[i][f[i - 1]]
    BY <1>4 DEF Solves
  <2>2. \A i \in 1..N : f[i - 1] \in D
    <3>1. \A i \in 1..N : i - 1 \in 0..N
      BY <1>1
    <3> QED BY <2>1, <3>1, Zenon
  <2>3. \A i \in 1..N : f[i] = Then(f[i - 1], TextOf(tables, types, vs[i]))
    BY <2>1, <2>2
  <2>4. f = [i \in 0..N |-> f[i]]
    BY <2>1
  <2> HIDE DEF N, step
  <2>5. \A i \in 0..N : f[i] = IF i = 0 THEN Written(<<>>)
                               ELSE Then(f[i - 1], TextOf(tables, types, vs[i]))
    <3>1. \A i \in 0..N : i = 0 \/ i \in 1..N
      BY <1>1
    <3> QED BY <2>1, <2>3, <3>1
  <2> QED BY <2>4, <2>5
<1>6. R(g)
  <2> HIDE DEF R
  <2> QED BY <1>5
<1>7. TextOfAll(tables, types, vs) = g[N]
  BY DEF TextOfAll
<1> HIDE DEF g
<1>8. g[0] = Written(<<>>) /\ \A i \in 1..N : g[i] = Then(g[i - 1], TextOf(tables, types, vs[i]))
  BY <1>1, <1>6
<1> DEFINE S == {i \in 0..N : g[i] \in D}
<1>9. \A i \in 0..N : i \in S
  <2>1. 0 \in S
    BY <1>1, <1>2, <1>8
  <2>2. \A i \in 1..N : i - 1 \in S => i \in S
    <3> SUFFICES ASSUME NEW i \in 1..N, i - 1 \in S PROVE i \in S
      OBVIOUS
    <3>1. PICK a \in D, b \in D : a = g[i - 1] /\ b = TextOf(tables, types, vs[i])
      BY <1>3
    <3>2. g[i] = Then(a, b) /\ i \in 0..N
      BY <1>1, <1>8, <3>1
    <3> QED BY <3>2, ThenType DEF D
  <2> HIDE DEF S, N
  <2> QED BY <1>1, <2>1, <2>2, UpTo
<1>10. g[N] \in D
  BY <1>1, <1>9
<1>11. TextsUpTo(g, tables, types, vs)
  BY <1>8 DEF TextsUpTo
<1> QED BY <1>7, <1>10, <1>11 DEF D

\* the text of every table, for so many levels
TablesUpTo(at, heap, arrays, length, types, levels, V) ==
  \A n \in 0..levels :
    /\ at[n] \in [DOMAIN heap -> Told(V)]
    /\ \A t \in DOMAIN heap :
         at[n][t] = IF n = 0 \/ t \notin arrays THEN BadArgument
                    ELSE TextOfAll(at[n - 1], types, Elements(heap[t], length[t]))

LEMMA TablesAre ==
  ASSUME NEW V, NEW heap, Over(heap, V), NEW w, NEW length, Narrow(w, heap, length),
         NEW arrays, NEW types, NEW levels \in Nat
  PROVE  \E at : /\ TablesUpTo(at, heap, arrays, length, types, levels, V)
                 /\ TextOfTables(heap, arrays, length, types, levels) = at[levels]
<1> DEFINE D == [DOMAIN heap -> Told(V)]
           own(t) == Elements(heap[t], length[t])
           next(x) == [t \in DOMAIN heap |-> IF t \notin arrays THEN BadArgument
                                             ELSE TextOfAll(x, types, own(t))]
           base == [t \in DOMAIN heap |-> BadArgument]
           step == [n \in 1..levels |-> [x \in D |-> next(x)]]
           R(f) == f = [n \in 0..levels |->
                          [t \in DOMAIN heap |->
                             IF n = 0 \/ t \notin arrays THEN BadArgument
                             ELSE TextOfAll(f[n - 1], types, own(t))]]
           g == CHOOSE f : R(f)
<1>1. ASSUME NEW x \in D, NEW t \in DOMAIN heap PROVE TextOfAll(x, types, own(t)) \in Told(V)
  <2>1. length[t] \in Nat
    BY DEF Narrow
  <2>2. own(t) \in Seq(V)
    BY <2>1, ElementsType
  <2> QED BY <2>2, TextsAre
<1>2. BadArgument \in Told(V)
  BY DEF Told
<1>3. base \in D
  BY <1>2
<1>4. step \in [1..levels -> [D -> D]]
  <2>1. \A x \in D : next(x) \in D
    BY <1>1, <1>2
  <2> HIDE DEF next, D
  <2> QED BY <2>1
<1>5. PICK f : Solves(f, levels, D, base, step)
  <2> HIDE DEF D, base, step
  <2> QED BY <1>3, <1>4, StepsSolve
<1>6. f \in [0..levels -> D] /\ f[0] = base /\ \A n \in 1..levels : f[n] = next(f[n - 1])
  <2>1. f \in [0..levels -> D] /\ f[0] = base /\ \A n \in 1..levels : f[n] = step[n][f[n - 1]]
    BY <1>5 DEF Solves
  <2> HIDE DEF D, base, next
  <2>2. \A n \in 1..levels : f[n - 1] \in D
    <3>1. \A n \in 1..levels : n - 1 \in 0..levels
      OBVIOUS
    <3> QED BY <2>1, <3>1, Zenon
  <2> QED BY <2>1, <2>2
<1>7. R(f)
  <2>1. \A n \in 0..levels :
          f[n] = [t \in DOMAIN heap |-> IF n = 0 \/ t \notin arrays THEN BadArgument
                                        ELSE TextOfAll(f[n - 1], types, own(t))]
    <3> SUFFICES ASSUME NEW n \in 0..levels
                 PROVE  f[n] = [t \in DOMAIN heap |-> IF n = 0 \/ t \notin arrays THEN BadArgument
                                                      ELSE TextOfAll(f[n - 1], types, own(t))]
      OBVIOUS
    <3> HIDE DEF own
    <3>1. CASE n = 0
      BY <1>6, <3>1
    <3>2. CASE n # 0
      <4>1. n \in 1..levels
        BY <3>2
      <4>2. f[n] = next(f[n - 1])
        BY <1>6, <4>1
      <4> QED BY <3>2, <4>2
    <3> QED BY <3>1, <3>2
  <2>2. f = [n \in 0..levels |-> f[n]]
    BY <1>6
  <2> HIDE DEF own
  <2> QED BY <2>1, <2>2, Zenon
<1>8. R(g)
  <2> HIDE DEF R
  <2> QED BY <1>7
<1>9. TextOfTables(heap, arrays, length, types, levels) = g[levels]
  BY DEF TextOfTables
<1> HIDE DEF g, own
<1>10. \A n \in 0..levels :
         g[n] = [t \in DOMAIN heap |-> IF n = 0 \/ t \notin arrays THEN BadArgument
                                       ELSE TextOfAll(g[n - 1], types, own(t))]
  BY <1>8
<1> DEFINE S == {n \in 0..levels : g[n] \in D}
<1>11. \A n \in 0..levels : n \in S
  <2>1. 0 \in S
    <3>1. 0 \in 0..levels
      OBVIOUS
    <3>2. g[0] = base
      BY <1>10, <3>1
    <3> QED BY <1>3, <3>1, <3>2
  <2>2. \A n \in 1..levels : n - 1 \in S => n \in S
    <3> SUFFICES ASSUME NEW n \in 1..levels, n - 1 \in S PROVE n \in S
      OBVIOUS
    <3>1. n \in 0..levels /\ n # 0 /\ g[n - 1] \in D
      OBVIOUS
    <3>2. g[n] = next(g[n - 1])
      BY <1>10, <3>1
    <3> QED BY <1>1, <1>2, <3>1, <3>2
  <2> HIDE DEF S
  <2> QED BY <2>1, <2>2, UpTo
<1>12. TablesUpTo(g, heap, arrays, length, types, levels, V)
  <2>1. \A n \in 0..levels : g[n] \in D
    BY <1>11
  <2> QED BY <1>10, <2>1 DEF TablesUpTo, own
<1> QED BY <1>9, <1>12

\* every table has the text of what is reached from it in fewer than n more steps
TablesMean(tables, w, heap, length, A, T, n) ==
  \A t \in DOMAIN heap :
    IF n = 0 \/ t \notin A THEN tables[t] = BadArgument
    ELSE Meant(tables[t], ReachedBy(w, heap, length, Elements(heap[t], length[t]), n), A, T, n)

LEMMA ReachedPathed ==
  ASSUME NEW w \in Nat, NEW heap, NEW length, NEW vs, NEW n \in Nat
  PROVE  Pathed(ReachedBy(w, heap, length, vs, n))
<1> SUFFICES ASSUME NEW x \in ReachedBy(w, heap, length, vs, n)
             PROVE  x = <<x[1], x[2]>> /\ x[1] \in Seq(Places)
  BY DEF Pathed
<1>1. x = <<x[1], At(heap, length, vs, x[1])>> /\ x[1] \in Seq(1..w)
  BY ReachedType
<1>2. x[2] = At(heap, length, vs, x[1])
  BY <1>1
<1>3. x[1] \in Seq(Places)
  BY <1>1, PlacesOf
<1> QED BY <1>1, <1>2, <1>3

LEMMA OneMeans ==
  ASSUME NEW V, NEW heap, Over(heap, V), NEW w, NEW length, Narrow(w, heap, length),
         NEW vs \in Seq(V), Len(vs) <= w, NEW A, NEW T, NEW n \in Nat, NEW tables,
         TablesMean(tables, w, heap, length, A, T, n), NEW i \in 1..Len(vs)
  PROVE  Meant(TextOf(tables, T, vs[i]), Starting(ReachedBy(w, heap, length, vs, n + 1), i), A, T, n + 1)
<1>1. PICK v \in V : v = vs[i]
  OBVIOUS
<1>2. i \in Places /\ n + 1 \in Nat /\ w \in Nat
  BY DEF Places, Narrow
<1>3. PICK S : S = Starting(ReachedBy(w, heap, length, vs, n + 1), i)
  OBVIOUS
<1>4. CASE ~IsTable(v)
  <2>1. S = First(i, v)
    BY <1>1, <1>3, <1>4, StartsPlain
  <2>2. TextOf(tables, T, v) = IF v[1] \in T THEN Written(<<v>>) ELSE BadArgument
    BY <1>4 DEF TextOf
  <2>3. Meant(IF v[1] \in T THEN Written(<<v>>) ELSE BadArgument, First(i, v), A, T, n + 1)
    BY <1>4, PlainMeans
  <2> QED BY <1>1, <1>3, <2>1, <2>2, <2>3
<1>5. CASE IsTable(v)
  <2>1. PICK t \in DOMAIN heap : t = v[2]
    BY <1>5 DEF Over, IsValue
  <2>2. TextOf(tables, T, v) = tables[t]
    BY <1>5, <2>1 DEF TextOf
  <2>3. CASE n = 0 \/ t \notin A
    <3>1. tables[t] = BadArgument
      BY <2>3 DEF TablesMean
    <3>2. First(i, v) \subseteq S
      BY <1>1, <1>3, FirstReached
    <3>3. n + 1 <= 1 \/ v[2] \notin A
      BY <2>1, <2>3
    <3>4. Meant(BadArgument, S, A, T, n + 1)
      BY <1>2, <1>5, <3>2, <3>3, RefusedMeans
    <3> QED BY <1>1, <1>3, <2>2, <3>1, <3>4
  <2>4. CASE ~ (n = 0 \/ t \notin A)
    <3>1. PICK own : own = Elements(heap[t], length[t])
      OBVIOUS
    <3>2. Owns(own, heap, length, vs[i])
      BY <1>1, <1>5, <2>1, <3>1 DEF Owns
    <3>3. PICK R : R = ReachedBy(w, heap, length, own, n)
      OBVIOUS
    <3>4. S = First(i, v) \cup Deeper(R, i)
      BY <1>1, <1>3, <3>2, <3>3, StartsTable
    <3>5. Meant(tables[t], R, A, T, n)
      BY <2>4, <3>1, <3>3 DEF TablesMean
    <3>6. Pathed(R)
      BY <1>2, <3>3, ReachedPathed
    <3>7. n > 0 /\ v[2] \in A
      BY <2>1, <2>4
    <3>8. Meant(tables[t], First(i, v) \cup Deeper(R, i), A, T, n + 1)
      BY <1>2, <1>5, <3>5, <3>6, <3>7, TableMeans
    <3> QED BY <1>1, <1>3, <2>2, <3>4, <3>8
  <2> QED BY <2>3, <2>4
<1> QED BY <1>4, <1>5

\* what is reached by way of the first i values
FirstWays(R, i) == {x \in R : Via(x) <= i}

LEMMA ListMeans ==
  ASSUME NEW V, NEW heap, Over(heap, V), NEW w, NEW length, Narrow(w, heap, length),
         NEW vs \in Seq(V), Len(vs) <= w, NEW A, NEW T, NEW n \in Nat,
         NEW tables \in [DOMAIN heap -> Told(V)],
         TablesMean(tables, w, heap, length, A, T, n)
  PROVE  Meant(TextOfAll(tables, T, vs), ReachedBy(w, heap, length, vs, n + 1), A, T, n + 1)
<1>1. PICK upto : TextsUpTo(upto, tables, T, vs) /\ TextOfAll(tables, T, vs) = upto[Len(vs)]
  BY TextsAre
<1>2. PICK N \in Nat : N = Len(vs)
  OBVIOUS
<1>3. PICK R : R = ReachedBy(w, heap, length, vs, n + 1)
  OBVIOUS
<1>4. \A x \in R : x[1] \in Seq(Places) /\ Len(x[1]) > 0 /\ Via(x) \in 1..N
  <2> SUFFICES ASSUME NEW x \in R PROVE x[1] \in Seq(Places) /\ Len(x[1]) > 0 /\ Via(x) \in 1..N
    OBVIOUS
  <2>1. w \in Nat /\ n + 1 \in Nat
    BY DEF Narrow
  <2>2. x[1] \in Seq(1..w) /\ Len(x[1]) \in 1..n + 1 /\ Via(x) \in DOMAIN vs
    BY <1>3, <2>1, ReachedType
  <2>3. x[1] \in Seq(Places)
    BY <2>1, <2>2, PlacesOf
  <2>4. Len(x[1]) > 0
    BY <2>1, <2>2
  <2> QED BY <1>2, <2>2, <2>3, <2>4
<1>5. ASSUME NEW x \in R, NEW y \in R, Via(x) < Via(y) PROVE PathBefore(x[1], y[1])
  <2>1. PICK p \in Seq(Places), q \in Seq(Places) : p = x[1] /\ q = y[1]
    BY <1>4
  <2>2. 1 \in DOMAIN p \cap DOMAIN q
    BY <1>4, <2>1
  <2>3. p[1] < q[1]
    BY <1>5, <2>1 DEF Via
  <2>4. \A j \in 1 .. 1 - 1 : p[j] = q[j]
    OBVIOUS
  <2>5. PathBefore(p, q)
    BY <2>2, <2>3, <2>4 DEF PathBefore
  <2> QED BY <2>1, <2>5
<1> DEFINE S == {i \in 0..N : Meant(upto[i], FirstWays(R, i), A, T, n + 1)}
<1>6. 0 \in S
  <2>1. FirstWays(R, 0) = {}
    BY <1>4 DEF FirstWays
  <2>2. upto[0] = Written(<<>>)
    BY <1>1 DEF TextsUpTo
  <2>3. Meant(upto[0], FirstWays(R, 0), A, T, n + 1)
    BY <2>1, <2>2, NothingMeans
  <2> QED BY <2>3
<1>7. \A i \in 1..N : i - 1 \in S => i \in S
  <2> SUFFICES ASSUME NEW i \in 1..N, i - 1 \in S PROVE i \in S
    OBVIOUS
  <2>1. PICK P, Q, a, b : /\ P = FirstWays(R, i - 1) /\ Q = Starting(R, i)
                          /\ a = upto[i - 1] /\ b = TextOf(tables, T, vs[i])
    OBVIOUS
  <2>2. Meant(a, P, A, T, n + 1)
    BY <2>1
  <2>3. Meant(b, Q, A, T, n + 1)
    BY <1>2, <1>3, <2>1, OneMeans
  <2>4. AllBefore(P, Q)
    <3> SUFFICES ASSUME NEW x \in P, NEW y \in Q PROVE PathBefore(x[1], y[1])
      BY DEF AllBefore
    <3>1. x \in R /\ y \in R /\ Via(x) <= i - 1 /\ Via(y) = i
      BY <2>1 DEF FirstWays, Starting
    <3>2. Via(x) < Via(y)
      BY <1>4, <3>1
    <3> QED BY <1>5, <3>1, <3>2
  <2>5. FirstWays(R, i) = P \cup Q
    <3>1. \A x \in R : Via(x) <= i <=> Via(x) <= i - 1 \/ Via(x) = i
      BY <1>4
    <3> QED BY <2>1, <3>1 DEF FirstWays, Starting
  <2>6. upto[i] = Then(a, b)
    BY <1>1, <1>2, <2>1 DEF TextsUpTo
  <2>7. Meant(Then(a, b), P \cup Q, A, T, n + 1)
    BY <2>2, <2>3, <2>4, ThenMeans
  <2>8. Meant(upto[i], FirstWays(R, i), A, T, n + 1)
    BY <2>5, <2>6, <2>7
  <2> QED BY <2>8
<1>8. Meant(upto[N], FirstWays(R, N), A, T, n + 1)
  <2>1. N \in 0..N
    OBVIOUS
  <2>2. N \in S
    <3> HIDE DEF S
    <3> QED BY <1>6, <1>7, <2>1, UpTo
  <2> QED BY <2>2
<1>9. FirstWays(R, N) = R
  BY <1>4 DEF FirstWays
<1> QED BY <1>1, <1>2, <1>3, <1>8, <1>9

\* the text of a table says what is reached from it
LEMMA TablesTell ==
  ASSUME NEW V, NEW heap, Over(heap, V), NEW w, NEW length, Narrow(w, heap, length),
         NEW A, NEW T, NEW levels \in Nat, NEW tables,
         tables = TextOfTables(heap, A, length, T, levels)
  PROVE  /\ tables \in [DOMAIN heap -> Told(V)]
         /\ TablesMean(tables, w, heap, length, A, T, levels)
<1>1. PICK at : TablesUpTo(at, heap, A, length, T, levels, V) /\ tables = at[levels]
  BY TablesAre
<1> DEFINE S == {n \in 0..levels : TablesMean(at[n], w, heap, length, A, T, n)}
<1>2. ASSUME NEW n \in 0..levels, NEW t \in DOMAIN heap
      PROVE  at[n][t] = IF n = 0 \/ t \notin A THEN BadArgument
                        ELSE TextOfAll(at[n - 1], T, Elements(heap[t], length[t]))
  BY <1>1 DEF TablesUpTo
<1>3. 0 \in S
  <2>1. 0 \in 0..levels
    OBVIOUS
  <2>2. \A t \in DOMAIN heap : at[0][t] = BadArgument
    BY <1>2, <2>1
  <2>3. TablesMean(at[0], w, heap, length, A, T, 0)
    BY <2>2 DEF TablesMean
  <2> QED BY <2>1, <2>3
<1>4. \A n \in 1..levels : n - 1 \in S => n \in S
  <2> SUFFICES ASSUME NEW n \in 1..levels, n - 1 \in S PROVE n \in S
    OBVIOUS
  <2>1. PICK m \in Nat : n = m + 1 /\ m = n - 1 /\ m \in 0..levels /\ n \in 0..levels /\ n # 0
    <3>1. n - 1 \in Nat /\ n = n - 1 + 1 /\ n - 1 \in 0..levels /\ n \in 0..levels /\ n # 0
      OBVIOUS
    <3> QED BY <3>1
  <2>2. PICK before : before = at[m]
    OBVIOUS
  <2>3. TablesMean(before, w, heap, length, A, T, m) /\ before \in [DOMAIN heap -> Told(V)]
    <3>1. at[m] \in [DOMAIN heap -> Told(V)]
      BY <1>1, <2>1 DEF TablesUpTo
    <3> QED BY <2>1, <2>2, <3>1
  <2>4. ASSUME NEW t \in DOMAIN heap, t \in A
        PROVE  Meant(at[n][t], ReachedBy(w, heap, length, Elements(heap[t], length[t]), n), A, T, n)
    <3>1. PICK own : own = Elements(heap[t], length[t])
      OBVIOUS
    <3>2. own \in Seq(V) /\ Len(own) <= w
      <4>1. length[t] \in Nat /\ length[t] <= w
        BY DEF Narrow
      <4> QED BY <3>1, <4>1, ElementsType
    <3>3. at[n][t] = TextOfAll(before, T, own)
      BY <1>2, <2>1, <2>2, <2>4, <3>1
    <3>4. Meant(TextOfAll(before, T, own), ReachedBy(w, heap, length, own, m + 1), A, T, m + 1)
      BY <2>3, <3>2, ListMeans
    <3> QED BY <2>1, <3>1, <3>3, <3>4
  <2>5. \A t \in DOMAIN heap : t \notin A => at[n][t] = BadArgument
    BY <1>2, <2>1
  <2>6. TablesMean(at[n], w, heap, length, A, T, n)
    BY <2>1, <2>4, <2>5 DEF TablesMean
  <2> QED BY <2>1, <2>6
<1>5. levels \in 0..levels
  OBVIOUS
<1>6. levels \in S
  <2> HIDE DEF S
  <2> QED BY <1>3, <1>4, <1>5, UpTo
<1>7. at[levels] \in [DOMAIN heap -> Told(V)]
  BY <1>1, <1>5 DEF TablesUpTo
<1> QED BY <1>1, <1>6, <1>7

-----------------------------------------------------------------------------
(* Leaves in order.                                                        *)

LEMMA ListCounted ==
  ASSUME NEW k \in Nat, NEW S, NEW f \in [1..k -> S], \A x \in S : \E m \in 1..k : f[m] = x,
         \A m, j \in 1..k : m < j => f[m] # f[j]
  PROVE  Cardinality(S) = k
<1>1. \A m, j \in 1..k : f[m] = f[j] => m = j
  OBVIOUS
<1>2. f \in Bijection(1..k, S)
  BY <1>1 DEF Bijection, Injection, Surjection, IsInjective
<1>3. ExistsBijection(1..k, S)
  BY <1>2 DEF ExistsBijection
<1> QED BY <1>3, FS_CountingElements

LEMMA BeforeOneWay ==
  ASSUME NEW p \in Seq(Places), NEW q \in Seq(Places), PathBefore(p, q)
  PROVE  ~PathBefore(q, p) /\ p # q
<1>1. PICK k : /\ k \in DOMAIN p \cap DOMAIN q /\ p[k] < q[k]
               /\ \A j \in 1 .. k - 1 : p[j] = q[j]
  BY DEF PathBefore
<1>2. k \in Nat /\ k > 0 /\ p[k] \in Nat /\ q[k] \in Nat /\ p[k] < q[k]
  BY <1>1 DEF Places
<1>3. p # q
  BY <1>2
<1>4. ASSUME PathBefore(q, p) PROVE FALSE
  <2>1. PICK j : /\ j \in DOMAIN q \cap DOMAIN p /\ q[j] < p[j]
                 /\ \A h \in 1 .. j - 1 : q[h] = p[h]
    BY <1>4 DEF PathBefore
  <2>2. j \in Nat /\ j > 0 /\ p[j] \in Nat /\ q[j] \in Nat /\ q[j] < p[j]
    BY <2>1 DEF Places
  <2>3. CASE k < j
    <3>1. k \in 1 .. j - 1
      BY <1>2, <2>2, <2>3
    <3>2. q[k] = p[k]
      BY <2>1, <3>1
    <3> QED BY <1>2, <3>2
  <2>4. CASE j < k
    <3>1. j \in 1 .. k - 1
      BY <1>2, <2>2, <2>4
    <3>2. p[j] = q[j]
      BY <1>1, <3>1
    <3> QED BY <2>2, <3>2
  <2>5. CASE j = k
    BY <1>2, <2>2, <2>5
  <2> QED BY <1>2, <2>2, <2>3, <2>4, <2>5
<1> QED BY <1>3, <1>4

\* P lists the paths of leaf, each before the next ones
LEMMA SortedIs ==
  ASSUME NEW leaf, NEW N \in Nat, NEW P \in [1..N -> leaf], leaf \subseteq Seq(Places),
         \A x \in leaf : \E m \in 1..N : P[m] = x,
         \A m, j \in 1..N : m < j => PathBefore(P[m], P[j])
  PROVE  InOrder(leaf, PathBefore) = P
<1> DEFINE Below(x) == {y \in leaf : PathBefore(y, x)}
           First_n(n) == {P[m] : m \in 1 .. n - 1}
<1>1. \A m \in 1..N : P[m] \in leaf /\ P[m] \in Seq(Places)
  OBVIOUS
<1>2. \A m, j \in 1..N : m < j => P[m] # P[j] /\ ~PathBefore(P[j], P[m])
  BY <1>1, BeforeOneWay
<1>3. Cardinality(leaf) = N
  BY <1>2, ListCounted
<1>4. ASSUME NEW n \in 1..N PROVE Cardinality(Below(P[n])) = n - 1
  <2>1. \A m \in 1..N : PathBefore(P[m], P[n]) <=> m < n
    <3> SUFFICES ASSUME NEW m \in 1..N PROVE PathBefore(P[m], P[n]) <=> m < n
      OBVIOUS
    <3>1. CASE m < n
      BY <3>1
    <3>2. CASE n < m
      BY <1>2, <3>2
    <3>3. CASE m = n
      <4>1. PathBefore(P[n], P[n]) => P[n] # P[n]
        BY <1>1, BeforeOneWay
      <4> QED BY <3>3, <4>1
    <3> QED BY <3>1, <3>2, <3>3
  <2>2. Below(P[n]) = First_n(n)
    <3>1. ASSUME NEW y \in leaf, PathBefore(y, P[n]) PROVE y \in First_n(n)
      <4>1. PICK m \in 1..N : P[m] = y
        OBVIOUS
      <4>2. m \in 1 .. n - 1
        BY <2>1, <3>1, <4>1
      <4> QED BY <4>1, <4>2
    <3>2. ASSUME NEW m \in 1 .. n - 1 PROVE P[m] \in leaf /\ PathBefore(P[m], P[n])
      <4>1. m \in 1..N /\ m < n
        OBVIOUS
      <4> QED BY <1>1, <2>1, <4>1
    <3> QED BY <3>1, <3>2
  <2>3. PICK k \in Nat : k = n - 1 /\ \A m \in 1..k : m \in 1..N
    <3>1. n - 1 \in Nat /\ \A m \in 1 .. n - 1 : m \in 1..N
      OBVIOUS
    <3> QED BY <3>1
  <2>4. PICK S, f : S = First_n(n) /\ f = [m \in 1..k |-> P[m]]
    OBVIOUS
  <2>5. f \in [1..k -> S] /\ \A x \in S : \E m \in 1..k : f[m] = x
    BY <2>3, <2>4
  <2>6. \A m, j \in 1..k : m < j => f[m] # f[j]
    BY <1>2, <2>3, <2>4
  <2>7. Cardinality(S) = k
    BY <2>5, <2>6, ListCounted
  <2> QED BY <2>2, <2>3, <2>4, <2>7
<1>5. ASSUME NEW n \in 1..N
      PROVE  (CHOOSE x \in leaf : Cardinality({y \in leaf : PathBefore(y, x)}) = n - 1) = P[n]
  <2> DEFINE c == CHOOSE x \in leaf : Cardinality(Below(x)) = n - 1
  <2>1. P[n] \in leaf /\ Cardinality(Below(P[n])) = n - 1
    BY <1>1, <1>4
  <2>2. c \in leaf /\ Cardinality(Below(c)) = n - 1
    <3> HIDE DEF Below
    <3> QED BY <2>1
  <2> HIDE DEF c
  <2>3. PICK m \in 1..N : P[m] = c
    BY <2>2
  <2>4. Cardinality(Below(c)) = m - 1
    BY <1>4, <2>3
  <2>5. m = n
    <3>1. m - 1 = n - 1
      BY <2>2, <2>4
    <3> QED BY <3>1
  <2>6. c = P[n]
    BY <2>3, <2>5
  <2> QED BY <2>6 DEF c
<1>6. InOrder(leaf, PathBefore)
        = [n \in 1..N |-> CHOOSE x \in leaf : Cardinality({y \in leaf : PathBefore(y, x)}) = n - 1]
  BY <1>3 DEF InOrder
<1>7. P = [n \in 1..N |-> P[n]]
  OBVIOUS
<1> QED BY <1>5, <1>6, <1>7

LEMMA LeavesTold ==
  ASSUME NEW heap, NEW length, NEW args, NEW n \in Nat, NEW w \in Nat, w = Width(length, args),
         NEW t, Tells(t, ReachedBy(w, heap, length, args, n))
  PROVE  LeavesBelow(heap, length, args, n) = t
<1> DEFINE leaf == {p \in Paths(heap, length, args, n) : ~IsTable(At(heap, length, args, p))}
<1>1. PICK R : R = ReachedBy(w, heap, length, args, n)
  OBVIOUS
<1>2. Paths(heap, length, args, n) = PathsIn(w, heap, length, args, n)
  BY DEF Paths, PathsIn
<1>3. PICK E : Enumerates(E, R) /\ t = [k \in 1..Len(E) |-> E[k][2]]
  BY <1>1 DEF Tells
<1>4. E \in Seq(PlainOf(R))
  BY <1>3 DEF Enumerates
<1>5. PICK N \in Nat : N = Len(E)
  BY <1>4
<1>6. \A x \in R : x[1] \in PathsIn(w, heap, length, args, n) /\ x[2] = At(heap, length, args, x[1])
  BY <1>1 DEF ReachedBy
<1>7. \A x \in PlainOf(R) : x[1] \in leaf /\ x[2] = At(heap, length, args, x[1])
  BY <1>2, <1>6 DEF PlainOf
<1>8. \A p \in leaf : \E x \in PlainOf(R) : x[1] = p
  <2> SUFFICES ASSUME NEW p \in leaf PROVE \E x \in PlainOf(R) : x[1] = p
    OBVIOUS
  <2>1. PICK x : x = <<p, At(heap, length, args, p)>>
    OBVIOUS
  <2>2. x \in R /\ x[1] = p /\ ~IsTable(x[2])
    BY <1>1, <1>2, <2>1 DEF ReachedBy
  <2> QED BY <2>2 DEF PlainOf
<1>9. leaf \subseteq Seq(Places)
  <2>1. \A p \in PathsIn(w, heap, length, args, n) : p \in Seq(Places)
    BY PathsAre, PlacesOf
  <2> QED BY <1>2, <2>1
<1> HIDE DEF leaf
<1>10. PICK P : P = [k \in 1..N |-> E[k][1]]
  OBVIOUS
<1>11. P \in [1..N -> leaf]
  <2>1. \A k \in 1..N : E[k] \in PlainOf(R)
    BY <1>4, <1>5
  <2> QED BY <1>7, <1>10, <2>1
<1>12. \A p \in leaf : \E m \in 1..N : P[m] = p
  <2> SUFFICES ASSUME NEW p \in leaf PROVE \E m \in 1..N : P[m] = p
    OBVIOUS
  <2>1. PICK x \in PlainOf(R) : x[1] = p
    BY <1>8
  <2>2. PICK m \in 1..N : E[m] = x
    BY <1>3, <1>5 DEF Enumerates
  <2> QED BY <1>10, <2>1, <2>2
<1>13. \A m, j \in 1..N : m < j => PathBefore(P[m], P[j])
  <2>1. \A m, j \in 1..N : m < j => PathBefore(E[m][1], E[j][1])
    BY <1>3, <1>5 DEF Enumerates
  <2>2. \A m \in 1..N : P[m] = E[m][1]
    BY <1>10
  <2> QED BY <2>1, <2>2
<1>14. InOrder(leaf, PathBefore) = P
  BY <1>9, <1>11, <1>12, <1>13, SortedIs
<1>15. LeavesBelow(heap, length, args, n) = [k \in DOMAIN P |-> At(heap, length, args, P[k])]
  BY <1>14 DEF LeavesBelow, leaf
<1>16. \A k \in 1..N : At(heap, length, args, P[k]) = E[k][2]
  <2> SUFFICES ASSUME NEW k \in 1..N PROVE At(heap, length, args, P[k]) = E[k][2]
    OBVIOUS
  <2>1. E[k] \in PlainOf(R) /\ P[k] = E[k][1]
    BY <1>4, <1>5, <1>10
  <2> QED BY <1>7, <2>1
<1>17. DOMAIN P = 1..N
  BY <1>10
<1> QED BY <1>3, <1>5, <1>15, <1>16, <1>17

-----------------------------------------------------------------------------
(* How long tables are.                                                    *)

LEMMA FiniteBound ==
  ASSUME NEW S, IsFiniteSet(S), S \subseteq Nat
  PROVE  \E b \in Nat : \A x \in S : x <= b
<1>1. PICK n \in Nat : ExistsSurjection(1..n, S)
  BY FS_NatSurjection
<1>2. PICK f : f \in [1..n -> S] /\ \A x \in S : \E m \in 1..n : f[m] = x
  BY <1>1 DEF ExistsSurjection, Surjection
<1> DEFINE H == {k \in 0..n : \E b \in Nat : \A m \in 1..k : f[m] <= b}
<1>3. 0 \in H
  <2>1. 0 \in Nat /\ \A m \in 1..0 : f[m] <= 0
    OBVIOUS
  <2> QED BY <2>1
<1>4. \A k \in 1..n : k - 1 \in H => k \in H
  <2> SUFFICES ASSUME NEW k \in 1..n, k - 1 \in H PROVE \E b \in Nat : \A m \in 1..k : f[m] <= b
    OBVIOUS
  <2>1. PICK b \in Nat : \A m \in 1 .. k - 1 : f[m] <= b
    OBVIOUS
  <2>2. PICK c \in Nat : c = f[k]
    BY <1>2
  <2>3. PICK d \in Nat : d >= b /\ d >= c
    <3>1. b + c \in Nat /\ b + c >= b /\ b + c >= c
      OBVIOUS
    <3> QED BY <3>1
  <2>4. \A m \in 1..k : f[m] <= d
    <3> SUFFICES ASSUME NEW m \in 1..k PROVE f[m] <= d
      OBVIOUS
    <3>1. f[m] \in Nat
      <4>1. m \in 1..n
        OBVIOUS
      <4> QED BY <1>2, <4>1
    <3>2. CASE m = k
      BY <2>2, <2>3, <3>2
    <3>3. CASE m # k
      <4>1. m \in 1 .. k - 1
        BY <3>3
      <4> QED BY <2>1, <2>3, <3>1, <4>1
    <3> QED BY <3>2, <3>3
  <2> QED BY <2>4
<1>5. n \in H
  <2>1. n \in 0..n
    OBVIOUS
  <2> HIDE DEF H
  <2> QED BY <1>3, <1>4, <2>1, UpTo
<1>6. PICK b \in Nat : \A m \in 1..n : f[m] <= b
  BY <1>5
<1> QED BY <1>2, <1>6

LEMMA MaxIs ==
  ASSUME NEW S, IsFiniteSet(S), S \subseteq Nat, S # {}
  PROVE  Max(S) \in S /\ \A y \in S : y <= Max(S)
<1> DEFINE T == {b \in Nat : \A x \in S : x <= b}
<1>1. T \subseteq Nat /\ T # {}
  BY FiniteBound
<1>2. PICK b \in T : \A c \in T : b <= c
  <2> HIDE DEF T
  <2> QED BY <1>1, LeastNumber
<1>3. b \in S
  <2> SUFFICES ASSUME b \notin S PROVE FALSE
    OBVIOUS
  <2>1. \A x \in S : x \in Nat /\ x < b
    BY <1>2
  <2>2. b > 0
    <3>1. PICK x \in S : x \in Nat /\ x < b
      BY <2>1
    <3> QED BY <1>2, <3>1
  <2>3. PICK c \in Nat : c = b - 1
    BY <1>2, <2>2
  <2>4. c \in T
    BY <1>2, <2>1, <2>3
  <2> QED BY <1>2, <2>3, <2>4
<1>4. b \in S /\ \A y \in S : b >= y
  BY <1>2, <1>3
<1>5. Max(S) \in S /\ \A y \in S : Max(S) >= y
  BY <1>4 DEF Max
<1> QED BY <1>5

LEMMA MaxKeyIs ==
  ASSUME NEW t, IsFiniteSet(DOMAIN t), DOMAIN t \subseteq Nat
  PROVE  MaxKey(t) \in Nat /\ MaxKey(t) = Extent(t)
<1> DEFINE D == DOMAIN t
           E == D \ {OtherKey}
<1>1. OtherKey = 0
  BY DEF OtherKey
<1>2. CASE E = {}
  <2>1. Extent(t) = 0
    BY <1>2 DEF Extent
  <2>2. CASE D = {}
    BY <2>1, <2>2 DEF MaxKey
  <2>3. CASE D # {}
    <3>1. D = {0}
      BY <1>1, <1>2, <2>3
    <3>2. MaxKey(t) = CHOOSE n \in {0} : \A m \in {0} : m <= n
      BY <3>1 DEF MaxKey
    <3>3. MaxKey(t) = 0
      BY <3>2
    <3> QED BY <2>1, <3>3
  <2> QED BY <2>2, <2>3
<1>3. CASE E # {}
  <2>1. IsFiniteSet(E) /\ E \subseteq Nat
    BY FS_Difference
  <2>2. PICK M : M = Max(E)
    OBVIOUS
  <2>3. M \in E /\ \A y \in E : y <= M
    <3> HIDE DEF E
    <3> QED BY <1>3, <2>1, <2>2, MaxIs
  <2>4. M \in D /\ M \in Nat /\ M # 0 /\ \A m \in D : m \in Nat /\ m <= M
    BY <1>1, <2>3
  <2>5. PICK c : c = MaxKey(t) /\ c = CHOOSE n \in D : \A m \in D : m <= n
    BY <2>4 DEF MaxKey
  <2>6. c \in D /\ \A m \in D : m <= c
    <3> HIDE DEF D, E
    <3> QED BY <2>4, <2>5
  <2>7. c = M
    BY <2>4, <2>6
  <2>8. Extent(t) = M
    BY <1>3, <2>2 DEF Extent
  <2> QED BY <2>4, <2>5, <2>7, <2>8
<1> QED BY <1>2, <1>3

\* lists and tables are no longer than the width
LEMMA WidthIs ==
  ASSUME NEW heap, IsFiniteSet(DOMAIN heap), NEW length \in [DOMAIN heap -> Nat],
         NEW V, NEW args \in Seq(V), NEW w, w = Width(length, args)
  PROVE  Narrow(w, heap, length) /\ Len(args) <= w
<1> DEFINE L == {length[t] : t \in DOMAIN heap}
           S == {Len(args)} \cup L
<1>1. length \in Surjection(DOMAIN heap, L)
  BY DEF Surjection
<1>2. IsFiniteSet(L)
  BY <1>1, FS_Surjection
<1>3. IsFiniteSet(L \cup {Len(args)})
  BY <1>2, FS_AddElement
<1>4. S = L \cup {Len(args)} /\ S \subseteq Nat /\ S # {}
  OBVIOUS
<1>5. w = Max(S)
  BY DEF Width
<1>6. w \in S /\ \A y \in S : y <= w
  <2> HIDE DEF S, L
  <2> QED BY <1>3, <1>4, <1>5, MaxIs
<1>7. Len(args) \in S /\ \A t \in DOMAIN heap : length[t] \in S
  OBVIOUS
<1>8. w \in Nat
  BY <1>4, <1>6
<1> HIDE DEF S, L
<1>9. Len(args) <= w /\ \A t \in DOMAIN heap : length[t] <= w
  BY <1>6, <1>7
<1> QED BY <1>8, <1>9 DEF Narrow

-----------------------------------------------------------------------------
(* Where paths lead to.                                                    *)

LEMMA AtType ==
  ASSUME NEW V, NEW heap, Over(heap, V), NEW length, NEW vs, NEW p \in Seq(Places),
         Len(p) > 0, vs[p[1]] \in V
  PROVE  /\ At(heap, length, vs, p) \in V \cup {NoValue}
         /\ \A N \in Nat : \A rank \in [DOMAIN heap -> 1..N] :
              Ranks(heap, rank) /\ IsTable(At(heap, length, vs, p)) => Len(p) <= N
<1>1. PICK a : Trail(a, heap, length, vs, p) /\ At(heap, length, vs, p) = a[Len(p)]
  BY AtIs
<1>2. PICK M \in Nat : M + 1 = Len(p)
  <2>1. Len(p) - 1 \in Nat /\ Len(p) - 1 + 1 = Len(p)
    OBVIOUS
  <2> QED BY <2>1
<1>3. a[1] = vs[p[1]] /\ \A k \in 1..M : a[k + 1] = Onward(heap, length, a[k], p[k + 1])
  <2>1. \A k \in 1..M : k + 1 \in 2..M + 1 /\ k + 1 - 1 = k
    OBVIOUS
  <2>2. \A k \in 2..M + 1 : a[k] = Onward(heap, length, a[k - 1], p[k])
    BY <1>1, <1>2 DEF Trail
  <2>3. a[1] = vs[p[1]]
    BY <1>1 DEF Trail
  <2> SUFFICES ASSUME NEW k \in 1..M PROVE a[k + 1] = Onward(heap, length, a[k], p[k + 1])
    BY <2>3
  <2>4. PICK j \in 2..M + 1 : j = k + 1 /\ j - 1 = k
    BY <2>1
  <2> QED BY <2>2, <2>4
<1> DEFINE H == {k \in 0..M : a[k + 1] \in V \cup {NoValue}}
<1>4. \A k \in 0..M : k \in H
  <2>1. 0 \in H
    <3>1. 0 + 1 = 1 /\ 0 \in 0..M
      OBVIOUS
    <3> QED BY <1>3, <3>1
  <2>2. \A k \in 1..M : k - 1 \in H => k \in H
    <3> SUFFICES ASSUME NEW k \in 1..M, k - 1 \in H PROVE k \in H
      OBVIOUS
    <3>1. PICK v \in V \cup {NoValue} : v = a[k]
      <4>1. k - 1 + 1 = k
        OBVIOUS
      <4> QED BY <4>1
    <3>2. a[k + 1] = Onward(heap, length, v, p[k + 1])
      BY <1>3, <3>1
    <3>3. a[k + 1] \in V \cup {NoValue}
      BY <3>2, OnwardType
    <3>4. k \in 0..M
      OBVIOUS
    <3> QED BY <3>3, <3>4
  <2> HIDE DEF H
  <2> QED BY <2>1, <2>2, UpTo
<1>5. \A k \in 0..M : a[k + 1] \in V \cup {NoValue}
  BY <1>4
<1>6. a[M + 1] \in V \cup {NoValue}
  <2>1. M \in 0..M
    OBVIOUS
  <2> QED BY <1>5, <2>1
<1>7. ASSUME NEW N \in Nat, NEW rank \in [DOMAIN heap -> 1..N], Ranks(heap, rank),
             IsTable(a[M + 1])
      PROVE  M + 1 <= N
  <2>1. ASSUME NEW k \in 0..M, IsTable(a[k + 1])
        PROVE  a[k + 1][2] \in DOMAIN heap /\ rank[a[k + 1][2]] \in 1..N
    <3>1. a[k + 1] \in V
      BY <1>5, <2>1, NoValueIsNoTable
    <3> QED BY <2>1, <3>1 DEF Over, IsValue
  <2> DEFINE G == {k \in 0..M : IsTable(a[k + 1]) => rank[a[k + 1][2]] + k <= N}
  <2>2. 0 \in G
    <3>1. 0 \in 0..M
      OBVIOUS
    <3>2. IsTable(a[0 + 1]) => rank[a[0 + 1][2]] \in 1..N
      BY <2>1, <3>1
    <3> QED BY <3>1, <3>2
  <2>3. \A k \in 1..M : k - 1 \in G => k \in G
    <3> SUFFICES ASSUME NEW k \in 1..M, k - 1 \in G, IsTable(a[k + 1])
                 PROVE  rank[a[k + 1][2]] + k <= N
      OBVIOUS
    <3>1. PICK v, x, i : v = a[k] /\ x = a[k + 1] /\ i = p[k + 1]
      OBVIOUS
    <3>2. k - 1 \in 0..M /\ k - 1 + 1 = k /\ k \in 0..M
      OBVIOUS
    <3>3. x = Onward(heap, length, v, i)
      BY <1>3, <3>1
    <3>4. IsTable(v) /\ x = Element(heap[v[2]], i)
      BY <3>1, <3>3, NoValueIsNoTable DEF Onward
    <3>5. v[2] \in DOMAIN heap /\ rank[v[2]] \in 1..N /\ rank[v[2]] + (k - 1) <= N
      BY <2>1, <3>1, <3>2, <3>4
    <3>6. i \in DOMAIN heap[v[2]] /\ x = heap[v[2]][i]
      <4>1. ~IsTable(NilValue)
        BY DEF IsTable, NilValue
      <4> QED BY <3>1, <3>4, <4>1 DEF Element
    <3>7. rank[x[2]] < rank[v[2]]
      <4>1. IsTable(x)
        BY <3>1
      <4> QED BY <1>7, <3>5, <3>6, <4>1 DEF Ranks
    <3>8. rank[x[2]] \in 1..N
      BY <2>1, <3>1, <3>2
    <3>9. rank[x[2]] + k <= N
      BY <3>5, <3>7, <3>8
    <3> QED BY <3>1, <3>9
  <2>4. M \in 0..M
    OBVIOUS
  <2>5. M \in G
    <3> HIDE DEF G
    <3> QED BY <2>2, <2>3, <2>4, UpTo
  <2>6. rank[a[M + 1][2]] + M <= N /\ rank[a[M + 1][2]] \in 1..N
    BY <1>7, <2>1, <2>4, <2>5
  <2> QED BY <2>6
<1> QED BY <1>1, <1>2, <1>6, <1>7

\* every value that is reached is one
LEMMA ReachedValues ==
  ASSUME NEW V, NEW heap, Over(heap, V), NEW w, NEW length, Narrow(w, heap, length),
         NEW vs \in Seq(V), NEW n \in Nat, NEW x \in ReachedBy(w, heap, length, vs, n)
  PROVE  /\ x[2] \in V /\ (IsTable(x[2]) => x[2][2] \in DOMAIN heap)
         /\ \A N \in Nat : \A rank \in [DOMAIN heap -> 1..N] :
              Ranks(heap, rank) /\ IsTable(x[2]) => Len(x[1]) <= N
<1>1. w \in Nat
  BY DEF Narrow
<1>2. PICK p : p = x[1]
  OBVIOUS
<1>3. /\ x = <<p, At(heap, length, vs, p)>> /\ p \in PathsIn(w, heap, length, vs, n)
      /\ p \in Seq(1..w) /\ Len(p) \in 1..n /\ p[1] \in DOMAIN vs
  BY <1>1, <1>2, ReachedType DEF Via
<1>4. p \in Seq(Places) /\ Len(p) > 0 /\ vs[p[1]] \in V
  BY <1>1, <1>3, PlacesOf
<1>5. PICK v : v = At(heap, length, vs, p) /\ v = x[2]
  BY <1>3
<1>6. v \in V \cup {NoValue}
  BY <1>4, <1>5, AtType
<1>7. Found(v)
  BY <1>1, <1>3, <1>5, PathsAre
<1>8. v \in V
  BY <1>6, <1>7, NoneFound
<1>9. IsTable(v) => v[2] \in DOMAIN heap
  BY <1>8 DEF Over, IsValue
<1>10. \A N \in Nat : \A rank \in [DOMAIN heap -> 1..N] :
         Ranks(heap, rank) /\ IsTable(v) => Len(p) <= N
  BY <1>4, <1>5, AtType
<1> QED BY <1>2, <1>5, <1>8, <1>9, <1>10

\* the values of a heap and of a list
ValuesOf(heap, args) ==
  {NilValue} \cup {args[i] : i \in DOMAIN args}
    \cup UNION {{heap[t][i] : i \in DOMAIN heap[t]} : t \in DOMAIN heap}

LEMMA ValuesAre ==
  ASSUME NEW heap, IsHeap(heap), NEW args, \A i \in DOMAIN args : IsValue(heap, args[i]),
         NEW V, V = ValuesOf(heap, args)
  PROVE  Over(heap, V)
<1>1. \A v \in V : \/ v = NilValue
                   \/ \E i \in DOMAIN args : v = args[i]
                   \/ \E t \in DOMAIN heap : \E i \in DOMAIN heap[t] : v = heap[t][i]
  BY DEF ValuesOf
<1>2. IsValue(heap, NilValue)
  BY DEF IsValue, NilValue, Found, IsTable
<1>3. \A v \in V : IsValue(heap, v)
  BY <1>1, <1>2 DEF IsHeap
<1>4. ~IsValue(heap, NoValue)
  BY NoneFound DEF IsValue
<1>5. NilValue \in V /\ \A t \in DOMAIN heap : \A i \in DOMAIN heap[t] : heap[t][i] \in V
  BY DEF ValuesOf
<1> QED BY <1>3, <1>4, <1>5 DEF Over

-----------------------------------------------------------------------------
(* say and print write all of their arguments.                             *)

LEMMA SayIsWhole ==
  ASSUME NEW o \in Outputs, NEW answer, answer = Output(o.heap, o.args, o.newline),
         NEW length, length = [t \in DOMAIN o.heap |-> Extent(o.heap[t])],
         NEW depth \in Nat, depth = MaxTableDepth + 2,
         NEW R, R = ReachedBy(Width(length, o.args), o.heap, length, o.args, depth)
  PROVE  /\ answer.ok <=> \A x \in R : IF IsTable(x[2])
                                       THEN IsArrayTable(o.heap[x[2][2]]) /\ Len(x[1]) # depth
                                       ELSE x[2][1] \in SayTypes
         /\ answer.text =
              IF answer.ok
              THEN LeavesBelow(o.heap, length, o.args, depth) \o (IF o.newline THEN <<NewLine>> ELSE <<>>)
              ELSE <<>>
<1>1. PICK heap, args, newline : heap = o.heap /\ args = o.args /\ newline = o.newline
  OBVIOUS
<1>2. /\ IsHeap(heap) /\ args \in Seq(Range(args))
      /\ \A i \in DOMAIN args : IsValue(heap, args[i])
  BY <1>1, OutputsAssumption
<1>3. PICK V : V = ValuesOf(heap, args)
  OBVIOUS
<1>4. Over(heap, V)
  BY <1>2, <1>3, ValuesAre
<1>5. args \in Seq(V)
  <2>1. PICK n \in Nat : n = Len(args) /\ DOMAIN args = 1..n /\ args = [i \in 1..n |-> args[i]]
    BY <1>2
  <2>2. \A i \in 1..n : args[i] \in V
    BY <1>3, <2>1 DEF ValuesOf
  <2>3. args \in [1..n -> V]
    BY <2>1, <2>2
  <2> QED BY <2>3
<1>6. \A t \in DOMAIN heap : MaxKey(heap[t]) \in Nat /\ MaxKey(heap[t]) = Extent(heap[t])
  BY <1>2, MaxKeyIs DEF IsHeap
<1>7. length \in [DOMAIN heap -> Nat] /\ length = [t \in DOMAIN heap |-> MaxKey(heap[t])]
  BY <1>1, <1>6
<1>8. PICK w : w = Width(length, args)
  OBVIOUS
<1>9. Narrow(w, heap, length) /\ Len(args) <= w
  BY <1>2, <1>5, <1>7, <1>8, WidthIs DEF IsHeap
<1>10. PICK A : A = {t \in DOMAIN heap : IsArrayTable(heap[t])}
  OBVIOUS
<1>11. PICK n \in Nat : n = MaxTableDepth + 1 /\ depth = n + 1
  BY DepthAssumption
<1>12. PICK tables : tables = TextOfTables(heap, A, length, SayTypes, n)
  OBVIOUS
<1>13. tables \in [DOMAIN heap -> Told(V)] /\ TablesMean(tables, w, heap, length, A, SayTypes, n)
  BY <1>4, <1>9, <1>12, TablesTell
<1>14. PICK all : all = TextOfAll(tables, SayTypes, args)
  OBVIOUS
<1>15. Meant(all, R, A, SayTypes, depth)
  <2>1. R = ReachedBy(w, heap, length, args, n + 1)
    BY <1>1, <1>8, <1>11
  <2>2. Meant(all, ReachedBy(w, heap, length, args, n + 1), A, SayTypes, n + 1)
    BY <1>4, <1>5, <1>9, <1>13, <1>14, ListMeans
  <2> QED BY <1>11, <2>1, <2>2
<1>16. tables = Coerced(heap)
  BY <1>7, <1>10, <1>11, <1>12 DEF Coerced
<1>17. answer = IF all.ok THEN Written(all.text \o (IF newline THEN <<NewLine>> ELSE <<>>)) ELSE all
  BY <1>1, <1>14, <1>16 DEF Output
<1>18. Fits(R, A, SayTypes, depth)
         <=> \A x \in R : IF IsTable(x[2])
                          THEN IsArrayTable(heap[x[2][2]]) /\ Len(x[1]) # depth
                          ELSE x[2][1] \in SayTypes
  <2> SUFFICES ASSUME NEW x \in R
               PROVE  Good(x, A, SayTypes, depth)
                        <=> IF IsTable(x[2])
                            THEN IsArrayTable(heap[x[2][2]]) /\ Len(x[1]) # depth
                            ELSE x[2][1] \in SayTypes
    BY DEF Fits
  <2>1. x \in ReachedBy(w, heap, length, args, depth)
    BY <1>1, <1>8
  <2>2. Len(x[1]) \in 1..depth
    <3>1. w \in Nat
      BY <1>9 DEF Narrow
    <3> QED BY <2>1, <3>1, ReachedType
  <2>3. IsTable(x[2]) => x[2][2] \in DOMAIN heap
    BY <1>4, <1>5, <1>9, <2>1, ReachedValues
  <2>4. Len(x[1]) < depth <=> Len(x[1]) # depth
    BY <2>2
  <2> QED BY <1>10, <2>3, <2>4 DEF Good
<1>19. BadArgument.ok = FALSE /\ BadArgument.text = <<>>
       /\ \A u : Written(u).ok = TRUE /\ Written(u).text = u
  BY DEF BadArgument, Written
<1>20. CASE Fits(R, A, SayTypes, depth)
  <2>1. PICK text : all = Written(text) /\ Tells(text, R)
    BY <1>15, <1>20 DEF Meant
  <2>2. LeavesBelow(heap, length, args, depth) = text
    <3>1. w \in Nat
      BY <1>9 DEF Narrow
    <3>2. Tells(text, ReachedBy(w, heap, length, args, depth))
      BY <1>1, <1>8, <2>1
    <3> QED BY <1>8, <3>1, <3>2, LeavesTold
  <2>3. answer = Written(text \o (IF newline THEN <<NewLine>> ELSE <<>>))
    BY <1>17, <1>19, <2>1
  <2>4. answer.ok = TRUE /\ answer.text = text \o (IF newline THEN <<NewLine>> ELSE <<>>)
    BY <1>19, <2>3
  <2> QED BY <1>1, <1>18, <1>20, <2>2, <2>4
<1>21. CASE ~Fits(R, A, SayTypes, depth)
  <2>1. all = BadArgument
    BY <1>15, <1>21 DEF Meant
  <2>2. answer.ok = FALSE /\ answer.text = <<>>
    BY <1>17, <1>19, <2>1
  <2> QED BY <1>1, <1>18, <1>21, <2>2
<1> QED BY <1>20, <1>21

-----------------------------------------------------------------------------
(* send takes the elements of tables that are strings and numbers.         *)

\* the leaves of a list can be told, whatever they are
LEMMA LeavesAreTold ==
  ASSUME NEW V, NEW heap, Over(heap, V), NEW w, NEW length, Narrow(w, heap, length),
         NEW vs \in Seq(V), Len(vs) <= w, NEW n \in Nat,
         NEW R, R = ReachedBy(w, heap, length, vs, n + 1), \A x \in R : IsTable(x[2]) => Len(x[1]) <= n
  PROVE  \E text : Tells(text, R)
<1>1. PICK T, A : T = {x[2][1] : x \in R} /\ A = DOMAIN heap
  OBVIOUS
<1>2. PICK tables : tables = TextOfTables(heap, A, length, T, n)
  OBVIOUS
<1>3. tables \in [DOMAIN heap -> Told(V)] /\ TablesMean(tables, w, heap, length, A, T, n)
  BY <1>2, TablesTell
<1>4. PICK r : r = TextOfAll(tables, T, vs)
  OBVIOUS
<1>5. Meant(r, R, A, T, n + 1)
  <2>1. Meant(TextOfAll(tables, T, vs), ReachedBy(w, heap, length, vs, n + 1), A, T, n + 1)
    BY <1>3, ListMeans
  <2> QED BY <1>4, <2>1
<1>6. Fits(R, A, T, n + 1)
  <2> SUFFICES ASSUME NEW x \in R PROVE Good(x, A, T, n + 1)
    BY DEF Fits
  <2>1. IsTable(x[2]) => x[2][2] \in A
    <3>1. n + 1 \in Nat
      OBVIOUS
    <3> QED BY <1>1, <3>1, ReachedValues
  <2>2. PICK d \in Nat : d = Len(x[1])
    <3>1. w \in Nat /\ n + 1 \in Nat
      BY DEF Narrow
    <3>2. Len(x[1]) \in 1..n + 1
      BY <3>1, ReachedType
    <3> QED BY <3>2
  <2>3. IsTable(x[2]) => Len(x[1]) < n + 1
    <3>1. IsTable(x[2]) => d <= n
      BY <2>2
    <3>2. d <= n => d < n + 1
      OBVIOUS
    <3> QED BY <2>2, <3>1, <3>2
  <2>4. x[2][1] \in T
    BY <1>1
  <2> QED BY <2>1, <2>3, <2>4 DEF Good
<1> QED BY <1>5, <1>6 DEF Meant

LEMMA SendIsWhole ==
  ASSUME NEW o \in Sends, NEW length \in Lengths(o.heap),
         NEW answer, answer = SendData(o.heap, length, o.data)
  PROVE  SentWhole(o, length, answer)
<1> DEFINE found == LeavesBelow(o.heap, length, <<o.data>>, Cardinality(DOMAIN o.heap) + 1)
<1>1. PICK heap, data, vs : heap = o.heap /\ data = o.data /\ vs = <<data>>
  OBVIOUS
<1>2. IsHeap(heap) /\ IsValue(heap, data)
  BY <1>1, SendsAssumption
<1>3. PICK V : V = ValuesOf(heap, vs)
  OBVIOUS
<1>4. DOMAIN vs = {1} /\ vs[1] = data /\ Len(vs) = 1
  BY <1>1
<1>5. Over(heap, V)
  <2>1. \A i \in DOMAIN vs : IsValue(heap, vs[i])
    BY <1>2, <1>4
  <2> QED BY <1>2, <1>3, <2>1, ValuesAre
<1>6. data \in V /\ vs \in Seq(V)
  <2>1. data \in V
    BY <1>3, <1>4 DEF ValuesOf
  <2> QED BY <1>1, <2>1
<1>7. length \in [DOMAIN heap -> Nat]
  <2>1. \A t \in DOMAIN heap : DOMAIN heap[t] \subseteq Nat
    BY <1>2 DEF IsHeap
  <2>2. \A t \in DOMAIN heap : length[t] \in Borders(heap[t])
    BY <1>1 DEF Lengths
  <2>3. \A t \in DOMAIN heap : length[t] \in Nat
    BY <2>1, <2>2 DEF Borders
  <2>4. length = [t \in DOMAIN heap |-> length[t]]
    BY <1>1 DEF Lengths
  <2> QED BY <2>3, <2>4
<1>8. PICK w : w = Width(length, vs)
  OBVIOUS
<1>9. Narrow(w, heap, length) /\ Len(vs) <= w /\ w \in Nat
  <2>1. Narrow(w, heap, length) /\ Len(vs) <= w
    BY <1>2, <1>6, <1>7, <1>8, WidthIs DEF IsHeap
  <2> QED BY <2>1 DEF Narrow
<1>10. PICK N \in Nat : N = Cardinality(DOMAIN heap)
  BY <1>2, FS_CardinalityType DEF IsHeap
<1>11. PICK R : R = ReachedBy(w, heap, length, vs, N + 1)
  OBVIOUS
<1>12. N + 1 \in Nat
  OBVIOUS
<1>13. \A x \in R : /\ IsTable(x[2]) => x[2][2] \in DOMAIN heap /\ Len(x[1]) <= N
                    /\ Via(x) = 1 /\ Len(x[1]) \in Nat
  <2> SUFFICES ASSUME NEW x \in R
               PROVE  /\ IsTable(x[2]) => x[2][2] \in DOMAIN heap /\ Len(x[1]) <= N
                      /\ Via(x) = 1 /\ Len(x[1]) \in Nat
    OBVIOUS
  <2>1. Len(x[1]) \in 1..N + 1 /\ Via(x) \in DOMAIN vs
    BY <1>9, <1>11, <1>12, ReachedType
  <2>2. PICK rank \in [DOMAIN heap -> 1..N] : Ranks(heap, rank)
    BY <1>1, <1>10, SendsAssumption
  <2>3. IsTable(x[2]) => x[2][2] \in DOMAIN heap /\ Len(x[1]) <= N
    BY <1>5, <1>6, <1>9, <1>11, <1>12, <2>2, ReachedValues
  <2> QED BY <1>4, <2>1, <2>3
<1>14. R = Starting(R, 1)
  BY <1>13 DEF Starting
<1>15. PICK text : Tells(text, R)
  BY <1>5, <1>6, <1>9, <1>11, <1>13, LeavesAreTold
<1>16. ASSUME NEW t, Tells(t, R) PROVE found = t
  <2>1. found = LeavesBelow(heap, length, vs, N + 1)
    BY <1>1, <1>10
  <2>2. Tells(t, ReachedBy(w, heap, length, vs, N + 1))
    BY <1>11, <1>16
  <2> QED BY <1>8, <1>9, <1>12, <2>1, <2>2, LeavesTold
<1> HIDE DEF found
<1>17. BadArgument.ok = FALSE /\ BadArgument.text = <<>>
       /\ \A u : Written(u).ok = TRUE /\ Written(u).text = u
  BY DEF BadArgument, Written
<1>18. PICK tables : tables = TextOfTables(heap, DOMAIN heap, length, ElementTypes, N)
  OBVIOUS
<1>19. answer = TextOf(tables, SendTypes, data)
  BY <1>1, <1>10, <1>18 DEF SendData, Appended
<1> DEFINE whole ==
             /\ answer.ok <=> IF IsTable(o.data)
                              THEN \A i \in DOMAIN found : found[i][1] \in ElementTypes
                              ELSE o.data[1] \in SendTypes
             /\ answer.text = IF answer.ok THEN found ELSE <<>>
<1>20. ASSUME ~IsTable(data) PROVE whole
  <2>1. answer = IF data[1] \in SendTypes THEN Written(<<data>>) ELSE BadArgument
    BY <1>19, <1>20 DEF TextOf
  <2>2. R = First(1, data)
    <3>1. Starting(ReachedBy(w, heap, length, vs, N + 1), 1) = First(1, vs[1])
      <4>1. 1 \in 1..Len(vs) /\ ~IsTable(vs[1])
        BY <1>4, <1>20
      <4> QED BY <1>5, <1>6, <1>9, <4>1, StartsPlain
    <3> QED BY <1>4, <1>11, <1>14, <3>1
  <2>3. Tells(<<data>>, R)
    <3>1. PICK T : T = {data[1]}
      OBVIOUS
    <3>2. Meant(IF data[1] \in T THEN Written(<<data>>) ELSE BadArgument, First(1, data), {}, T, 2)
      BY <1>20, PlainMeans
    <3>3. Meant(Written(<<data>>), R, {}, T, 2)
      BY <2>2, <3>1, <3>2
    <3>4. Written(<<data>>) # BadArgument
      BY <1>17
    <3>5. PICK t : Written(<<data>>) = Written(t) /\ Tells(t, R)
      BY <3>3, <3>4 DEF Meant
    <3>6. t = <<data>>
      BY <1>17, <3>5
    <3> QED BY <3>5, <3>6
  <2>4. found = <<data>>
    BY <1>16, <2>3
  <2> QED BY <1>1, <1>17, <1>20, <2>1, <2>4
<1>21. ASSUME IsTable(data) PROVE whole
  <2>1. answer = TextOf(tables, ElementTypes, data)
    BY <1>19, <1>21 DEF TextOf
  <2>2. TablesMean(tables, w, heap, length, DOMAIN heap, ElementTypes, N)
    BY <1>5, <1>9, <1>18, TablesTell
  <2>3. Meant(answer, R, DOMAIN heap, ElementTypes, N + 1)
    <3>1. 1 \in 1..Len(vs)
      BY <1>4
    <3>2. Meant(TextOf(tables, ElementTypes, vs[1]),
                Starting(ReachedBy(w, heap, length, vs, N + 1), 1), DOMAIN heap, ElementTypes, N + 1)
      BY <1>5, <1>6, <1>9, <2>2, <3>1, OneMeans
    <3> QED BY <1>4, <1>11, <1>14, <2>1, <3>2
  <2>4. found = text
    BY <1>15, <1>16
  <2>5. PICK E : Enumerates(E, R) /\ text = [k \in 1..Len(E) |-> E[k][2]]
    BY <1>15 DEF Tells
  <2>6. Fits(R, DOMAIN heap, ElementTypes, N + 1) <=> \A x \in PlainOf(R) : x[2][1] \in ElementTypes
    <3>1. \A x \in R : IsTable(x[2]) => Good(x, DOMAIN heap, ElementTypes, N + 1)
      <4> SUFFICES ASSUME NEW x \in R, IsTable(x[2]) PROVE Good(x, DOMAIN heap, ElementTypes, N + 1)
        OBVIOUS
      <4>1. PICK d \in Nat : d = Len(x[1]) /\ d <= N
        BY <1>13
      <4>2. Len(x[1]) < N + 1
        BY <4>1
      <4> QED BY <1>13, <4>2 DEF Good
    <3>2. \A x \in R : ~IsTable(x[2]) => (Good(x, DOMAIN heap, ElementTypes, N + 1)
                                            <=> x[2][1] \in ElementTypes)
      BY DEF Good
    <3> QED BY <3>1, <3>2 DEF Fits, PlainOf
  <2>7. (\A x \in PlainOf(R) : x[2][1] \in ElementTypes)
          <=> \A i \in DOMAIN found : found[i][1] \in ElementTypes
    <3>1. PICK M \in Nat : M = Len(E) /\ \A k \in 1..M : E[k] \in PlainOf(R)
      BY <2>5 DEF Enumerates
    <3>2. \A x \in PlainOf(R) : \E k \in 1..M : E[k] = x
      BY <2>5, <3>1 DEF Enumerates
    <3>3. DOMAIN found = 1..M /\ \A k \in 1..M : found[k] = E[k][2]
      BY <2>4, <2>5, <3>1
    <3> QED BY <3>1, <3>2, <3>3
  <2>8. CASE Fits(R, DOMAIN heap, ElementTypes, N + 1)
    <3>1. PICK t : answer = Written(t) /\ Tells(t, R)
      BY <2>3, <2>8 DEF Meant
    <3>2. answer.ok = TRUE /\ answer.text = t /\ found = t
      BY <1>16, <1>17, <3>1
    <3> QED BY <1>1, <1>21, <2>6, <2>7, <2>8, <3>2
  <2>9. CASE ~Fits(R, DOMAIN heap, ElementTypes, N + 1)
    <3>1. answer = BadArgument
      BY <2>3, <2>9 DEF Meant
    <3>2. answer.ok = FALSE /\ answer.text = <<>>
      BY <1>17, <3>1
    <3> QED BY <1>1, <1>21, <2>6, <2>7, <2>9, <3>2
  <2> QED BY <2>8, <2>9
<1>22. whole
  BY <1>20, <1>21
<1> QED BY <1>22 DEF SentWhole, found

\* say, print and send write all of their arguments in order, or nothing and report
\* an error (OutputWhole).
THEOREM OutputIsWhole == Spec => []OutputWhole
<1>1. Init => OutputWhole
  BY DEF Init, NoCall, OutputWhole
<1>2. OutputWhole /\ [Next]_last => OutputWhole'
  <2> SUFFICES ASSUME OutputWhole, [Next]_last PROVE OutputWhole'
    OBVIOUS
  <2>1. ASSUME NEW o \in Outputs, Say(o) PROVE OutputWhole'
    <3>1. PICK answer : answer = Output(o.heap, o.args, o.newline)
      OBVIOUS
    <3>2. last' = [call |-> "say", o |-> o, answer |-> answer]
      BY <2>1, <3>1 DEF Say, Calls
    <3>3. last'.call = "say" /\ last'.o = o /\ last'.answer = answer
      BY <3>2
    <3>4. PICK length, heap, args : /\ length = [t \in DOMAIN o.heap |-> Extent(o.heap[t])]
                                    /\ heap = o.heap /\ args = o.args
      OBVIOUS
    <3>5. PICK depth \in Nat : depth = MaxTableDepth + 2
      BY DepthAssumption
    <3>6. PICK w, R : w = Width(length, args) /\ R = ReachedBy(w, heap, length, args, depth)
      OBVIOUS
    <3>7. /\ answer.ok <=> \A x \in R : IF IsTable(x[2])
                                        THEN IsArrayTable(heap[x[2][2]]) /\ Len(x[1]) # depth
                                        ELSE x[2][1] \in SayTypes
          /\ answer.text =
               IF answer.ok
               THEN LeavesBelow(heap, length, args, depth) \o (IF o.newline THEN <<NewLine>> ELSE <<>>)
               ELSE <<>>
      <4>1. R = ReachedBy(Width(length, o.args), o.heap, length, o.args, depth)
        BY <3>4, <3>6
      <4> QED BY <3>1, <3>4, <3>5, <4>1, SayIsWhole
    <3>8. Paths(heap, length, args, depth) = PathsIn(w, heap, length, args, depth)
      BY <3>6 DEF Paths, PathsIn
    <3> DEFINE P == Paths(heap, length, args, depth)
               below == {At(heap, length, args, p) : p \in P}
               deep == {p \in P : Len(p) = depth /\ IsTable(At(heap, length, args, p))}
    <3>9. answer.ok <=>
            /\ \A v \in below : IF IsTable(v) THEN IsArrayTable(heap[v[2]]) ELSE v[1] \in SayTypes
            /\ deep = {}
      <4>1. R = {<<p, At(heap, length, args, p)>> : p \in P}
        BY <3>6, <3>8 DEF ReachedBy
      <4>2. ASSUME NEW p \in P, NEW v, v = At(heap, length, args, p)
            PROVE  \E x \in R : x[1] = p /\ x[2] = v
        <5>1. PICK x : x = <<p, v>>
          OBVIOUS
        <5> QED BY <4>1, <4>2, <5>1
      <4>3. ASSUME NEW x \in R PROVE x[1] \in P /\ x[2] = At(heap, length, args, x[1])
        BY <4>1
      <4> HIDE DEF P
      <4>4. (\A x \in R : IF IsTable(x[2]) THEN IsArrayTable(heap[x[2][2]]) /\ Len(x[1]) # depth
                          ELSE x[2][1] \in SayTypes)
              <=> \A p \in P :
                    IF IsTable(At(heap, length, args, p))
                    THEN IsArrayTable(heap[At(heap, length, args, p)[2]]) /\ Len(p) # depth
                    ELSE At(heap, length, args, p)[1] \in SayTypes
        BY <4>2, <4>3
      <4> QED BY <3>7, <4>4
    <3> HIDE DEF P, below, deep
    <3>10. SaidWhole(o, answer) <=>
             /\ answer.ok <=>
                  /\ \A v \in below : IF IsTable(v) THEN IsArrayTable(heap[v[2]]) ELSE v[1] \in SayTypes
                  /\ deep = {}
             /\ answer.text =
                  IF answer.ok
                  THEN LeavesBelow(heap, length, args, depth) \o (IF o.newline THEN <<NewLine>> ELSE <<>>)
                  ELSE <<>>
      BY <3>4, <3>5 DEF SaidWhole, P, below, deep
    <3> QED BY <3>3, <3>7, <3>9, <3>10 DEF OutputWhole
  <2>2. ASSUME NEW o \in Sends, Send(o) PROVE OutputWhole'
    <3>1. PICK length \in Lengths(o.heap) :
            last' = [call |-> "send", o |-> o, length |-> length,
                     answer |-> SendData(o.heap, length, o.data)]
      BY <2>2 DEF Send, Calls
    <3>2. PICK answer : answer = SendData(o.heap, length, o.data)
      OBVIOUS
    <3>3. last'.call = "send" /\ last'.o = o /\ last'.length = length /\ last'.answer = answer
      BY <3>1, <3>2
    <3>4. SentWhole(o, length, answer)
      <4>1. length \in Lengths(o.heap)
        BY <3>1
      <4> QED BY <3>2, <4>1, SendIsWhole
    <3> QED BY <3>3, <3>4 DEF OutputWhole
  <2>3. CASE last'.call \notin {"say", "send"}
    BY <2>3 DEF OutputWhole
  <2>4. CASE UNCHANGED last
    BY <2>4 DEF OutputWhole
  <2> QED
    BY <2>1, <2>2, <2>3, <2>4
    DEF Next, Call, Calls, GetArgs, ReqGetHeaders, Escape, Unescape, PushBatch, PushCapture, Fetch
<1> QED BY <1>1, <1>2, PTL DEF Spec
=============================================================================
