------------------------------ MODULE Response ------------------------------
(***************************************************************************)
(* What golapis promises about the response to a request: Lua code sets a  *)
(* status and headers until the first output fixes them, whatever it says  *)
(* becomes the body, and the answer is made of exactly that.  Code that    *)
(* fails is answered with an error page.  If its head was fixed already,   *)
(* the page can only follow what has been said.  A client then still gets  *)
(* the head that was fixed; a thread that captured through the mux gets    *)
(* its status, but with headers into which those of the page were mixed.   *)
(* Without a mux nothing is fixed before the end, and the page has neither *)
(* headers nor what was said.                                              *)
(***************************************************************************)
EXTENDS Naturals

CONSTANTS
    Exchanges, None, Statuses, Headers,
    PageHeaders,   \* of an error page
    Displaced      \* headers that these replace

VARIABLES
    life,      \* none, open, ok, failed, answered
    way,       \* of the request: client, mux or direct
    said,      \* what Lua code has set and written
    fixed,     \* the head cannot be changed any more
    answer,    \* the response as its receiver sees it
    told       \* the answer that a thread got from its last subrequest

vars == <<life, way, said, fixed, answer, told>>

Init ==
    /\ life = [x \in Exchanges |-> "none"]
    /\ way = [x \in Exchanges |-> "client"]
    /\ said = [x \in Exchanges |-> [status |-> 0, headers |-> {}, text |-> 0]]
    /\ fixed = [x \in Exchanges |-> FALSE]
    /\ answer = [x \in Exchanges |-> None]
    /\ told = [x \in Exchanges |-> None]

Open(x) ==
    /\ life[x] = "none"
    /\ life' = [life EXCEPT ![x] = "open"]
    /\ \E w \in {"client", "mux", "direct"} : way' = [way EXCEPT ![x] = w]
    /\ UNCHANGED <<said, fixed, answer, told>>

SetHead(x) ==
    /\ life[x] = "open" /\ ~fixed[x]
    /\ \E s \in Statuses \cup {0}, H \in SUBSET Headers :
          said' = [said EXCEPT ![x].status = s, ![x].headers = H]
    /\ UNCHANGED <<life, way, fixed, answer, told>>

(* Output; the receiver decides whether it fixes the head.  A write that    *)
(* fails adds nothing, but it has fixed the head.                           *)
Say(x) ==
    /\ life[x] = "open"
    /\ \/ said' = [said EXCEPT ![x].text = @ + 1] /\ fixed' = fixed
       \/ said' = [said EXCEPT ![x].text = @ + 1] /\ fixed' = [fixed EXCEPT ![x] = TRUE]
       \/ said' = said /\ fixed' = [fixed EXCEPT ![x] = TRUE]
    /\ UNCHANGED <<life, way, answer, told>>

(* The code ends; exit may still set the status of a head that is not fixed. *)
End(x) ==
    /\ life[x] = "open"
    /\ \/ life' = [life EXCEPT ![x] = "failed"] /\ said' = said
       \/ /\ life' = [life EXCEPT ![x] = "ok"]
          /\ \/ said' = said
             \/ ~fixed[x] /\ \E s \in Statuses : said' = [said EXCEPT ![x].status = s]
    /\ UNCHANGED <<way, fixed, answer, told>>

Whole(v, page) ==
    [status |-> IF v.status = 0 THEN 200 ELSE v.status, headers |-> v.headers,
     text |-> v.text, page |-> page]

WithPage(v) == [v EXCEPT !.headers = (@ \ Displaced) \cup PageHeaders]

ErrorPage(H) == [status |-> 500, headers |-> H, text |-> 0, page |-> TRUE]

Failure(x) ==
    CASE way[x] = "direct" -> ErrorPage({})
      [] way[x] # "direct" /\ ~fixed[x] -> ErrorPage(PageHeaders)
      [] way[x] = "client" /\ fixed[x] -> Whole(said[x], TRUE)
      [] way[x] = "mux" /\ fixed[x] -> Whole(WithPage(said[x]), TRUE)

Answer(x) ==
    /\ \/ /\ life[x] = "ok"
          /\ answer' = [answer EXCEPT ![x] = Whole(said[x], FALSE)]
          /\ fixed' \in {fixed, [fixed EXCEPT ![x] = TRUE]}
       \/ /\ life[x] = "failed"
          /\ answer' = [answer EXCEPT ![x] = Failure(x)]
          /\ fixed' = fixed
    /\ life' = [life EXCEPT ![x] = "answered"]
    /\ UNCHANGED <<way, said, told>>

(* A thread that is still open gets the whole answer of another exchange.   *)
Tell(x, y) ==
    /\ life[x] = "open" /\ life[y] = "answered"
    /\ told' = [told EXCEPT ![x] = answer[y]]
    /\ UNCHANGED <<life, way, said, fixed, answer>>

Next ==
    \E x \in Exchanges :
       \/ Open(x) \/ SetHead(x) \/ Say(x) \/ End(x) \/ Answer(x)
       \/ \E y \in Exchanges : Tell(x, y)

Spec == Init /\ [][Next]_vars
=============================================================================
