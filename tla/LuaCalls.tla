------------------------------ MODULE LuaCalls ------------------------------
(***************************************************************************)
(* Functions of golapis that convert data for Lua code: the arguments and  *)
(* headers of a request, escaping, batches for the Lua stack, output, the  *)
(* HTTP client.  The conversions are in UriCodec, LuaBatch,                *)
(* RequestHeaders, LuaOutput and HttpClient.  What such a function answers *)
(* depends on its arguments and on the request alone, so a behaviour here  *)
(* is one call, with inputs from bounded sets; the properties compare its  *)
(* answer with what the inputs say, put in other words.                    *)
(*                                                                         *)
(* Go's iteration over a map is in an arbitrary order.                     *)
(***************************************************************************)
EXTENDS FiniteSets, UriCodec, LuaBatch, RequestHeaders, LuaOutput, HttpClient

CONSTANTS
  Queries,    \* query strings, and bodies of POST requests
  Maxima,     \* arguments of get_uri_args, get_post_args and get_headers
  Requests,   \* [header, host]
  Texts,      \* strings to escape
  Programs,   \* sequences of batch operations
  Captures,   \* responses of location.capture: [status, body, headers]
  Outputs,    \* calls of say and print: [heap, args, newline]
  Sends,      \* calls of send: [heap, data]
  Fetches     \* calls of the HTTP client: [reqt, server]

ASSUME TextsAssumption == Texts \subseteq Seq(Byte)
ASSUME MaximaAssumption == Maxima \subseteq Int

\* net/http has names in canonical form only, each with a value, and Host apart.
IsRequest(r) ==
  /\ IsFiniteSet(DOMAIN r.header) /\ HostName \notin DOMAIN r.header
  /\ \A n \in DOMAIN r.header :
       /\ n = Name(n.words, n.sep, "canonical")
       /\ r.header[n] \in Seq(Range(r.header[n])) /\ r.header[n] # <<>>
  /\ r.host \in Seq(Range(r.host)) /\ Len(r.host) <= 1

ASSUME RequestsAssumption == \A r \in Requests : IsRequest(r)

\* the types of the encoder's arguments, by their highest byte; lengths are
\* written as uint32
Above24(v)  == ((v \div 256) \div 256) \div 256
IsUint32(v) == v \in Nat /\ Above24(v) < 256
IsInt32(v)  == v \in Int /\ Above24(v) \in -128..127
IsInt64(v)  == v \in Int /\ Above24(Above24(v)) \div 256 \in -128..127

IsOperation(op) ==
  \/ op[1] \in {"nil", "table", "set"}
  \/ op[1] = "bool" /\ op[2] \in BOOLEAN
  \/ op[1] = "int" /\ IsInt64(op[2])
  \/ op[1] = "number" /\ op[2] \in [1..8 -> Byte]
  \/ /\ op[1] \in {"string", "inlineString", "setField", "setFieldInline"}
     /\ op[2] \in Seq(Byte) /\ IsUint32(Len(op[2]))
  \/ op[1] = "tableSized" /\ op[2] \in Int /\ op[3] \in Int
  \/ op[1] = "setIndex" /\ IsInt32(op[2])
  \/ op[1] = "pop" /\ op[2] \in Byte

ASSUME ProgramsAssumption == \A ops \in Programs :
  IsUint32(Len(ops)) /\ \A n \in 1..Len(ops) : IsOperation(ops[n])

\* what is parsed fits into a batch, and so does an answer
ASSUME QueriesAssumption == \A q \in Queries : q \in Seq(Byte) /\ IsInt32(5 * Len(q) + 1)

IsCapture(r) ==
  /\ IsInt64(r.status)
  /\ r.body \in Seq(Byte) /\ IsUint32(Len(r.body))
  /\ IsFiniteSet(DOMAIN r.headers) /\ IsInt32(3 * Cardinality(DOMAIN r.headers) + 7)
  /\ \A n \in DOMAIN r.headers :
       /\ n \in Seq(Byte) /\ IsUint32(Len(n)) /\ r.headers[n] \in Seq(Seq(Byte))
       /\ \A i \in DOMAIN r.headers[n] : IsUint32(Len(r.headers[n][i]))

ASSUME CapturesAssumption == \A r \in Captures : IsCapture(r)

\* Lua values: tables with finitely many elements, in a heap that has them all
Found(v) == v[1] # "no value"

IsValue(heap, v) == Found(v) /\ (IsTable(v) => v[2] \in DOMAIN heap)

IsHeap(heap) ==
  /\ IsFiniteSet(DOMAIN heap)
  /\ \A t \in DOMAIN heap :
       /\ IsFiniteSet(DOMAIN heap[t]) /\ DOMAIN heap[t] \subseteq Nat
       /\ \A i \in DOMAIN heap[t] : IsValue(heap, heap[t][i])

ASSUME OutputsAssumption == \A o \in Outputs :
  /\ IsHeap(o.heap) /\ o.args \in Seq(Range(o.args))
  /\ \A i \in DOMAIN o.args : IsValue(o.heap, o.args[i])

\* no table contains itself: a table has a higher rank than those in it
Ranks(heap, rank) ==
  \A t \in DOMAIN heap : \A i \in DOMAIN heap[t] :
    IsTable(heap[t][i]) => rank[heap[t][i][2]] < rank[t]

ASSUME SendsAssumption == \A o \in Sends :
  /\ IsHeap(o.heap) /\ IsValue(o.heap, o.data)
  /\ \E rank \in [DOMAIN o.heap -> 1..Cardinality(DOMAIN o.heap)] : Ranks(o.heap, rank)

\* a server does not redirect for ever
ASSUME FetchesAssumption == \A f \in Fetches :
  /\ f.server.answers \in Seq({"redirect", "final", "fails"})
  /\ \E i \in DOMAIN f.server.answers : f.server.answers[i] # "redirect"
  /\ f.reqt.maxredirects = Unset \/ f.reqt.maxredirects \in Int
  /\ f.reqt.sink \in {Unset, "accepts", "silent", "failsAtData", "failsAtEnd"}

VARIABLE last   \* the call, with its inputs and its answer

NoCall == [call |-> "none"]

Init == last = NoCall

Calls(call) == last' = call

Orders(S) == SetToSeqs(S)

\* the Lua stack after a batch
Pushed(ops) == Run(EncodeAll(ops), <<>>)

\* get_uri_args, and get_post_args once the body was read
GetArgs(raw, max) ==
  LET parsed == ParseQueryString(raw, max) IN
  \E order \in Orders(Keys(parsed.args)) :
     Calls([call |-> "args", raw |-> raw, max |-> max, truncated |-> parsed.truncated,
            pushed |-> Pushed(QueryArgsOps(parsed.args, order))])

ReqGetHeaders(req, max, raw) ==
  \E order \in Orders(DOMAIN req.header) :
     Calls([call |-> "headers", req |-> req, max |-> max, raw |-> raw,
            got |-> GetHeaders(req, max, raw, order)])

\* escape_uri, and unescape_uri of what it returned
Escape(s, type) ==
  LET escaped == EscapeURI(s, type) IN
  Calls([call |-> "escape", plain |-> s, type |-> type, escaped |-> escaped,
         back |-> UnescapeURI(escaped), decoded |-> Decoded(escaped)])

Unescape(s) == Calls([call |-> "unescape", text |-> s, plain |-> UnescapeURI(s)])

PushBatch(ops) ==
  Calls([call |-> "batch", ops |-> ops, bytes |-> Len(EncodeAll(ops).buf), ran |-> Pushed(ops)])

PushCapture(r) ==
  \E order \in Orders(DOMAIN r.headers) :
     Calls([call |-> "capture", response |-> r,
            pushed |-> Pushed(CaptureOps(r.status, r.body, r.headers, order))])

Say(o) ==
  Calls([call |-> "say", o |-> o, answer |-> Output(o.heap, o.args, o.newline)])

\* how long Lua says that each table is
Lengths(heap) ==
  {f \in [DOMAIN heap -> UNION {Borders(heap[t]) : t \in DOMAIN heap}] :
     \A t \in DOMAIN heap : f[t] \in Borders(heap[t])}

Send(o) ==
  \E length \in Lengths(o.heap) :
     Calls([call |-> "send", o |-> o, length |-> length,
            answer |-> SendData(o.heap, length, o.data)])

Fetch(f) == Calls([call |-> "fetch", fetch |-> f, answer |-> HttpRequest(f.reqt, f.server)])

Call ==
  \/ \E q \in Queries, max \in Maxima : GetArgs(q, max)
  \/ \E req \in Requests, max \in Maxima, raw \in BOOLEAN : ReqGetHeaders(req, max, raw)
  \/ \E s \in Texts : Unescape(s) \/ \E type \in {0, 2} : Escape(s, type)
  \/ \E ops \in Programs : PushBatch(ops)
  \/ \E r \in Captures : PushCapture(r)
  \/ \E o \in Outputs : Say(o)
  \/ \E o \in Sends : Send(o)
  \/ \E f \in Fetches : Fetch(f)

Next == last = NoCall /\ Call

Spec == Init /\ [][Next]_last

----------------------------------------------------------------------------
\* the members of S, each after those before it
InOrder(S, Before(_, _)) ==
  [n \in 1..Cardinality(S) |->
     CHOOSE x \in S : Cardinality({y \in S : Before(y, x)}) = n - 1]

----------------------------------------------------------------------------
(* Escaping *)

\* positions that a sequence at an earlier position stands for
Covered(s, i) == \E k \in {i - 1, i - 2} : k >= 1 /\ EscapedAt(s, k)

StandsFor(s, i) ==
  CASE EscapedAt(s, i)   -> UnHex(s[i + 1], s[i + 2])
    [] s[i] = Plus       -> Space
    [] OTHER             -> s[i]

\* Sequences cannot overlap, so that each position is part of one or is not.
Unescaped(s) ==
  LET own == InOrder({i \in DOMAIN s : ~Covered(s, i)}, <)
  IN  [n \in DOMAIN own |-> StandsFor(s, own[n])]

\* unescape_uri decodes every valid sequence and nothing else, wherever it stands.
\* It undoes escape_uri, but for a plus sign that type 0 leaves alone and that
\* comes back as a space; so does the parser of query strings.  What type 2
\* returns is made of unreserved characters and sequences.
EscapesUndone ==
  /\ last.call = "unescape" => last.plain = Unescaped(last.text)
  /\ last.call = "escape" =>
       /\ last.back = [i \in DOMAIN last.plain |->
                         IF last.type = 0 /\ last.plain[i] = Plus THEN Space ELSE last.plain[i]]
       /\ last.decoded = last.back
       /\ last.type = 2 => \A i \in DOMAIN last.escaped :
            \/ last.escaped[i] \in Upper \cup Lower \cup Digits \cup {45, 46, 95, 126}
            \/ EscapedAt(last.escaped, i)

----------------------------------------------------------------------------
(* Arguments *)

\* the parts of a query string, by first and last position
Parts(s) ==
  {p \in (1..Len(s)) \X (1..Len(s)) :
     /\ p[1] <= p[2]
     /\ \A i \in p[1]..p[2] : s[i] # Amp
     /\ p[1] = 1 \/ s[p[1] - 1] = Amp
     /\ p[2] = Len(s) \/ s[p[2] + 1] = Amp}

Nth(s, p) == Cardinality({o \in Parts(s) : o[1] <= p[1]})

Admitted(s, max) == {p \in Parts(s) : max <= 0 \/ Nth(s, p) <= max}

\* where the key of a part ends
KeyEnd(s, p) ==
  CHOOSE e \in p[1] - 1 .. p[2] :
    /\ \A i \in p[1]..e : s[i] # Equals
    /\ e = p[2] \/ s[e + 1] = Equals

ArgKey(s, p) == Decoded(SubSeq(s, p[1], KeyEnd(s, p)))
ArgValue(s, p) ==
  IF KeyEnd(s, p) = p[2] THEN LuaBool(TRUE) ELSE LuaStr(Decoded(SubSeq(s, KeyEnd(s, p) + 2, p[2])))

ArgsOfKey(s, max, key) ==
  InOrder({p \in Admitted(s, max) : ArgKey(s, p) = key}, LAMBDA p, o : p[1] < o[1])

ArgsTable(s, max) ==
  LET found == {ArgKey(s, p) : p \in Admitted(s, max)} \ {<<>>}
      Of(key) == ArgsOfKey(s, max, key)
  IN  LuaTab([k \in {LuaStr(key) : key \in found} |->
         LET ps == Of(k[2])
         IN  IF Len(ps) = 1 THEN ArgValue(s, ps[1])
             ELSE LuaTab([i \in {LuaInt(n) : n \in DOMAIN ps} |-> ArgValue(s, ps[i[2]])])])

CaptureTable(r) ==
  LuaTab([k \in {LuaStr(StatusField), LuaStr(BodyField), LuaStr(HeaderField)} |->
     CASE k[2] = StatusField -> LuaInt(r.status)
       [] k[2] = BodyField   -> LuaStr(r.body)
       [] OTHER -> LuaTab([h \in {LuaStr(n) : n \in {x \in DOMAIN r.headers : r.headers[x] # <<>>}}
                          |-> LuaStr(r.headers[h[2]][1])])])

\* The interpreter has pushed just this value.
Leaves(ran, v) == ran.ok /\ ran.stack = <<v>>

\* get_uri_args and get_post_args return every argument, those of one key in their
\* order, up to the first max parts that are not empty, and report a cut exactly
\* when there are more; location.capture returns status, body and the first value
\* of each header.  The order of Go's maps does not show.
TablesExact ==
  /\ last.call = "args" =>
       /\ Leaves(last.pushed, ArgsTable(last.raw, last.max))
       /\ last.truncated <=> (Admitted(last.raw, last.max) # Parts(last.raw))
  /\ last.call = "capture" => Leaves(last.pushed, CaptureTable(last.response))

----------------------------------------------------------------------------
(* Batches *)

Perform(stack, op) ==
  LET key == IF op[1] \in {"setField", "setFieldInline"} THEN LuaStr(op[2])
             ELSE IF op[1] = "setIndex" THEN LuaInt(op[2]) ELSE LuaNil IN
  CASE op[1] = "nil"                        -> Push(stack, LuaNil)
    [] op[1] = "bool"                       -> Push(stack, LuaBool(op[2]))
    [] op[1] = "int"                        -> Push(stack, LuaInt(op[2]))
    [] op[1] = "number"                     -> Push(stack, LuaNum(op[2]))
    [] op[1] \in {"string", "inlineString"} -> Push(stack, LuaStr(op[2]))
    [] op[1] \in {"table", "tableSized"}    -> Push(stack, NewTable)
    [] op[1] = "set"                        -> SetsTop(stack)
    [] op[1] = "pop"                        -> Drop(stack, op[2])
    [] OTHER                                -> SetsField(stack, key)

\* the stack after all the operations
Performed(ops) ==
  LET after[n \in 0..Len(ops)] == IF n = 0 THEN <<>> ELSE Perform(after[n - 1], ops[n])
  IN  after[Len(ops)]

\* What C makes of the bytes is what Go meant by them: each operation with its
\* operands, whatever the lengths and signs, and none is left over.
BatchFaithful ==
  last.call = "batch" =>
    /\ last.ran.ok
    /\ last.ran.pos = last.bytes
    /\ last.ran.stack = Performed(last.ops)

----------------------------------------------------------------------------
(* Headers *)

HostLines(r) == IF r.host = <<>> THEN 0 ELSE 1

Values(r, name) == IF name = HostName THEN r.host ELSE r.header[name]

Names(r) == DOMAIN r.header \cup (IF r.host = <<>> THEN {} ELSE {HostName})

Total(r) == MapThenSumSet(LAMBDA n : Len(Values(r, n)), Names(r))

\* what a table has of a header
Kept(t, name, raw) == IF Key(name, raw) \in DOMAIN t THEN t[Key(name, raw)] ELSE <<>>

LinesIn(t, r, raw) == MapThenSumSet(LAMBDA n : Len(Kept(t, n, raw)), Names(r))

Allowed(r, max) ==
  CASE max = 0 -> Total(r)
    [] max > 0 -> IF max < Total(r) THEN max ELSE Total(r)
    [] OTHER   -> Total(r) - HostLines(r)

\* the other ways to write a name with a hyphen
Spellings(name) == {[name EXCEPT !.sep = sep, !.spelling = how] : sep \in {"-", "_"}, how \in {"canonical", "lower"}}

\* get_headers returns as many header lines as max allows, the first ones of each
\* header, and reports a cut exactly when a line is missing, whatever the order of
\* the map and though Host is kept apart.  (A negative max, which is not an
\* unlimited one here, costs the Host, unreported.)  In the normalized table each
\* header is found under every spelling of its name that is not another header's.
HeadersExact ==
  last.call = "headers" =>
    LET t    == last.got.table
        kept == LinesIn(t, last.req, last.raw)
    IN  /\ DOMAIN t \subseteq {Key(n, last.raw) : n \in Names(last.req)}
        /\ \A n \in Names(last.req) : IsPrefix(Kept(t, n, last.raw), Values(last.req, n))
        /\ kept = Allowed(last.req, last.max)
        /\ last.max >= 0 => (last.got.truncated <=> kept < Total(last.req))
        /\ ~last.raw => \A n \in Names(last.req) :
             /\ Kept(t, n, FALSE) # <<>> => Lookup(t, ToLower(n), FALSE) = Kept(t, n, FALSE)
             /\ n.sep = "-" => \A other \in Spellings(n) \ DOMAIN t :
                                  Lookup(t, other, FALSE) = Kept(t, n, FALSE)

----------------------------------------------------------------------------
(* Output *)

\* A path leads from the arguments through elements of tables.  length gives how
\* many elements of a table count.
At(heap, length, args, p) ==
  LET at[k \in DOMAIN p] ==
        IF k = 1 THEN args[p[1]]
        ELSE IF IsTable(at[k - 1]) /\ p[k] <= length[at[k - 1][2]]
        THEN Element(heap[at[k - 1][2]], p[k])
        ELSE <<"no value", 0>>
  IN  at[Len(p)]

\* the elements of an array, with its holes
Extent(t) == IF DOMAIN t \ {OtherKey} = {} THEN 0 ELSE Max(DOMAIN t \ {OtherKey})

\* no table below the arguments, and not their list, is longer
Width(length, args) == Max({Len(args)} \cup {length[t] : t \in DOMAIN length})

\* the paths of up to n steps that lead to values
Paths(heap, length, args, n) ==
  {p \in UNION {[1..k -> 1..Width(length, args)] : k \in 1..n} :
     p[1] \in DOMAIN args /\ Found(At(heap, length, args, p))}

PathBefore(p, q) ==
  \E k \in DOMAIN p \cap DOMAIN q : p[k] < q[k] /\ \A i \in 1 .. k - 1 : p[i] = q[i]

\* the leaves that lie in order below the arguments
LeavesBelow(heap, length, args, n) ==
  LET leaf == {p \in Paths(heap, length, args, n) : ~IsTable(At(heap, length, args, p))}
      own  == InOrder(leaf, PathBefore)
  IN  [i \in DOMAIN own |-> At(heap, length, args, own[i])]

\* say and print write every element of a table, in its order and with a nil for a hole,
\* or nothing at all and report an error: for a function or a table that is no array
\* anywhere below, and for tables nested deeper than maxTableDepth, such as one that
\* contains itself
SaidWhole(o, answer) ==
  LET length == [t \in DOMAIN o.heap |-> Extent(o.heap[t])]
      depth == MaxTableDepth + 2
      below == {At(o.heap, length, o.args, p) : p \in Paths(o.heap, length, o.args, depth)}
      deep  == {p \in Paths(o.heap, length, o.args, depth) :
                  Len(p) = depth /\ IsTable(At(o.heap, length, o.args, p))}
  IN  /\ answer.ok <=>
           /\ \A v \in below : IF IsTable(v) THEN IsArrayTable(o.heap[v[2]]) ELSE v[1] \in SayTypes
           /\ deep = {}
      /\ answer.text =
           IF answer.ok
           THEN LeavesBelow(o.heap, length, o.args, depth) \o (IF o.newline THEN <<NewLine>> ELSE <<>>)
           ELSE <<>>

\* send refuses booleans and nil in a table, and leaves out what follows the hole at
\* which Lua ends the table
SentWhole(o, length, answer) ==
  LET found == LeavesBelow(o.heap, length, <<o.data>>, Cardinality(DOMAIN o.heap) + 1)
  IN  /\ answer.ok <=>
           IF IsTable(o.data) THEN \A i \in DOMAIN found : found[i][1] \in ElementTypes
           ELSE o.data[1] \in SendTypes
      /\ answer.text = IF answer.ok THEN found ELSE <<>>

\* say, print and send write all of what they are given, in order, or nothing at all
\* and report an error.
OutputWhole ==
  /\ last.call = "say" => SaidWhole(last.o, last.answer)
  /\ last.call = "send" => SentWhole(last.o, last.length, last.answer)

----------------------------------------------------------------------------
(* The HTTP client *)

\* how many redirects the server sends before another answer
Redirects(server) == SelectInSeq(server.answers, LAMBDA a : a # "redirect") - 1

Limit(reqt) == IF reqt.maxredirects = Unset THEN 5 ELSE reqt.maxredirects

Answered(reqt, server) ==
  /\ server.readable
  /\ IF reqt.redirect = FALSE
     THEN server.answers[1] # "fails"
     ELSE /\ Redirects(server) = 0 \/ Redirects(server) <= Limit(reqt)
          /\ server.answers[Redirects(server) + 1] = "final"

\* The request returns a body, or 1 when there is a sink, with the status of the
\* last answer, and an error in all other cases: README 384-400.  Nothing is sent
\* unless the url is valid and the source has ended well; then the body is all it
\* gave, with its length unless the caller gave one.  The sink is called only with an answer that was
\* read to its end, and once more after that.
ClientHonest ==
  last.call = "fetch" =>
    LET reqt   == last.fetch.reqt
        server == last.fetch.server
        a      == last.answer
        sourced == reqt.source # Unset
        good    == (sourced => reqt.source.end = "nil") /\ reqt.url = "valid"
        passes  == reqt.sink \in {Unset, "accepts", "silent"}
    IN  /\ a.ok <=> good /\ Answered(reqt, server) /\ passes
        /\ a.ok => /\ a.first = IF reqt.sink = Unset THEN "body" ELSE "1"
                   /\ a.status = "redirect" <=> reqt.redirect = FALSE /\ Redirects(server) > 0
        /\ a.asked > 0 <=> good
        /\ a.asked > 0 /\ sourced =>
             /\ a.sent.body = FlattenSeq(reqt.source.chunks)
             /\ a.sent.length = IF reqt.length = Unset THEN Len(a.sent.body) ELSE reqt.length
        /\ a.asked <= Redirects(server) + 1
        /\ a.asked <= Limit(reqt) + 1 \/ a.asked <= 1
        /\ a.calls # <<>> => Answered(reqt, server) /\ IsPrefix(a.calls, <<"data", "end">>)
        /\ a.ok /\ reqt.sink # Unset => a.calls = <<"data", "end">>
=============================================================================
