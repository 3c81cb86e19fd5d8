------------------------------ MODULE LuaBatch ------------------------------
(***************************************************************************)
(* LuaBatch (lua_batch.go) writes operations on a Lua stack into a buffer  *)
(* of bytes, which lua_batch_push (lua_helpers.h) runs in one call from Go *)
(* into C.  A batch has the buffer and the strings that the buffer points  *)
(* to: a pointer is the place of its string among them, 0 is nil.          *)
(*                                                                         *)
(* A Lua value is a pair of its type and its content; the content of a     *)
(* table is a function from keys to values.  A number is the argument of   *)
(* lua_pushinteger, a float its eight bytes.                               *)
(***************************************************************************)
EXTENDS Integers, Sequences, SequencesExt

LuaNil       == <<"nil", FALSE>>
LuaBool(b)   == <<"boolean", b>>
LuaInt(n)    == <<"number", n>>
LuaNum(f)    == <<"float", f>>
LuaStr(s)    == <<"string", s>>
LuaTab(f)    == <<"table", f>>
NewTable  == LuaTab([k \in {} |-> LuaNil])

----------------------------------------------------------------------------
(* Writing: v in n bytes, the lowest first, negative v in two's complement *)

Le(v, n) ==
  LET rest[i \in 0..n] == IF i = 0 THEN v ELSE rest[i - 1] \div 256
  IN  [i \in 1..n |-> rest[i - 1] % 256]

Reset == [buf |-> <<>>, strings |-> <<>>]

Write(b, bytes) == [b EXCEPT !.buf = @ \o bytes]

\* an empty string has no data to point to, but has its place all the same
WriteStringPtr(b, op, s) ==
  [buf |-> b.buf \o <<op>> \o Le(IF s = <<>> THEN 0 ELSE Len(b.strings) + 1, 8) \o Le(Len(s), 4),
   strings |-> Append(b.strings, s)]

WriteInline(b, op, s) == Write(b, <<op>> \o Le(Len(s), 4) \o s)

\* one operation, by its name and its arguments
Encode(b, op) ==
  CASE op[1] = "nil"            -> Write(b, <<1>>)
    [] op[1] = "bool"           -> Write(b, <<IF op[2] THEN 2 ELSE 3>>)
    [] op[1] = "int"            -> Write(b, <<4>> \o Le(op[2], 8))
    [] op[1] = "number"         -> Write(b, <<5>> \o op[2])
    [] op[1] = "string"         -> WriteStringPtr(b, 6, op[2])
    [] op[1] = "inlineString"   -> WriteInline(b, 7, op[2])
    [] op[1] = "table"          -> Write(b, <<8>>)
    [] op[1] = "tableSized"     -> Write(b, <<9>> \o Le(op[2], 4) \o Le(op[3], 4))
    [] op[1] = "set"            -> Write(b, <<10>>)
    [] op[1] = "setField"       -> WriteStringPtr(b, 11, op[2])
    [] op[1] = "setFieldInline" -> WriteInline(b, 12, op[2])
    [] op[1] = "setIndex"       -> Write(b, <<13>> \o Le(op[2], 4))
    [] op[1] = "pop"            -> Write(b, <<14, op[2] % 256>>)

EncodeAll(ops) ==
  LET after[n \in 0..Len(ops)] == IF n = 0 THEN Reset ELSE Encode(after[n - 1], ops[n])
  IN  after[Len(ops)]

----------------------------------------------------------------------------
(* What the operations do to a stack, the top of which is at its end *)

Push(stack, v) == Append(stack, v)
Top(stack, i) == stack[Len(stack) - i]
Drop(stack, n) == SubSeq(stack, 1, Len(stack) - n)

\* stack[#stack - below][k] = v; nil takes the entry away
TableSet(stack, below, k, v) ==
  LET at == Len(stack) - below
      f  == stack[at][2]
  IN  [stack EXCEPT ![at] = LuaTab([x \in (DOMAIN f \cup {k}) \ (IF v = LuaNil THEN {k} ELSE {})
                                  |-> IF x = k THEN v ELSE f[x]])]

\* a value moves from the top into the table below it
SetsField(stack, k) == Drop(TableSet(stack, 1, k, Top(stack, 0)), 1)
SetsTop(stack) == Drop(TableSet(stack, 2, Top(stack, 1), Top(stack, 0)), 2)

----------------------------------------------------------------------------
(* The interpreter: a state is the stack and how much of the buffer is read *)

\* the number in the n bytes after position p; (int) and int64_t are signed
ReadFrom(buf, p, n, signed) ==
  LET up[i \in 0..n] ==
        IF i = 0 THEN IF signed /\ buf[p + n] >= 128 THEN -1 ELSE 0
        ELSE up[i - 1] * 256 + buf[p + n + 1 - i]
  IN  up[n]

U(buf, p, n) == ReadFrom(buf, p, n, FALSE)
I(buf, p, n) == ReadFrom(buf, p, n, TRUE)

\* the bytes that an operation needs after its code, not counting inline text
Operand(op) ==
  CASE op \in {4, 5, 9}   -> 8
    [] op \in {6, 11}     -> 12
    [] op \in {7, 12, 13} -> 4
    [] op = 14            -> 1
    [] OTHER              -> 0

\* the text that an embedded pointer and a length stand for
PointedTo(b, p) ==
  LET at == U(b.buf, p, 8)
      n  == U(b.buf, p + 8, 4)
  IN  IF at = 0 THEN <<>> ELSE SubSeq(b.strings[at], 1, n)

\* Slip: the text of an inline string is not skipped.
InlineLengthNone(b, op, p) == 0

InlineLength(b, op, p) == IF op \in {7, 12} THEN U(b.buf, p, 4) ELSE 0

InlineText(b, p) == SubSeq(b.buf, p + 5, p + 4 + U(b.buf, p, 4))

\* an unknown operation, or one that the buffer does not hold to its end
Short(b, op, p) ==
  \/ op \notin 1..14
  \/ p + Operand(op) > Len(b.buf)
  \/ p + Operand(op) + InlineLength(b, op, p) > Len(b.buf)

\* the stack after an operation whose operands start after p
Effect(b, op, p, s) ==
  CASE op = 1  -> Push(s, LuaNil)
    [] op = 2  -> Push(s, LuaBool(TRUE))
    [] op = 3  -> Push(s, LuaBool(FALSE))
    [] op = 4  -> Push(s, LuaInt(I(b.buf, p, 8)))
    [] op = 5  -> Push(s, LuaNum(SubSeq(b.buf, p + 1, p + 8)))
    [] op = 6  -> Push(s, LuaStr(PointedTo(b, p)))
    [] op = 7  -> Push(s, LuaStr(InlineText(b, p)))
    [] op \in {8, 9} -> Push(s, NewTable)
    [] op = 10 -> SetsTop(s)
    [] op = 11 -> SetsField(s, LuaStr(PointedTo(b, p)))
    [] op = 12 -> SetsField(s, LuaStr(InlineText(b, p)))
    [] op = 13 -> SetsField(s, LuaInt(I(b.buf, p, 4)))
    [] op = 14 -> Drop(s, b.buf[p + 1])

\* lua_batch_push after the operation at st.pos
Step(b, st) ==
  LET op == b.buf[st.pos + 1]
      p  == st.pos + 1
  IN  IF Short(b, op, p) THEN [st EXCEPT !.ok = FALSE]
      ELSE [pos |-> p + Operand(op) + InlineLength(b, op, p),
            stack |-> Effect(b, op, p, st.stack), ok |-> TRUE]

\* until the buffer is read, or an operation is cut short
Run(b, stack) ==
  LET after[n \in 0..Len(b.buf)] ==
        IF n = 0 THEN [pos |-> 0, stack |-> stack, ok |-> TRUE]
        ELSE LET st == after[n - 1]
             IN  IF st.ok /\ st.pos < Len(b.buf) THEN Step(b, st) ELSE st
  IN  after[Len(b.buf)]

----------------------------------------------------------------------------
(* pushQueryArgsToLuaTable *)

ArgOp(arg) == IF arg.isBoolean THEN <<"bool", TRUE>> ELSE <<"string", arg.value>>

\* the arguments of one key, in their order
Bucket(args, key) ==
  LET upto[i \in 0..Len(args)] ==
        IF i = 0 THEN <<>>
        ELSE IF args[i].key = key THEN Append(upto[i - 1], args[i]) ELSE upto[i - 1]
  IN  upto[Len(args)]

Entry(key, bucket) ==
  IF Len(bucket) = 1 THEN << <<"string", key>>, ArgOp(bucket[1]), <<"set">> >>
  ELSE << <<"string", key>>, <<"tableSized", Len(bucket), 0>> >>
       \o FlattenSeq([i \in DOMAIN bucket |-> <<ArgOp(bucket[i]), <<"setIndex", i>> >>])
       \o << <<"set">> >>

Keys(args) == {args[i].key : i \in DOMAIN args} \ {<<>>}

\* order is that in which the loop over the map meets the keys
QueryArgsOps(args, order) ==
  << <<"tableSized", 0, Len(order)>> >>
  \o FlattenSeq([k \in DOMAIN order |-> Entry(order[k], Bucket(args, order[k]))])

\* the names of the fields, by their first letters
StatusField == <<115>>
BodyField   == <<98>>
HeaderField == <<104>>

\* CaptureResponse.PushToLua: the first value of each header, if it has one
CaptureOps(status, body, headers, order) ==
  << <<"table">>, <<"int", status>>, <<"setFieldInline", StatusField>>,
     <<"string", body>>, <<"setFieldInline", BodyField>>, <<"tableSized", 0, Len(order)>> >>
  \o FlattenSeq([k \in DOMAIN order |->
       IF headers[order[k]] = <<>> THEN <<>>
       ELSE << <<"string", order[k]>>, <<"string", headers[order[k]][1]>>, <<"set">> >>])
  \o << <<"setFieldInline", HeaderField>> >>
=============================================================================
