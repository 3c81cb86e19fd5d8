------------------------------ MODULE LuaOutput ------------------------------
(***************************************************************************)
(* Lua values as text: the arguments of golapis.say and golapis.print      *)
(* (bindings.go), and the data that send of a socket takes                 *)
(* (udp_socket.go).  A value is a pair of its type and its content; the    *)
(* content of a table is its place in a heap of functions from keys to     *)
(* values, so that tables may contain each other.  OtherKey stands for     *)
(* every key that is not a positive integer.  A text is the sequence of    *)
(* the values that are written.                                            *)
(***************************************************************************)
EXTENDS Integers, Sequences, FiniteSets, SequencesExt

CONSTANT MaxTableDepth   \* maxTableDepth, 100 in the code

ASSUME DepthAssumption == MaxTableDepth \in Nat

OtherKey == 0
NilValue == <<"nil", 0>>
NewLine  == <<"newline", 0>>

IsTable(v) == v[1] = "table"

Written(text) == [ok |-> TRUE, text |-> text]
BadArgument   == [ok |-> FALSE, text |-> <<>>]

\* an error ends the loop
Then(acc, r) ==
  IF ~acc.ok THEN acc ELSE IF ~r.ok THEN r ELSE Written(acc.text \o r.text)

----------------------------------------------------------------------------
(* Tables *)

\* Slip: the largest key is not looked for, the elements are counted.
MaxKeyCount(t) == Len(SetToSeq(DOMAIN t))

\* validateArrayTable
IsArrayTable(t) == OtherKey \notin DOMAIN t
MaxKey(t) == IF DOMAIN t = {} THEN 0 ELSE CHOOSE n \in DOMAIN t : \A m \in DOMAIN t : m <= n

Element(t, i) == IF i \in DOMAIN t THEN t[i] ELSE NilValue

Elements(t, n) == [i \in 1..n |-> Element(t, i)]

\* the text of a value that is a table or has one of the types, given that of every
\* table
TextOf(tables, types, v) ==
  IF IsTable(v) THEN tables[v[2]] ELSE IF v[1] \in types THEN Written(<<v>>) ELSE BadArgument

\* the texts of values one after the other
TextOfAll(tables, types, vs) ==
  LET upto[i \in 0..Len(vs)] ==
        IF i = 0 THEN Written(<<>>) ELSE Then(upto[i - 1], TextOf(tables, types, vs[i]))
  IN  upto[Len(vs)]

\* coerceTableToBytes, and appendLuaValue of a table: the text of every table that
\* stands where so many levels of tables are left
TextOfTables(heap, arrays, length, types, levels) ==
  LET at[n \in 0..levels] ==
        [t \in DOMAIN heap |->
           IF n = 0 \/ t \notin arrays THEN BadArgument
           ELSE TextOfAll(at[n - 1], types, Elements(heap[t], length[t]))]
  IN  at[levels]

----------------------------------------------------------------------------
(* say and print *)

\* what coerceValueToBytes takes: no functions, threads, userdata
SayTypes == {"string", "number", "boolean", "nil", "null"}

Coerced(heap) ==
  TextOfTables(heap, {t \in DOMAIN heap : IsArrayTable(heap[t])},
               [t \in DOMAIN heap |-> MaxKey(heap[t])], SayTypes, MaxTableDepth + 1)

\* golapisOutput: nothing is written before all arguments are text
Output(heap, args, newline) ==
  LET all == TextOfAll(Coerced(heap), SayTypes, args)
  IN  IF all.ok THEN Written(all.text \o (IF newline THEN <<NewLine>> ELSE <<>>)) ELSE all

----------------------------------------------------------------------------
(* send *)

\* lua_objlen: the length of a table with holes is the place before any of them
Borders(t) == {n \in {0} \cup DOMAIN t : n + 1 \notin DOMAIN t}

\* appendLuaValue of what is not a table: inside of a table it is strict
SendTypes    == {"string", "number", "boolean", "nil"}
ElementTypes == {"string", "number"}

\* There is no limit of depth in the code; tables that do not contain themselves
\* have no more levels than there are tables.  For one that contains itself the call
\* does not return.
Appended(heap, length) ==
  TextOfTables(heap, DOMAIN heap, length, ElementTypes, Cardinality(DOMAIN heap))

SendData(heap, length, v) == TextOf(Appended(heap, length), SendTypes, v)
=============================================================================
