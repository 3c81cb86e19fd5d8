----------------------------- MODULE MCLuaCalls -----------------------------
(***************************************************************************)
(* Instances of LuaCalls for TLC: all query strings of up to MaxQuery      *)
(* bytes over the bytes that the parser tells apart, and inputs made of    *)
(* the cases that the other functions tell apart.                          *)
(***************************************************************************)
EXTENDS LuaCalls

CONSTANTS MaxQuery, MaxText

\* a, and 6 and 1 that make another a
A == 97   Six == 54   One == 49

Long == {<<A, Equals, One, Amp, Percent, Six, One, Equals, Six, Amp, One>>,
         <<Equals, A, Amp, A, Equals, One, Amp, Amp, A>>,
         <<A, Equals, Percent, Six, Amp, A, Equals, Percent, Six, One>>,
         <<A, Amp, One, Amp, Six, Amp, A, Equals, A, Equals>>}

MCQueries == BoundedSeq({A, Six, One, Percent, Amp, Equals, Plus}, MaxQuery) \cup Long

MCMaxima == {-1, 0, 1, 2, 5}

MCTexts == {<<b>> : b \in Byte}
           \cup BoundedSeq({0, 255, Space, Percent, Plus, 50, 66, 98, 71, 126}, MaxText)

Hyphen     == Name("x id", "-", "canonical")
Underscore == Name("x id", "_", "canonical")
Accept     == Name("accept", "-", "canonical")

HeaderSets == UNION {[N -> {<<"u">>, <<"u", "v">>, <<"u", "v", "w">>}] :
                       N \in SUBSET {Hyphen, Underscore, Accept}}

MCRequests == [header : HeaderSets, host : {<<>>, <<"h">>}]

\* operations that leave one value, and that put it in a table
Fill(n, b) == [i \in 1..n |-> b]

Values1 == {<<"bool", TRUE>>, <<"bool", FALSE>>, <<"int", 300>>, <<"int", -1>>, <<"int", -70000>>,
            <<"number", <<0, 0, 0, 0, 0, 0, 240, 63>> >>, <<"string", <<>> >>,
            <<"string", <<A, 0, 14>> >>, <<"inlineString", <<>> >>,
            <<"inlineString", Fill(300, 10)>>, <<"nil">>, <<"table">>, <<"tableSized", 300, 1>>}

Keys1 == Values1 \ {<<"nil">>}

Stores == {<< <<"setField", <<A>> >> >>, << <<"setField", <<>> >> >>,
           << <<"setFieldInline", <<A, One>> >> >>, << <<"setIndex", 1>> >>,
           << <<"setIndex", 300>> >>, << <<"setIndex", -1>> >>}

Filled == {<< <<"table">>, v>> \o st : v \in Values1, st \in Stores}
          \cup {<< <<"table">>, k, v, <<"set">> >> : k \in Keys1, v \in Values1}

MCPrograms ==
  {<<v>> : v \in Values1} \cup Filled
  \cup {f \o <<v>> \o st : f \in Filled, v \in {<<"nil">>, <<"string", <<A, A>> >>}, st \in Stores}
  \cup {f \o << <<"string", <<A>> >>, <<"bool", TRUE>>, <<"pop", n>> >> : f \in Filled, n \in 0..2}
  \cup {<<>>}

MCCaptures ==
  [status : {0, 200, 999}, body : {<<>>, <<A, One>>},
   headers : UNION {[N -> {<<>>, << <<Six>> >>, << <<Six>>, <<One>> >>}] : N \in SUBSET {<<A>>, <<One>>}}]

\* two tables that may contain each other or themselves, and holes
Leafs    == {<<"string", 1>>, <<"boolean", TRUE>>, <<"function", 0>>}
TablesOf(V) == UNION {[K -> V] : K \in {{}, {1}, {1, 2}, {2}, {1, 3}, {0, 1}}}
T1 == <<"table", 1>>
T2 == <<"table", 2>>

MCOutputs ==
  [heap : {<<t, u>> : t \in TablesOf(Leafs \cup {T1, T2}), u \in TablesOf({<<"string", 2>>, T1})},
   args : {<<>>, <<T1>>, <<T2, <<"null", 0>>, T1>>, << <<"nil", 0>>, T2>>, << <<"number", 3>>, <<"function", 0>> >>},
   newline : BOOLEAN]

MCSends ==
  [heap : {<<t, u>> : t \in TablesOf(Leafs \cup {T2}), u \in TablesOf(Leafs)},
   data : Leafs \cup {T1, NilValue, <<"null", 0>>}]

MCSources == {Unset} \cup [chunks : {<<>>, << <<A>> >>, << <<>>, <<A>>, <<One, Six>> >>}, end : {"nil", "error"}]

MCServers ==
  [answers : {[i \in 1..n |-> "redirect"] \o <<end>> : n \in 0..6, end \in {"final", "fails"}},
   readable : BOOLEAN]

MCReqts(urls) ==
  [url : urls, source : MCSources, body : {<<>>, <<Six>>}, length : {Unset, 7},
   redirect : {Unset, TRUE, FALSE}, maxredirects : {Unset, -1, 0, 1, 2},
   sink : {Unset, "accepts", "silent", "failsAtData", "failsAtEnd"}]

MCFetches ==
  [reqt : MCReqts({"valid"}), server : MCServers]
  \cup [reqt : MCReqts({"missing", "invalid"}),
        server : {[answers |-> <<"final">>, readable |-> TRUE]}]
=============================================================================
