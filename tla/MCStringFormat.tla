--------------------------- MODULE MCStringFormat ---------------------------
(***************************************************************************)
(* An int of four bits and a long of six: every number of both types, with *)
(* every directive, alone and between other pieces; then two numbers.      *)
(***************************************************************************)
EXTENDS StringFormat

Signs == {<<>>, <<"u">>}
Bases == {<<>>, <<"b">>, <<"h">>, <<"o">>}
Directives == {<<"%">> \o u \o b \o <<t>> : u \in Signs, b \in Bases, t \in {"i", "l"}}
              \cup {<<"%", "p">>}

X       == <<"x">>
Percent == <<"%", "%">>
Strange == <<"%", "u", "z">>

MCFormats == {<<d>> : d \in Directives}
             \cup {<<X, d, Percent, X>> : d \in Directives}
             \cup {<<<<"%", "i">>, X, <<"%", "u", "h", "l">>, X>>, <<X, X>>, <<>>,
                   <<Strange, <<"%", "b", "i">>>>, <<Percent, Strange>>}

MCArguments == -32 .. 63
=============================================================================
