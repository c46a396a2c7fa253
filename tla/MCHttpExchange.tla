--------------------------- MODULE MCHttpExchange ---------------------------
(* A small instance of HttpExchange: settings with blanks and empty pieces,  *)
(* paths with doubled slashes, blanks, dots, delimiters and second escapes.    *)
EXTENDS HttpExchange

MCOrigin == {"", "http://a", "http://b"}
MCTrimOf == [t \in {"", " ", "http://a", " http://b"} |->
    CASE t = " " -> "" [] t = " http://b" -> "http://b" [] OTHER -> t]
MCCorsSetting == {<<"">>, <<" ", "">>, <<"http://a">>, <<"http://a", " http://b", "">>}

MCBasePath == {<<>>, <<"/">>, <<"/", "b">>, <<"/", "b", "/">>, <<"/", "/", "b">>}
MCEscaped == [code \in {<<"2", "F">>, <<"2", "5">>, <<"3", "F">>, <<"2", "2">>} |->
    CASE code = <<"2", "F">> -> "/" [] code = <<"2", "5">> -> "%" [] code = <<"3", "F">> -> "?"
      [] OTHER -> "v"]
MCPath == {<<>>, <<"v">>, <<"v", "/">>, <<"/", "v">>, <<"/", "/", "v", "/", "v">>, <<"v", "/", "/", "v">>,
           <<"sp", "v", "sp">>, <<"sp">>, <<"v", "?", "v">>, <<"v", "#", "v">>, <<"v", "#", "%">>,
           <<"v", "%", "v">>, <<"v", "?", "%">>, <<".", ".", "/", ".", ".", "/", "v">>,
           <<"v", "%", "2", "F", "v">>, <<"%", "2", "5", "2", "2">>, <<"v", "%", "3", "F", "q", "%">>,
           <<"%", "2", "2", "?", "v">>, <<"%", "2">>, <<"#", "%", "2", "2">>,
           <<"%", "2", "F", ".", ".", "%", "2", "F">>}
MCQuery == {<<>>, <<"q">>, <<"q", "?">>, <<"q", "#", "q">>, <<"q", "#", "%">>, <<"%", "v">>}
MCMethod == {"GET", "DELETE", "OPTIONS"}

MCName == {"Connection", "Upgrade", "Set-Cookie", "X-Trace"}
MCListed == [v \in {"close", "x-trace", "vary, upgrade"} |->
    CASE v = "x-trace" -> {"X-Trace"} [] v = "vary, upgrade" -> {"Vary", "Upgrade"} [] OTHER -> {}]

Plus(h, n, values) == [h EXCEPT ![n] = values]
Ordinary == Plus(Plus(NoHeader, "Set-Cookie", <<"close", "x-trace">>), "X-Trace", <<"close">>)
MCAnswer ==
    {Plus(Plus(Ordinary, "Connection", c), "Access-Control-Allow-Origin", o) :
        c \in {<<>>, <<"close">>, <<"close", "x-trace">>, <<"vary, upgrade", "x-trace">>},
        o \in {<<>>, <<"*">>, <<"http://a">>}}
    \union {NoHeader, Plus(Ordinary, "Upgrade", <<"close">>), Plus(Ordinary, "Vary", <<"Origin">>),
            Plus(Plus(Ordinary, "Vary", <<"*">>), "Connection", <<"vary, upgrade">>)}
=============================================================================
