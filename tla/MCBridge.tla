------------------------------- MODULE MCBridge -------------------------------
EXTENDS Bridge

\* Routes whose objects matter, one per slot, and routes that may be promoted: handlers that use nothing,
\* one query key, the query of an unpacked parameter, and the ip.
Rt(handler, slots, split, errors) ==
    [handler |-> handler, slots |-> slots, split |-> split, errorHandler |-> errors,
     static |-> TRUE, cache |-> TRUE, requests |-> IF slots = {} THEN N ELSE 3]
Query == Use("query", "read", "b")
MCRoutes ==
    {[Rt(Fn("function", "req", {Query}), {s}, FALSE, FALSE) EXCEPT !.static = FALSE] : s \in Slots}
    \cup {Rt(Fn("function", "req", {}), {}, FALSE, FALSE),
          Rt(Fn("function", "req", {}), {}, TRUE, FALSE),
          Rt(Fn("function", "req", {}), {}, FALSE, TRUE),
          Rt(Fn("function", "req", {Query}), {}, FALSE, FALSE),
          Rt(Fn("function", "pattern", {Query}), {}, FALSE, FALSE),
          Rt(Fn("function", "req", {Use("ip", "read", NoKey)}), {}, FALSE, FALSE)}

\* Functions with one or two uses; a chain is a middleware and a handler.
Forms == {"function", "shorthand", "bound"}
ParamNames == {"req", "request", "pattern"}
MCChains == {[handler |-> Fn(f, p, {u}), other |-> Fn("function", "req", {v})] :
                f \in Forms, p \in ParamNames, u \in Uses, v \in Uses}

PerKey(a, b, proto) == [k \in Keys |-> CASE k = "a" -> a [] k = "b" -> b [] OTHER -> proto]
MCSample ==
    {[path |-> "/p", url |-> "/p?q", params |-> PerKey(<<1>>, <<2>>, <<>>),
      query |-> PerKey(<<2>>, <<1, 3>>, <<>>), headers |-> PerKey(<<>>, <<1, 3>>, <<2>>)],
     [path |-> "/p", url |-> "/p", params |-> PerKey(<<>>, <<2>>, <<1>>),
      query |-> PerKey(<<>>, <<>>, <<>>), headers |-> PerKey(<<1>>, <<>>, <<>>)]}

\* Messages with every length field around its limit.
Ones(length) == [i \in 1..length |-> 1]
Names == {Ones(1), Ones(U8), Ones(U8 + 1)}
Values == {<<>>, <<2, 3>>, Ones(U16), Ones(U16 + 1)}
Headers == {<<>>} \cup {<<<<a, v>>>> : a \in Names, v \in Values}
           \cup {<<<<Ones(1), v>>, <<<<2>>, w>>>> : v \in Values, w \in Values}

MCMessages ==
    [kind : {"request"}, method : {0, 1, 3}, flags : {3}, handlerId : {1, U32},
     url : {<<>>, <<1, 2>>}, path : {<<>>, <<3>>, Ones(U16), Ones(U16 + 1)}, ip : {<<>>, <<0>>},
     params : {<<>>, <<<<2>>, Ones(U16 + 1)>>, <<<<>>, <<1>>>>}, headers : Headers, body : {<<>>, <<2, 3>>}]
    \cup
    [kind : {"response"}, status : {0, 5, 7, U16, U16 + 2}, headers : Headers,
     body : {<<>>, <<2, 3>>, Ones(5)}, ncache : {<<>>, <<0, U32>>, <<7, 1>>}]
    \cup
    [kind : {"stream"}, streamId : {1, U32 + 1, U32 + 3}, status : {5, U16, U16 + 1}, headers : Headers]

MCSentinel == <<3, 1>>
MCMagic == <<2, 3>>
=============================================================================
