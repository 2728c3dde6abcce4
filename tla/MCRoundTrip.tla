------------------------------ MODULE MCRoundTrip ------------------------------
EXTENDS RoundTrip

S(kind, text) == [kind |-> kind, text |-> text, items |-> <<>>]
Str(text) == S("string", text)
Arr(items) == [kind |-> "array", text |-> <<>>, items |-> items]
A == <<"a">>
E(k, v) == [key |-> k, value |-> v]
Undefined == [kind |-> "undefined", entries |-> <<>>]
Other == [kind |-> "other", entries |-> <<>>]
Obj(entries) == [kind |-> "object", entries |-> entries]

Lit(t) == [kind |-> "literal", name |-> "none", text |-> t]
Par(n) == [kind |-> "param", name |-> n, text |-> <<>>]
Odd(k) == [kind |-> k, name |-> "*", text |-> <<>>]
Template(segs) == [slash |-> TRUE, segments |-> segs, query |-> <<>>]

Items == Template(<<Lit(<<"i">>), Par("id")>>)
List == Template(<<Lit(<<"i">>)>>)
Files == Template(<<Lit(<<"f">>), Odd("wildcard")>>)
New == Template(<<Lit(<<"n">>)>>)
Form == Template(<<Lit(<<"m">>)>>)
Mine == Template(<<Lit(<<"i">>), Lit(<<"m">>)>>)

-----------------------------------------------------------------------------
(* What callers pass, and what the schemas of routes say they may.         *)

OneHeader == Obj(<<E("x-a", S("string", "1"))>>)

Queries ==
  {Obj(<<E("q", v)>>) : v \in {Str(<<>>), Str(<<"?">>), S("undefined", <<>>), S("null", <<>>), S("object", <<>>),
                               S("number", A), Str(<<Lone, "a">>),
                               Arr(<<>>), Arr(<<Str(A)>>), Arr(<<Str(A), Str(<<>>)>>),
                               Arr(<<Str(<<"/">>), Str(A), Str(<<"%">>)>>), Arr(<<Arr(<<>>)>>)}}
  \cup {Obj(<<E("p", Str(A)), E("q", Arr(<<Str(A), Str(A)>>))>>), Other, Undefined}

Headers ==
  {Obj(<<E("x-a", S("string", "1")), E("X-A", S("string", "2"))>>), Obj(<<E("x-a", S("undefined", "1"))>>),
   Obj(<<E("x-a", S("number", "1"))>>), Obj(<<E("x-a", S("broken", "1"))>>), Other,
   Obj(<<E("x-a", S("foreign", "1")), E("X-A", S("number", "1"))>>), OneHeader, Obj(<<>>), [Other EXCEPT !.kind = "null"]}
  \cup {Obj(<<E("content-type", S("string", m))>>) : m \in {"application/vnd+json", "text/plain"}}

JsonValues == {Tree(n, <<>>) : n \in {"null", "nan", "function", "bigint", "string"}}
              \cup {Tree("object", <<Tree(n, <<>>)>>) : n \in {"undefined", "string", "bigint"}}

\* A schema of what the wire carries, and one of anything.
Strict(r) ==
  [r EXCEPT !.inputs.query = {q \in Queries \cup {Obj(<<>>)} : queryFault(q) = "none"},
            !.inputs.headers = {h \in Headers : headersFault(h) = "none" /\ contentType(setHeaders(h)) = "none"}]
Loose(r) == [r EXCEPT !.inputs = [query |-> Queries \cup {Obj(<<>>)}, headers |-> Headers, body |-> JsonValues]]

-----------------------------------------------------------------------------
(* The routes, with every kind of body type a handler may declare.         *)

Leaf(n) == Type(n, {})
Members == {Leaf("string"), Leaf("number"), Leaf("undefined"), Leaf("bigint"), Leaf("null"),
            Type("hook", {Leaf("undefined"), Leaf("string")}), Type("hook", {Type("hook", {Leaf("number")})})}
Mixed == {u \in SUBSET Members : Cardinality(u) \in 1 .. 3}
BodyTypes == Mixed \cup {{Type("object", u)} : u \in Mixed} \cup {{Type("array", u)} : u \in Mixed}
             \cup {{Type("object", {Type("array", u), Leaf("undefined")})} : u \in Mixed} \cup {{Leaf("map")}}

MCUnions ==
  << {{Leaf("nothing")}, {Leaf("map")}, {Leaf("string")}, {Leaf("number")}, {Leaf("broken"), Leaf("string")},
      {Leaf("undefined"), Leaf("string")}},
     {{Type("hook", {Leaf("number")})}, {Type("object", {Leaf("number")})}},
     Mixed,
     {{Type(n, u)} : n \in {"object", "array"}, u \in Mixed} \cup {{Type("array", u), Leaf("undefined")} : u \in Mixed},
     {{Type("object", {Type("array", u), Leaf("undefined")})} : u \in Mixed} >>

MCBodies ==
  LET exactly[i \in 1 .. 5] ==
        IF i = 1 THEN {Tree(n, <<>>) : n \in Leaves \cup {"object", "array"}}
        ELSE {Tree(n, <<v>>) : n \in Nested, v \in exactly[i - 1]}
  IN <<exactly[1], exactly[2], exactly[3], exactly[4], exactly[5]>>

Returns(h, s, t, o) == [helper |-> h, status |-> s, type |-> t, override |-> o]
NoType == {Leaf("nothing")}

R(t, m, slots, b, handlers) ==
  [template |-> t, method |-> m, slots |-> slots, body |-> b, handlers |-> handlers,
   inputs |-> [query |-> {}, headers |-> {}, body |-> {}]]

MCRoutes ==
  {R(List, "GET", {}, "none", {{Returns("json", 200, t, "none")} : t \in BodyTypes}),
   Strict(R(Items, "ALL", {"headers", "params", "query"}, "none",
     {{Returns("text", 200, NoType, "text/html"), Returns("problem", 404, NoType, "none")},
      {Returns("json", 409, {Type("object", {Leaf("number")})}, "application/vnd+json")}})),
   R(Files, "GET", {"query"}, "none",
     {{Returns("raw", 200, {Leaf("broken"), Leaf("string")}, m)} : m \in {"application/json", "text/plain", "image/png"}}),
   Loose(R(New, "POST", {"headers", "query"}, "json",
     {{Returns("json", 201, {Leaf("string")}, "text/html"), Returns("empty", 204, NoType, "none")},
      {Returns("text", 200, NoType, "application/json"), Returns("redirect", 303, NoType, "none")},
      {Returns("empty", 204, NoType, "text/html"), Returns("problem", 422, NoType, "application/json")}})),
   Strict(R(Mine, "GET", {"query"}, "none", {{Returns("json", 204, {Leaf("string")}, "none")}})),
   R(Form, "POST", {}, "form", {{Returns("json", 200, {Leaf("string")}, "none")}})}

-----------------------------------------------------------------------------
(* The calls: a typed one for every route, and what may be wrong with each *)
(* part of it.                                                             *)

Base(k, q, p) == [kind |-> k, query |-> q, path |-> p]
Http == Base("http", FALSE, <<>>)
Init0 == [kind |-> "undefined", keys |-> {}]
NoBody == [kind |-> "undefined", entries |-> <<>>, value |-> Tree("undefined", <<>>)]
Value(v) == [kind |-> "value", entries |-> <<>>, value |-> v]
FormBody(entries) == [kind |-> "formBody", entries |-> entries, value |-> Tree("undefined", <<>>)]

Call(m, t, p, q, h, b) ==
  [kind |-> "method", base |-> Http, method |-> m, template |-> t, params |-> p, query |-> q, headers |-> h,
   body |-> b, init |-> Init0, path |-> <<>>]

Id(t) == Obj(<<E("id", Str(t))>>)

listCall == Call("GET", List, Undefined, Undefined, Undefined, NoBody)
itemCall == Call("GET", Items, Id(A), Obj(<<>>), OneHeader, NoBody)
fileCall == Call("GET", Files, Obj(<<E("*", Str(A))>>), Obj(<<>>), Undefined, NoBody)
newCall == Call("POST", New, Undefined, Obj(<<>>), OneHeader, Value(Tree("string", <<>>)))
formCall == Call("POST", Form, Undefined, Undefined, Undefined, FormBody(<<E("f", Str(A))>>))

Texts == {<<>>, A, <<"m">>, <<"a", "/", "i">>, <<"/">>, <<"a", "?", "%">>, <<".">>, <<".", ".">>, <<"a", Lone>>}

PathCalls ==
  {[itemCall EXCEPT !.params = Id(t)] : t \in Texts}
  \cup {[itemCall EXCEPT !.params = p] :
          p \in {Undefined, Other, Obj(<<>>), Obj(<<E("id", S("null", <<>>))>>), Obj(<<E("id", Arr(<<Str(A)>>))>>),
                 Obj(<<E("id", S("number", A))>>), Obj(<<E("id", Str(A)), E("z", Str(A))>>)}}
  \cup {[fileCall EXCEPT !.params = Obj(<<E("*", v)>>)] :
          v \in {Str(t) : t \in Texts} \cup {Arr(<<>>), Arr(<<Str(A), Str(<<"/">>)>>), Arr(<<Str(<<>>)>>), S("number", A)}}
  \cup {[fileCall EXCEPT !.params = Undefined]}
  \cup {[listCall EXCEPT !.template = t] :
          t \in {[List EXCEPT !.slash = FALSE], Template(<<Par("id"), Par("id")>>), Template(<<Odd("badParam")>>),
                 Template(<<Odd("wildcard"), Lit(A)>>), Template(<<Lit(A), Odd("malformed")>>)}}
  \cup {[listCall EXCEPT !.params = Obj(<<>>)], [listCall EXCEPT !.template.query = <<[key |-> "q", text |-> A]>>]}

Parts == {Str(A), Str(<<Lone>>), S("number", A), S("blob", A), S("undefined", <<>>), S("object", <<>>),
          Arr(<<Str(A), S("blob", <<>>)>>), Arr(<<Arr(<<>>)>>), Arr(<<>>)}

Inits == {[kind |-> "null", keys |-> {}], [kind |-> "other", keys |-> {}],
          [kind |-> "object", keys |-> {"redirect"}], [kind |-> "object", keys |-> {"signal", "body"}]}

MCCalls ==
  {listCall, newCall, formCall} \cup PathCalls
  \cup {[c EXCEPT !.query = q] : c \in {itemCall, newCall}, q \in Queries}
  \cup {[c EXCEPT !.headers = h] : c \in {itemCall, newCall, formCall}, h \in Headers}
  \cup {[newCall EXCEPT !.body = b] : b \in {Value(v) : v \in JsonValues} \cup {NoBody, FormBody(<<>>)}}
  \cup {[formCall EXCEPT !.body = FormBody(<<E("f", v), E("g", Str(A))>>)] : v \in Parts} \cup {[formCall EXCEPT !.body = NoBody]}
  \cup {[c EXCEPT !.init = i] : c \in {newCall, listCall}, i \in Inits}
  \cup {[itemCall EXCEPT !.method = "HEAD"], [listCall EXCEPT !.body = Value(Tree("null", <<>>))]}
  \cup {[listCall EXCEPT !.base = b] : b \in {Base("other", FALSE, <<>>), Base("https", TRUE, <<>>), Base("https", FALSE, <<<<"b">>>>)}}
  \cup {[listCall EXCEPT !.kind = "request", !.method = m, !.path = p] : m \in {"GET", "TRACE"}, p \in {<<<<"i">>>>, <<<<"z">>>>}}

Raw(object, id, path, keys) == [object |-> object, id |-> id, path |-> path, keys |-> keys]
MCRawIssues ==
  {<<>>, <<Raw(FALSE, 1, <<>>, {})>>,
   <<Raw(TRUE, 1, <<"authorization", "x">>, {"input", "code"}), Raw(TRUE, 1, <<"x">>, {})>>,
   <<Raw(TRUE, 1, <<"x", "unprintable", "authorization">>, {"code"}), Raw(TRUE, 2, <<"unprintable", "authorization">>, {}),
     Raw(FALSE, 3, <<>>, {})>>}
=============================================================================
