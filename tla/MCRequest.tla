------------------------------ MODULE MCRequest ------------------------------
(***************************************************************************)
(* Small sites for TLC, in families: each varies one thing over many       *)
(* values and keeps the others small.                                      *)
(***************************************************************************)
EXTENDS Request

Field(kind, shape, tags, default) ==
    [kind |-> kind, bits |-> 3, shape |-> shape, tags |-> tags, default |-> default,
     required |-> kind = "custom"]

\* Words of 5 bits, fields of 3.
MCStruct ==
    [id |-> Field("int", "scalar", {"query", "rest"}, <<>>),
     page |-> Field("int", "scalar", {"query"}, <<1>>),
     size |-> Field("uint", "pointer", {"query", "rest"}, <<2>>),
     flag |-> Field("bool", "scalar", {"query"}, <<1>>),
     ids |-> Field("int", "slice", {"query"}, <<>>),
     kind |-> Field("custom", "scalar", {"query", "rest"}, <<1>>)]

Op(op, arg) == [op |-> op, arg |-> arg]
Do(op) == Op(op, <<>>)
Ok == Do("ok")

Plain ==
    [method |-> "GET", uri |-> <<"x">>, content |-> <<>>, length |-> 0, form |-> "none",
     nocache |-> FALSE, trace |-> "t1", isJSON |-> TRUE, syntax |-> TRUE,
     json |-> <<>>, query |-> <<>>, rest |-> <<>>, script |-> <<Ok>>]

Template == <<"TraceId", "Logging", "Recovery", "Timeout", "CORS">>

Site(kind, chain, style, in) ==
    [kind |-> kind, chain |-> chain, style |-> style, method |-> "GET", limits |-> {}, in |-> in]

Alone(in) == ("r1" :> in)

\* What the adapter and the router refuse.
Refusals ==
    {[Site(kind, <<"Logging">>, "status",
           Alone([Plain EXCEPT !.method = m, !.length = n, !.form = f, !.content = <<"b">>]))
        EXCEPT !.limits = {2}] :
        kind \in {"rest", "std"}, m \in {"GET", "POST"}, n \in {2, 3},
        f \in {"none", "cut", "malformed"}}

\* Parameters, one field at a time.
Texts == {<<>>, <<0>>, <<3>>, <<-1>>, <<9>>, <<40>>, <<Word>>, <<2, 1>>}

At(f, text) == IF text = <<>> THEN <<>> ELSE f :> text

Parameters ==
    {Site(kind, <<>>, "status",
          Alone([Plain EXCEPT !.json = At(f, b), !.length = Len(b), !.isJSON = (f # "id"),
                              !.query = At(f, q), !.rest = At(f, v),
                              !.script = <<Do("parse"), Ok>>])) :
        kind \in {"rest"}, f \in Fields, b \in Texts, q \in Texts, v \in Texts \ {<<40>>}}
    \cup {Site("std", <<>>, "errno",
          Alone([Plain EXCEPT !.query = At("kind", q), !.rest = At("kind", v),
                              !.length = 1, !.syntax = ok, !.script = <<Do("parse"), Ok>>])) :
            q \in Texts, v \in Texts, ok \in BOOLEAN}

\* What a handler may do, in many chains.
Chains ==
    {Template, <<"Recovery", "Logging", "Cached", "CORS">>, <<"TraceId", "Cached", "Recovery">>,
     <<"CORS", "Logging", "Timeout">>}

Ops == {Ok, Op("ok", Unencodable), Op("error", NewHTTPError(404, 7)), Do("allow"),
        Op("status", 201), Do("write"), Do("flush"), Do("reuse"), Do("wait"), Do("panic"),
        Op("log", <<>>)}

Scripts == {<<a>> : a \in Ops} \cup {<<a, b>> : a \in Ops, b \in Ops}
           \cup {<<Do("allow"), a, b>> : a, b \in {Ok, Do("write"), Do("panic")}}

Handlers ==
    {Site("rest", chain, style, Alone([Plain EXCEPT !.script = s])) :
        chain \in Chains, style \in {"errno", "status"}, s \in Scripts}

Errors == {<<<<"plain">>>>, <<<<"wrap">>, <<"simple", 7>>>>, <<<<"wrap">>, <<"plain">>>>,
           ErrBadParam, <<<<"data", 7>>>>, WithHTTPStatus(NewHTTPError(404, 7), 409),
           WithHTTPStatus(<<<<"data", 7>>>>, 409)}

Failures ==
    {Site("std", <<"Logging">>, style, Alone([Plain EXCEPT !.script = <<Op("error", e)>>])) :
        style \in {"errno", "status"}, e \in Errors}

\* Lines of the log.
C(op, key, val) == [op |-> op, key |-> key, val |-> val]
Value(key) == C("string", key, <<"a">>)

FieldCalls ==
    {<<C("string", <<"k">>, <<"a", Quote, "newline", "invalid">>)>>,
     <<C("number", <<"k", Quote>>, <<"NaN">>)>>, <<C("number", <<"n">>, <<"1">>)>>,
     <<C("reflected", <<"v">>, <<"json">>)>>, <<C("reflected", <<"v">>, Unencodable)>>,
     <<C("namespace", <<"ns">>, <<>>)>>,
     <<C("object", <<"o">>, <<>>), Value(<<"i">>), C("end", <<>>, EndObject)>>,
     <<C("object", <<"o">>, <<>>), C("namespace", <<"ns">>, <<>>), C("end", <<>>, EndObject)>>,
     <<C("array", <<"l">>, <<>>), Value(<<>>), C("object", <<>>, <<>>), C("end", <<>>, EndObject),
       C("number", <<>>, <<"1">>), C("end", <<>>, EndArray)>>}

Logged ==
    {Site("rest", <<"TraceId">>, "status",
          Alone([Plain EXCEPT !.script = <<Op("with", a), Op("log", b \o c), Op("log", <<>>)>>])) :
        a \in FieldCalls, b \in FieldCalls, c \in FieldCalls}

\* Requests that share a cache.
CachedChains ==
    {<<"Cached">>, <<"TraceId", "Cached", "Recovery">>, <<"Recovery", "CORS", "Cached">>,
     <<"Logging", "Recovery", "Cached", "CORS">>}

CachedScripts ==
    {<<Ok>>, <<Do("write"), Do("write")>>, <<Do("write"), Do("panic")>>, <<Do("flush"), Do("wait")>>,
     <<Do("write"), Do("reuse")>>, <<Op("error", NewHTTPError(404, 7))>>}

Others == {Plain, [Plain EXCEPT !.nocache = TRUE], [Plain EXCEPT !.content = <<"b">>],
           [Plain EXCEPT !.uri = <<"x", "|", "y">>]}

Pair(chain, one, other) ==
    Site("rest", chain, "status", ("r1" :> one) @@ ("r2" :> [other EXCEPT !.trace = "t2"]))

Pairs ==
    {Pair(chain, [Plain EXCEPT !.script = s], [o EXCEPT !.script = t]) :
        chain \in CachedChains, s \in CachedScripts, t \in CachedScripts, o \in Others}
    \cup {Pair(<<"Cached">>, [Plain EXCEPT !.content = <<"y", "|">>], o) : o \in Others}

Triples ==
    {Site("rest", <<"Cached">>, "errno",
          ("r1" :> [Plain EXCEPT !.script = <<s>>]) @@ ("r2" :> [Plain EXCEPT !.script = <<Ok>>])
          @@ ("r3" :> [o EXCEPT !.script = <<t>>])) :
        s \in {Do("write"), Op("error", ErrBadParam)}, t \in {Ok, Op("status", 404)}, o \in Others}

MCScenarios ==
    Refusals \cup Parameters \cup Handlers \cup Failures \cup Logged \cup Pairs \cup Triples
==============================================================================
