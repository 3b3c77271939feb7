------------------------------- MODULE Request -------------------------------
(***************************************************************************)
(* A request in kate's HTTP framework: the router and its adapter          *)
(* (src/router.go, src/rest_router.go, src/context_handler.go), the chain  *)
(* of middlewares (src/chain.go, src/middleware_*.go), the writer of the   *)
(* response (src/response.go) and a handler built on BaseHandler or        *)
(* RESTHandler.                                                            *)
(*                                                                         *)
(* A site is a router with one route.  Requests to it run concurrently, a  *)
(* step for each layer they enter or leave and for each call of the        *)
(* handler; they share the cache of the Cached middleware.  The handler is *)
(* a script of calls, which stands for what the code of a service may do   *)
(* with what kate gives it.                                                *)
(***************************************************************************)
EXTENDS Params, Reply, Encoder, FiniteSets

CONSTANTS
    Requests,   \* strings
    Scenarios,  \* a site and its requests
    CacheSize

ASSUME CacheAssumption == CacheSize \in Nat \ {0}

VARIABLES
    site,       \* kind, chain, style and limits of the router, and its callers
    router,     \* the router while it is set up, and then
    cache,      \* the entries of the expirable LRU, the oldest first
    req         \* req[r]: where request r is, and its response

vars == <<site, router, cache, req>>

Middlewares == {"TraceId", "Logging", "Recovery", "Timeout", "CORS", "Cached"}

\* What can come in, and what the code of a service may ask of kate: net/http
\* panics at a status that is no number of three digits, takes one below 200
\* for no answer yet and sends no body with a 204 or a 304.
RequestOK(in) ==
    /\ DOMAIN in = {"method", "uri", "content", "length", "form", "nocache", "trace", "isJSON",
                    "syntax", "json", "query", "rest", "script"}
    /\ {in.method, in.trace} \subseteq STRING
    /\ {in.uri, in.content} \subseteq Seq(STRING)
    /\ InputsOK(in)
    /\ in.script \in Seq(Range(in.script))
    /\ \A call \in Range(in.script) :
          /\ call.op = "status" => call.arg \in FinalStatuses
          /\ call.op = "error" => IsError(call.arg)
          /\ call.op \in {"with", "log"} => call.arg \in Seq(Calls) /\ FieldsOK(call.arg)

ASSUME ScenariosAssumption ==
    \A s \in Scenarios :
        /\ s.chain \in Seq(Middlewares)
        /\ DOMAIN s.in \subseteq Requests
        /\ \A r \in DOMAIN s.in : RequestOK(s.in[r])

(***************************************************************************)
(* response.go, on top of net/http: the first status goes out with the     *)
(* header as it is then, and later ones are ignored.                       *)
(***************************************************************************)
Unset == ""

NoHeader ==
    [ctype |-> Unset, trace |-> Unset, allow |-> Unset, origin |-> Unset, methods |-> Unset]

NewWriter ==
    [header |-> NoHeader, wroteHeader |-> FALSE, statusCode |-> 0, rawBody |-> <<>>,
     status |-> 0, sent |-> NoHeader, body |-> <<>>]

Sends(w, code) ==
    IF w.status = 0 THEN [w EXCEPT !.status = code, !.sent = w.header] ELSE w

\* setCORSHeaders of the corsResponseWriter, when there is one around w.
setCORSHeaders(w, cors) ==
    IF cors THEN [w EXCEPT !.header.origin = "*", !.header.methods = w.header.allow] ELSE w

WriteHeader_first_code_only(w, cors, code) ==
    LET v == setCORSHeaders(w, cors)
        u == IF v.header.ctype = Unset THEN [v EXCEPT !.header.ctype = "json"] ELSE v
    IN [Sends(u, code) EXCEPT !.wroteHeader = TRUE, !.statusCode = IF w.wroteHeader THEN @ ELSE code]

WriteHeader(w, cors, code) ==
    LET v == setCORSHeaders(w, cors)
        u == IF v.header.ctype = Unset THEN [v EXCEPT !.header.ctype = "json"] ELSE v
    IN [Sends(u, code) EXCEPT !.wroteHeader = TRUE, !.statusCode = code]

Write_without_cors(w, cors, b) ==
    LET v == IF w.wroteHeader THEN w ELSE WriteHeader(w, FALSE, 200)
    IN [v EXCEPT !.rawBody = b, !.body = @ \o b]

Write_status_forgotten(w, cors, b) ==
    LET v == setCORSHeaders(w, cors)
        u == IF v.wroteHeader THEN v ELSE [Sends(v, 200) EXCEPT !.wroteHeader = TRUE]
    IN [u EXCEPT !.rawBody = b, !.body = @ \o b]

Write_body_collected(w, cors, b) ==
    LET v == setCORSHeaders(w, cors)
        u == IF v.wroteHeader THEN v ELSE WriteHeader(v, FALSE, 200)
    IN [u EXCEPT !.rawBody = @ \o b, !.body = @ \o b]

\* b is a sequence of no or one chunk.
Write(w, cors, b) ==
    LET v == setCORSHeaders(w, cors)
        u == IF v.wroteHeader THEN v ELSE WriteHeader(v, FALSE, 200)
    IN [u EXCEPT !.rawBody = b, !.body = @ \o b]

\* A corsResponseWriter has no Flush.
Flush(w, cors) == IF cors \/ w.wroteHeader THEN w ELSE WriteHeader(w, FALSE, 200)

\* An answer that does not come from the chain.
Refused(w, code, text) == [Sends(w, code) EXCEPT !.body = <<text>>]

(***************************************************************************)
(* Requests                                                                *)
(***************************************************************************)
Chunk(r, what, errno, data) == [by |-> r, what |-> what, errno |-> errno, data |-> data]
Text(r) == Chunk(r, "text", 0, FALSE)

In(r) == site.in[r]
Layer(i) == site.chain[i]
HandlerAt == Len(site.chain) + 1
Wrapped(i) == \E j \in 1..(i - 1) : Layer(j) = "CORS"
Has(layer) == layer \in Range(site.chain)

\* The id that the request brings, or a new one.
TraceField(r) == [op |-> "string", key |-> <<"trace_id">>, val |-> <<In(r).trace>>]

\* GetLogger(ctx) at layer i: the one of the router, with the trace id.
\* The second part is the history of what was added to it.
Logger(r, i) ==
    LET calls == IF \E j \in 1..(i - 1) : Layer(j) = "TraceId" THEN <<TraceField(r)>> ELSE <<>>
    IN [enc |-> With(NewEncoder, calls), calls |-> calls]

Line(logger, calls) ==
    [text |-> EncodeEntry(logger.enc, calls), calls |-> logger.calls \o calls]

Logs(q, logger, calls) == [q EXCEPT !.lines = Append(@, Line(logger, calls))]

NewRequest ==
    [pc |-> "new", at |-> 0, ip |-> 1, panicking |-> FALSE, late |-> FALSE, w |-> NewWriter,
     parsed |-> Failed, logger |-> [enc |-> NewEncoder, calls |-> <<>>], lines |-> <<>>,
     logged |-> <<>>, handled |-> FALSE, panicked |-> FALSE, hit |-> <<>>]

Init ==
    /\ site \in Scenarios
    /\ router = [maxBodyBytes |-> 0, limit |-> 0, state |-> "new"]
    /\ cache = <<>>
    /\ req = [r \in DOMAIN site.in |-> NewRequest]

(***************************************************************************)
(* The router is set up: the limit that holds for a route is the one when  *)
(* it was registered.                                                      *)
(***************************************************************************)
SetMaxBodyBytes(n) ==
    /\ router.state \in {"new", "registered"}
    /\ router.maxBodyBytes # n
    /\ router' = [router EXCEPT !.maxBodyBytes = n]
    /\ UNCHANGED <<site, cache, req>>

Registers ==
    /\ router.state = "new"
    /\ router' = [router EXCEPT !.state = "registered", !.limit = router.maxBodyBytes]
    /\ UNCHANGED <<site, cache, req>>

Serves ==
    /\ router.state = "registered"
    /\ router' = [router EXCEPT !.state = "serving"]
    /\ UNCHANGED <<site, cache, req>>

(***************************************************************************)
(* The adapter                                                             *)
(***************************************************************************)
Goes(r, q) ==
    /\ req' = [req EXCEPT ![r] = q]
    /\ UNCHANGED <<site, router>>

\* MethodOnly, and the trees of httprouter, one for each method; the answer
\* that httprouter gives to OPTIONS by itself is left out.
WrongMethod(r) == In(r).method # site.method

Quits(q, w) == [q EXCEPT !.pc = "done", !.w = w]

\* The body is read before anything else; a RESTRouter looks at the method
\* before that, a Router after it.
TooLarge(r) == router.limit > 0 /\ In(r).length > router.limit

Arrives(r) ==
    LET q == req[r]
        wrong == WrongMethod(r)
    IN /\ router.state = "serving"
       /\ q.pc = "new"
       /\ IF site.kind = "rest" /\ wrong
          THEN Goes(r, Quits(q, Refused(q.w, 405, Text(r))))
          ELSE IF TooLarge(r) \/ In(r).form = "cut"
          THEN Goes(r, Quits(q, Refused(q.w, 400, Text(r))))
          ELSE IF In(r).form = "malformed"
          THEN Goes(r, Quits(q, Refused(q.w, 500, Text(r))))
          ELSE IF wrong
          THEN Goes(r, Quits(q, Write(WriteHeader(q.w, FALSE, 405), FALSE, <<Text(r)>>)))
          ELSE Goes(r, [q EXCEPT !.pc = "down", !.at = 1])
       /\ UNCHANGED cache

\* The layers are left.  net/http closes the connection of a request whose
\* panic nobody recovered, and answers one whose handler wrote nothing.
Leaves(r) ==
    LET q == req[r] IN
    /\ q.pc = "up"
    /\ q.at = 0
    /\ Goes(r, Quits(q, IF q.panicking THEN q.w ELSE Sends(q.w, 200)))
    /\ UNCHANGED cache

(***************************************************************************)
(* The way down the chain                                                  *)
(***************************************************************************)
Down(r, layer) == req[r].pc = "down" /\ req[r].at < HandlerAt /\ Layer(req[r].at) = layer
Deeper(q) == [q EXCEPT !.at = @ + 1]

TraceId(r) ==
    /\ Down(r, "TraceId")
    /\ Goes(r, Deeper([req[r] EXCEPT !.w.header.trace = In(r).trace]))
    /\ UNCHANGED cache

\* Logging writes "request in"; Recovery, Timeout and CORS set up what they
\* do later.
Enters(r) ==
    /\ \E layer \in Middlewares \ {"TraceId", "Cached"} : Down(r, layer)
    /\ Goes(r, Deeper(req[r]))
    /\ UNCHANGED cache

Waits(r) == \E k \in DOMAIN In(r).script : In(r).script[k].op = "wait"

Deadline_not_passed_on(r) ==
    LET q == req[r] IN
    /\ q.pc = "down" /\ ~q.late /\ Waits(r)
    /\ \E i \in 1..(HandlerAt - 1) : Layer(i) = "Timeout" /\ i < q.at
    /\ Goes(r, q)
    /\ UNCHANGED cache

\* The context of the handler is done; without a wait nothing depends on it.
Deadline(r) ==
    LET q == req[r] IN
    /\ q.pc = "down" /\ ~q.late /\ Waits(r)
    /\ \E i \in 1..(HandlerAt - 1) : Layer(i) = "Timeout" /\ i < q.at
    /\ Goes(r, [q EXCEPT !.late = TRUE])
    /\ UNCHANGED cache

(***************************************************************************)
(* Cached                                                                  *)
(***************************************************************************)
\* getCacheKey: the URI and the body are sequences, which may hold a bar.
Key(r) == <<In(r).method, "|">> \o In(r).uri \o <<"|">> \o In(r).content

Cacheable(r) == ~In(r).nocache

\* The LRU: what was used or added last is at the end, and an entry replaces
\* the one that has its key.
Position(key) == SelectInSeq(cache, LAMBDA e : e.key = key)

Found(r) == Position(Key(r))

Touched(i) == Append(RemoveAt(cache, i), cache[i])

Added(e) ==
    LET i == Position(e.key)
        others == IF i = 0 THEN cache ELSE RemoveAt(cache, i)
        all == Append(others, e)
    IN IF Len(all) > CacheSize THEN Tail(all) ELSE all

\* Header().Add: Get returns the first of the values.
AddHeaders(h, more) == [n \in DOMAIN h |-> IF h[n] = Unset THEN more[n] ELSE h[n]]

CachedHit(r) ==
    LET q == req[r]
        i == Found(r)
        cors == Wrapped(q.at)
        w == WriteHeader(q.w, cors, 200)
    IN /\ Down(r, "Cached")
       /\ Cacheable(r)
       /\ i # 0
       /\ Goes(r, Logs([q EXCEPT
                          !.pc = "up", !.at = @ - 1, !.hit = <<cache[i]>>,
                          !.w = Write([w EXCEPT !.header = AddHeaders(@, cache[i].header)],
                                      cors, cache[i].body)],
                       Logger(r, q.at), <<>>))
       /\ cache' = Touched(i)

\* Nothing is remembered of a request that is under way.
CachedMiss(r) ==
    /\ Down(r, "Cached")
    /\ Cacheable(r) => Found(r) = 0
    /\ Goes(r, Deeper(req[r]))
    /\ UNCHANGED cache

Up(r, layer) == req[r].pc = "up" /\ req[r].at > 0 /\ Layer(req[r].at) = layer
Higher(q) == [q EXCEPT !.at = @ - 1]

Entry(r) == [key |-> Key(r), header |-> req[r].w.header, body |-> req[r].w.rawBody, by |-> r]

CachedAdds_any_status(r) ==
    /\ Up(r, "Cached")
    /\ ~req[r].panicking
    /\ Goes(r, Higher(req[r]))
    /\ cache' = IF Cacheable(r) THEN Added(Entry(r)) ELSE cache

CachedAdds(r) ==
    /\ Up(r, "Cached")
    /\ ~req[r].panicking
    /\ Goes(r, Higher(req[r]))
    /\ cache' = IF Cacheable(r) /\ req[r].w.statusCode = 200 THEN Added(Entry(r)) ELSE cache

\* The time to live of an entry is over.
Expires(i) ==
    /\ i \in DOMAIN cache
    /\ cache' = RemoveAt(cache, i)
    /\ UNCHANGED <<site, router, req>>

(***************************************************************************)
(* The handler.  A call that fails ends it, with an answer to the error.   *)
(***************************************************************************)
Handling(r, op) ==
    LET q == req[r]
    IN /\ q.pc = "down" /\ q.at = HandlerAt
       /\ q.ip \in DOMAIN In(r).script /\ In(r).script[q.ip].op = op

Call(r) == In(r).script[req[r].ip]

\* WriteJson with a result that can be encoded.
WriteJson(r, w, result) ==
    Write([w EXCEPT !.header.ctype = "json"], Wrapped(HandlerAt),
          <<Chunk(r, "json", result.errno, result.data)>>)

\* BaseHandler.Error and RESTHandler.Error.
Error(r, w, err) ==
    IF site.style = "errno"
    THEN WriteJson(r, w, errorResult(err))
    ELSE LET v == [w EXCEPT !.header.ctype = "json"]
         IN WriteJson(r, WriteHeader(v, Wrapped(HandlerAt), httpStatusOf(Info(err))),
                      errorResult(err))

NextCall(q) == [q EXCEPT !.ip = @ + 1, !.handled = TRUE]
LastCall(r, q) == [q EXCEPT !.ip = Len(In(r).script) + 1, !.handled = TRUE]

\* The context of the handler, when it begins.
Begun(r) ==
    LET q == req[r] IN IF q.ip = 1 THEN [q EXCEPT !.logger = Logger(r, HandlerAt)] ELSE q

Acts(r, q) == Goes(r, q) /\ UNCHANGED cache

\* A Router has no variables of the route.
ParamsOf(r) == IF site.kind = "rest" THEN In(r) ELSE [In(r) EXCEPT !.rest = <<>>]

ParseError(parsed) == IF parsed.error = "internal" THEN ErrServerInternal ELSE ErrBadParam

Parses(r) ==
    LET q == Begun(r)
        parsed == ParseRequest(ParamsOf(r))
    IN /\ Handling(r, "parse")
       /\ Acts(r, IF parsed.ok THEN NextCall([q EXCEPT !.parsed = parsed])
                  ELSE LastCall(r, Logs([q EXCEPT !.w = Error(r, @, ParseError(parsed))], q.logger, <<>>)))

\* OkData; data that cannot be encoded is logged and nothing is written.
Oks(r) ==
    LET q == Begun(r) IN
    /\ Handling(r, "ok")
    /\ Acts(r, NextCall(IF Call(r).arg = Unencodable THEN Logs(q, q.logger, <<>>)
                        ELSE [q EXCEPT !.w = WriteJson(r, @, [errno |-> Code(ErrSuccess), data |-> TRUE])]))

Fails(r) ==
    LET q == Begun(r) IN
    /\ Handling(r, "error")
    /\ Acts(r, LastCall(r, [q EXCEPT !.w = Error(r, @, Call(r).arg)]))

\* The handler writes by itself: a header, a status, a piece of the body.
Writes(r) ==
    LET q == Begun(r)
        cors == Wrapped(HandlerAt)
    IN /\ \/ /\ Handling(r, "allow")
             /\ Acts(r, NextCall([q EXCEPT !.w.header.allow = "GET"]))
          \/ /\ Handling(r, "status")
             /\ Acts(r, NextCall([q EXCEPT !.w = WriteHeader(@, cors, Call(r).arg)]))
          \/ /\ Handling(r, "write")
             /\ Acts(r, NextCall([q EXCEPT !.w = Write(@, cors, <<Chunk(r, "raw", 0, FALSE)>>)]))
          \/ /\ Handling(r, "flush")
             /\ Acts(r, NextCall([q EXCEPT !.w = Flush(@, cors)]))

\* The response writer keeps the slice that the handler gave it.
Reuses(r) ==
    LET q == Begun(r) IN
    /\ Handling(r, "reuse")
    /\ Acts(r, NextCall([q EXCEPT !.w.rawBody = [i \in DOMAIN @ |-> Chunk(r, "other", 0, FALSE)]]))

\* log.With and GetLogger(ctx).Info.
LogsFields(r) ==
    LET q == Begun(r) IN
    \/ /\ Handling(r, "with")
       /\ Acts(r, NextCall([q EXCEPT !.logger = [enc |-> With(@.enc, Call(r).arg),
                                                 calls |-> @.calls \o Call(r).arg]]))
    \/ /\ Handling(r, "log")
       /\ Acts(r, NextCall(Logs(q, q.logger, Call(r).arg)))

\* A call of a backend, which answers or not; the context may end it.
BackendAnswers(r) ==
    /\ Handling(r, "wait")
    /\ Acts(r, NextCall(Begun(r)))

GivesUp(r) ==
    LET q == Begun(r) IN
    /\ Handling(r, "wait")
    /\ q.late
    /\ Acts(r, LastCall(r, [q EXCEPT !.w = Error(r, @, <<<<"plain">>>>)]))

Panics(r) ==
    /\ Handling(r, "panic")
    /\ Acts(r, Higher([LastCall(r, Begun(r)) EXCEPT !.pc = "up", !.panicking = TRUE, !.panicked = TRUE]))

HandlerReturns(r) ==
    LET q == req[r] IN
    /\ q.pc = "down" /\ q.at = HandlerAt /\ q.ip > Len(In(r).script)
    /\ Acts(r, Higher([q EXCEPT !.pc = "up", !.handled = TRUE]))

(***************************************************************************)
(* The way up                                                              *)
(***************************************************************************)
Returns(r) ==
    /\ \E layer \in {"TraceId", "Recovery", "Timeout", "CORS"} : Up(r, layer)
    /\ ~req[r].panicking
    /\ Acts(r, Higher(req[r]))

\* "request finished".
LoggingFinished(r) ==
    LET q == req[r] IN
    /\ Up(r, "Logging")
    /\ ~q.panicking
    /\ Acts(r, Higher([q EXCEPT !.logged = <<q.w.statusCode, q.w.rawBody>>]))

Unwinds(r) ==
    /\ \E layer \in Middlewares \ {"Recovery"} : Up(r, layer)
    /\ req[r].panicking
    /\ Acts(r, Higher(req[r]))

Recovers_status_if_none(r) ==
    LET q == req[r]
        cors == Wrapped(q.at)
        w == IF q.w.wroteHeader THEN q.w ELSE WriteHeader(q.w, cors, 500)
    IN /\ Up(r, "Recovery")
       /\ q.panicking
       /\ Acts(r, Higher(Logs([q EXCEPT !.panicking = FALSE, !.w = Write(w, cors, <<Text(r)>>)],
                              Logger(r, q.at), <<>>)))

Recovers(r) ==
    LET q == req[r]
        cors == Wrapped(q.at)
    IN /\ Up(r, "Recovery")
       /\ q.panicking
       /\ Acts(r, Higher(Logs([q EXCEPT !.panicking = FALSE,
                                        !.w = Write(WriteHeader(@, cors, 500), cors, <<Text(r)>>)],
                              Logger(r, q.at), <<>>)))

(***************************************************************************)
(* The specification.  The code of kate goes on by itself; a deadline      *)
(* passes; a backend owes no answer.                                       *)
(***************************************************************************)
CachedSteps(r) == CachedHit(r) \/ CachedMiss(r) \/ CachedAdds(r)

Proceeds(r) ==
    \/ Leaves(r) \/ TraceId(r) \/ Enters(r) \/ CachedSteps(r)
    \/ Parses(r) \/ Oks(r) \/ Fails(r) \/ Writes(r) \/ Reuses(r) \/ LogsFields(r)
    \/ GivesUp(r) \/ Panics(r) \/ HandlerReturns(r)
    \/ Returns(r) \/ LoggingFinished(r) \/ Unwinds(r) \/ Recovers(r)

Next ==
    \/ \E n \in site.limits : SetMaxBodyBytes(n)
    \/ Registers
    \/ Serves
    \/ \E i \in 1..CacheSize : Expires(i)
    \/ \E r \in DOMAIN req :
          Arrives(r) \/ Proceeds(r) \/ Deadline(r) \/ BackendAnswers(r)

Spec == Init /\ [][Next]_vars

\* Weak fairness of Proceeds(r) and of Deadline(r), with the conditions under
\* which they are enabled spelled out.
CanProceed(r) ==
    /\ r \in DOMAIN req
    /\ req[r].pc \in {"down", "up"}
    /\ Handling(r, "wait") => req[r].late

Progress(r) == []<>~CanProceed(r) \/ []<><<Proceeds(r)>>_vars

Fairness ==
    \A r \in Requests : Progress(r) /\ WF_vars(r \in DOMAIN req /\ Deadline(r))

FairSpec == Spec /\ Fairness

(***************************************************************************)
(* Properties                                                              *)
(***************************************************************************)
TypeOK ==
    /\ router.state \in {"new", "registered", "serving"}
    /\ \A i \in DOMAIN cache : cache[i].by \in Requests /\ Len(cache[i].body) <= 1
    /\ Len(cache) <= CacheSize
    /\ \A r \in DOMAIN req :
          /\ req[r].pc \in {"new", "down", "up", "done"}
          /\ req[r].at \in 0..HandlerAt
          /\ req[r].w.status \in {0} \cup 100..999
          /\ Len(req[r].w.rawBody) <= 1

Done(r) == req[r].pc = "done"

\* The calls of a script that make an answer, or spoil it.
Answering == {"ok", "error", "status", "write", "flush", "reuse"}

AnswersOnce(r) ==
    \A j, k \in DOMAIN In(r).script :
        In(r).script[j].op \in Answering /\ j < k
        => In(r).script[k].op \notin Answering \cup {"wait", "parse"}

HasBar(r) == "|" \in Range(In(r).uri)

SameRequest(r, p) ==
    /\ In(r).method = In(p).method
    /\ In(r).uri = In(p).uri
    /\ In(r).content = In(p).content

\* What the cache answers is what the handler answered to the same request:
\* the whole body of an answer that went out with status 200, and never one
\* that a panic cut short.  Two things are out: a handler that answers more
\* than once (the writer remembers the last piece and the last status only),
\* and a bar in the URI (the key is joined with bars).
CacheServesAnswers ==
    \A r \in DOMAIN req : req[r].hit # <<>> =>
        LET author == req[r].hit[1].by IN
        /\ ~req[author].panicked
        /\ HasBar(r) \/ HasBar(author) \/ SameRequest(r, author)
        /\ AnswersOnce(author) => /\ req[author].w.status \in {0, 200}
                                  /\ Last(req[r].w.body) = Last(req[author].w.body)

\* With handlers in the style of RESTHandler an error is never answered from
\* the cache, whatever else the request went through.
HitsAreSuccesses ==
    \A r \in DOMAIN req : req[r].hit # <<>> /\ site.style = "status" =>
        \A b \in Range(req[r].hit[1].body) : b.errno = 0 /\ b.what # "text"

\* Recovery answers every panic below it, and records a 500 even when another
\* status is out already, so that the layers above it do not take the request
\* for a success.
PanicsAnswered ==
    \A r \in DOMAIN req : Done(r) /\ req[r].panicked /\ Has("Recovery") =>
        /\ ~req[r].panicking
        /\ req[r].w.status # 0
        /\ req[r].w.statusCode = 500
        /\ Last(req[r].w.body) = Text(r)

\* What a handler below CORS answers goes out with the headers of CORS, the
\* methods as the handler set them by then, and so does an answer of a cache
\* when the caches are below CORS.
CrossOriginAnswers ==
    \A r \in DOMAIN req :
        /\ Done(r) /\ Has("CORS") /\ req[r].w.wroteHeader /\ ~req[r].panicked
        /\ IF req[r].hit = <<>> THEN req[r].handled
           ELSE \A i \in 1..(HandlerAt - 1) : Layer(i) = "Cached" => Wrapped(i)
        => req[r].w.sent.origin = "*" /\ req[r].w.sent.methods = req[r].w.sent.allow

\* Logging reports the status and the body that the client got, when there
\* was one answer, something was written, and nothing panicked.
LoggedIsSent ==
    \A r \in DOMAIN req :
        LET w == req[r].w IN
        req[r].logged # <<>> /\ AnswersOnce(r) /\ w.wroteHeader /\ ~req[r].panicked
        => req[r].logged = <<w.status, w.body>>

\* A line that a request writes through the logger of its context is one JSON
\* object that says what was logged, with the id of this request in it when
\* TraceId is the first layer.  A namespace inside an object is out: the
\* encoder leaves it open.
LinesSayWhatWasLogged ==
    \A r \in DOMAIN req : \A line \in Range(req[r].lines) :
        /\ NamespaceInside(line.calls) \/ SaysWhatWasLogged(line.text, line.calls)
        /\ Has("TraceId") /\ Layer(1) = "TraceId" =>
              \E s \in Range(Read(line.text).seen) : s[2] = <<"trace_id">> /\ s[3] = <<In(r).trace>>

\* A field of the struct has what the strongest source wrote (the route, then
\* the query, then the body) when the field can hold that, and its default
\* when no source gave it a value or a scalar was given zero.
ParsedAsWritten ==
    \A r \in DOMAIN req : req[r].parsed.ok =>
        \A f \in Fields : AsWritten(ParamsOf(r), f, req[r].parsed.value[f])

\* A request that is under way comes to its end, if it waits for no backend
\* or has a deadline.
RequestsEnd ==
    \A r \in Requests :
        r \in DOMAIN req /\ req[r].pc # "new" /\ (Has("Timeout") \/ ~Waits(r))
            ~> r \in DOMAIN req /\ Done(r)
==============================================================================
