----------------------------- MODULE RequestProofs -----------------------------
(***************************************************************************)
(* What holds of the requests of every site, with any cache and any        *)
(* middlewares in any order.                                               *)
(***************************************************************************)
EXTENDS Request, EncoderProofs, SequenceTheorems, WellFoundedInduction, NaturalsInduction, TLAPS

(***************************************************************************)
(* The writer of a response                                                *)
(***************************************************************************)
Codes == 100..999
Statuses == {0} \cup Codes
Values == STRING \cup {Unset, "json", "*", "GET"}
Headers == [ctype : Values, trace : Values, allow : Values, origin : Values, methods : Values]
Chunks == [by : Requests, what : {"text", "json", "raw", "other"}, errno : Int, data : BOOLEAN]
Bodies == Seq(Chunks)

Writers ==
    [header : Headers, wroteHeader : BOOLEAN, statusCode : Statuses, rawBody : Bodies,
     status : Statuses, sent : Headers, body : Bodies]

\* Nothing is answered yet, whatever the header is.
Fresh(w) ==
    /\ ~w.wroteHeader
    /\ w.statusCode = 0 /\ w.status = 0
    /\ w.rawBody = <<>> /\ w.body = <<>>

\* The writer remembers what went out.
Settled(w) == w.wroteHeader /\ w.statusCode = w.status /\ w.rawBody = w.body

CorsSent(w) == w.sent.origin = "*" /\ w.sent.methods = w.sent.allow

\* u is w with another header.
Dresses(w, u) ==
    /\ u \in Writers
    /\ u.wroteHeader = w.wroteHeader /\ u.statusCode = w.statusCode /\ u.rawBody = w.rawBody
    /\ u.status = w.status /\ u.sent = w.sent /\ u.body = w.body

CorsReady(u) == u.header.origin = "*" /\ u.header.methods = u.header.allow

LEMMA NewWriterFresh ==
    NewWriter \in Writers /\ Fresh(NewWriter)
<1>1. NoHeader \in Headers
  BY DEF NoHeader, Headers, Values
<1>2. <<>> \in Bodies
  BY DEF Bodies
<1> QED
  BY <1>1, <1>2 DEF NewWriter, Writers, Fresh, Statuses

LEMMA WriterHeader ==
    ASSUME NEW w \in Writers
    PROVE  w.header \in Headers
BY DEF Writers

LEMMA HeaderSet ==
    ASSUME NEW h \in Headers, NEW v \in Values
    PROVE  /\ [h EXCEPT !.origin = v] \in Headers
           /\ [h EXCEPT !.origin = v].origin = v /\ [h EXCEPT !.origin = v].allow = h.allow
           /\ [h EXCEPT !.methods = v] \in Headers
           /\ [h EXCEPT !.methods = v].methods = v
           /\ [h EXCEPT !.methods = v].origin = h.origin
           /\ [h EXCEPT !.methods = v].allow = h.allow
           /\ [h EXCEPT !.ctype = v] \in Headers
           /\ [h EXCEPT !.ctype = v].origin = h.origin
           /\ [h EXCEPT !.ctype = v].methods = h.methods
           /\ [h EXCEPT !.ctype = v].allow = h.allow
BY DEF Headers

LEMMA HeaderValue ==
    ASSUME NEW h \in Headers
    PROVE  h.allow \in Values
BY DEF Headers

LEMMA HeaderDresses ==
    ASSUME NEW w \in Writers, NEW h \in Headers
    PROVE  Dresses(w, [w EXCEPT !.header = h]) /\ [w EXCEPT !.header = h].header = h
BY DEF Dresses, Writers

LEMMA DressesTransitive ==
    ASSUME NEW u, NEW v, NEW w, Dresses(w, v), Dresses(v, u)
    PROVE  Dresses(w, u)
BY DEF Dresses

\* A writer with a corsResponseWriter around it, or bare.
Modes == {"cors", "bare"}

Dressed(w, mode) ==
    IF mode = "cors" THEN [w EXCEPT !.header.origin = "*", !.header.methods = w.header.allow] ELSE w

LEMMA CorsDresses ==
    ASSUME NEW w \in Writers, NEW mode \in Modes
    PROVE  /\ Dresses(w, Dressed(w, mode))
           /\ mode = "cors" => CorsReady(Dressed(w, mode))
<1>1. CASE mode # "cors"
  BY <1>1 DEF Dressed, Dresses
<1>2. CASE mode = "cors"
  <2> DEFINE h == [w.header EXCEPT !.origin = "*"]
             v == [w EXCEPT !.header = h]
             g == [v.header EXCEPT !.methods = w.header.allow]
             u == [v EXCEPT !.header = g]
  <2>1. Dressed(w, mode) = u
    BY <1>2 DEF Dressed
  <2>2. h \in Headers /\ h.origin = "*" /\ h.allow = w.header.allow /\ h.allow \in Values
    <3>1. w.header \in Headers /\ "*" \in Values
      BY WriterHeader DEF Values
    <3>2. h \in Headers /\ h.origin = "*" /\ h.allow = w.header.allow
      BY <3>1, HeaderSet
    <3> HIDE DEF h
    <3> QED
      BY <3>2, HeaderValue
  <2> HIDE DEF h
  <2>3. Dresses(w, v) /\ v.header = h
    BY <2>2, HeaderDresses
  <2>4. v \in Writers
    BY <2>3 DEF Dresses
  <2> HIDE DEF v
  <2>5. g \in Headers /\ g.origin = "*" /\ g.methods = g.allow
    <3>1. v.header = h
      BY <2>3
    <3>2. w.header.allow \in Values
      BY <2>2
    <3> QED
      BY <2>2, <3>1, <3>2, HeaderSet
  <2> HIDE DEF g
  <2>6. Dresses(v, u) /\ u.header = g
    BY <2>4, <2>5, HeaderDresses
  <2> HIDE DEF u
  <2>7. Dresses(w, u)
    BY <2>3, <2>6, DressesTransitive
  <2> QED
    BY <1>2, <2>1, <2>5, <2>6, <2>7 DEF CorsReady
<1> QED
  BY <1>1, <1>2

\* The content type that WriteHeader sets when there is none.
Typed(v) == IF v.header.ctype = Unset THEN [v EXCEPT !.header.ctype = "json"] ELSE v

LEMMA TypedDresses ==
    ASSUME NEW v \in Writers
    PROVE  /\ Dresses(v, Typed(v))
           /\ CorsReady(v) => CorsReady(Typed(v))
<1> DEFINE h == [v.header EXCEPT !.ctype = "json"]
           u == [v EXCEPT !.header = h]
<1>1. /\ h \in Headers
      /\ h.origin = v.header.origin /\ h.methods = v.header.methods /\ h.allow = v.header.allow
  <2>1. v.header \in Headers /\ "json" \in Values
    BY WriterHeader DEF Values
  <2> QED
    BY <2>1, HeaderSet
<1>2. Typed(v) = IF v.header.ctype = Unset THEN u ELSE v
  BY DEF Typed
<1> HIDE DEF h
<1>3. Dresses(v, u) /\ u.header = h
  BY <1>1, HeaderDresses
<1> HIDE DEF u
<1>4. Dresses(v, v)
  BY DEF Dresses
<1> QED
  BY <1>1, <1>2, <1>3, <1>4 DEF CorsReady

\* What Sends makes of w.
SendsWell(w, code, u) ==
    /\ u \in Writers
    /\ u.wroteHeader = w.wroteHeader /\ u.statusCode = w.statusCode
    /\ u.rawBody = w.rawBody /\ u.body = w.body
    /\ w.status # 0 => u = w
    /\ w.status = 0 => u.status = code /\ u.sent = w.header

LEMMA SendsResult ==
    ASSUME NEW w \in Writers, NEW code \in Codes
    PROVE  SendsWell(w, code, Sends(w, code))
<1>1. CASE w.status = 0
  <2> DEFINE v == [w EXCEPT !.status = code]
             u == [v EXCEPT !.sent = w.header]
  <2>1. Sends(w, code) = u
    BY <1>1 DEF Sends
  <2>2. /\ v \in Writers /\ v.status = code
        /\ v.wroteHeader = w.wroteHeader /\ v.statusCode = w.statusCode
        /\ v.rawBody = w.rawBody /\ v.body = w.body
    BY DEF Writers, Statuses
  <2> HIDE DEF v
  <2>3. /\ u \in Writers /\ u.status = v.status /\ u.sent = w.header
        /\ u.wroteHeader = v.wroteHeader /\ u.statusCode = v.statusCode
        /\ u.rawBody = v.rawBody /\ u.body = v.body
    BY <2>2 DEF Writers
  <2> HIDE DEF u
  <2> QED
    BY <1>1, <2>1, <2>2, <2>3 DEF SendsWell
<1>2. CASE w.status # 0
  BY <1>2 DEF Sends, SendsWell
<1> QED
  BY <1>1, <1>2

\* What WriteHeader makes of w.
HeadWritten(w, code, u) ==
    /\ u \in Writers
    /\ u.wroteHeader /\ u.statusCode = code
    /\ u.rawBody = w.rawBody /\ u.body = w.body
    /\ w.status # 0 => u.status = w.status /\ u.sent = w.sent
    /\ w.status = 0 => u.status = code

\* The last step of WriteHeader.
Recorded(s, code) == [s EXCEPT !.wroteHeader = TRUE, !.statusCode = code]

Records(s, code, u) ==
    /\ u \in Writers /\ u.wroteHeader /\ u.statusCode = code
    /\ u.rawBody = s.rawBody /\ u.body = s.body /\ u.status = s.status /\ u.sent = s.sent

LEMMA RecordsStatus ==
    ASSUME NEW s \in Writers, NEW code \in Codes
    PROVE  Records(s, code, Recorded(s, code))
<1> DEFINE v == [s EXCEPT !.wroteHeader = TRUE]
           u == [v EXCEPT !.statusCode = code]
<1>1. /\ v \in Writers /\ v.wroteHeader
      /\ v.rawBody = s.rawBody /\ v.body = s.body /\ v.status = s.status /\ v.sent = s.sent
  BY DEF Writers
<1> HIDE DEF v
<1>2. /\ u \in Writers /\ u.wroteHeader = v.wroteHeader /\ u.statusCode = code
      /\ u.rawBody = v.rawBody /\ u.body = v.body /\ u.status = v.status /\ u.sent = v.sent
  <2>1. code \in Statuses
    BY DEF Statuses
  <2> QED
    BY <1>1, <2>1 DEF Writers
<1> HIDE DEF u
<1>3. Recorded(s, code) = u
  BY DEF Recorded, u, v
<1>4. Records(s, code, u)
  BY <1>1, <1>2 DEF Records
<1> QED
  BY <1>3, <1>4

\* The head of a writer v that has the headers of CORS if it needs them.
Headed(v, code) == Recorded(Sends(Typed(v), code), code)

Heads(v, code, u) ==
    HeadWritten(v, code, u) /\ (CorsReady(v) /\ v.status = 0 => CorsSent(u))

LEMMA HeadOf ==
    ASSUME NEW v \in Writers, NEW code \in Codes
    PROVE  Heads(v, code, Headed(v, code))
<1> DEFINE t == Typed(v)
           s == Sends(t, code)
           u == Headed(v, code)
<1>1. Dresses(v, t) /\ (CorsReady(v) => CorsReady(t))
  BY TypedDresses
<1> HIDE DEF t
<1>2. t \in Writers
  BY <1>1 DEF Dresses
<1>3. SendsWell(t, code, s)
  BY <1>2, SendsResult
<1> HIDE DEF s
<1>4. s \in Writers
  BY <1>3 DEF SendsWell
<1>5. u = Recorded(s, code)
  BY DEF s, t, Headed
<1> HIDE DEF u
<1>6. /\ u \in Writers /\ u.wroteHeader /\ u.statusCode = code
      /\ u.rawBody = s.rawBody /\ u.body = s.body /\ u.status = s.status /\ u.sent = s.sent
  <2>1. Records(s, code, u)
    BY <1>4, <1>5, RecordsStatus
  <2> QED
    BY <2>1 DEF Records
<1>7. t.status = v.status /\ t.sent = v.sent /\ t.rawBody = v.rawBody /\ t.body = v.body
  BY <1>1 DEF Dresses
<1>8. HeadWritten(v, code, u)
  BY <1>3, <1>6, <1>7 DEF HeadWritten, SendsWell
<1>9. CorsReady(v) /\ v.status = 0 => CorsSent(u)
  BY <1>1, <1>3, <1>6, <1>7 DEF SendsWell, CorsReady, CorsSent
<1>10. Heads(v, code, u)
  BY <1>8, <1>9, Zenon DEF Heads
<1> QED
  BY <1>10, Zenon DEF u

\* WriteHeader in a mode.
HeadIn(w, mode, code) == Headed(Dressed(w, mode), code)

HeadDone(w, mode, code, u) ==
    HeadWritten(w, code, u) /\ (mode = "cors" /\ w.status = 0 => CorsSent(u))

LEMMA HeadResult ==
    ASSUME NEW w \in Writers, NEW mode \in Modes, NEW code \in Codes
    PROVE  HeadDone(w, mode, code, HeadIn(w, mode, code))
<1> DEFINE v == Dressed(w, mode)
           u == Headed(v, code)
<1>1. Dresses(w, v) /\ (mode = "cors" => CorsReady(v))
  BY CorsDresses
<1> HIDE DEF v
<1>2. v \in Writers
  BY <1>1, Zenon DEF Dresses
<1>3. Heads(v, code, u)
  BY <1>2, HeadOf, Zenon
<1>4. HeadIn(w, mode, code) = u
  BY Zenon DEF HeadIn, v
<1> HIDE DEF u
<1>5. HeadWritten(v, code, u)
  BY <1>3, Zenon DEF Heads
<1>6. HeadWritten(w, code, u)
  BY <1>1, <1>5 DEF HeadWritten, Dresses
<1>7. v.status = w.status
  BY <1>1, Zenon DEF Dresses
<1>8. mode = "cors" /\ w.status = 0 => CorsSent(u)
  BY <1>1, <1>3, <1>7, Zenon DEF Heads
<1>9. HeadDone(w, mode, code, u)
  BY <1>6, <1>8, Zenon DEF HeadDone
<1> QED
  BY <1>4, <1>9, Zenon

\* What Write makes of w.
BodyWritten(w, b, u) ==
    /\ u \in Writers
    /\ u.wroteHeader /\ u.rawBody = b /\ u.body = w.body \o b
    /\ w.wroteHeader => /\ u.statusCode = w.statusCode
                        /\ u.status = w.status /\ u.sent = w.sent
    /\ ~w.wroteHeader => /\ u.statusCode = 200
                         /\ w.status # 0 => u.status = w.status /\ u.sent = w.sent
                         /\ w.status = 0 => u.status = 200

\* The last step of Write.
Appended(s, b) == [s EXCEPT !.rawBody = b, !.body = @ \o b]

Appends(s, b, u) ==
    /\ u \in Writers
    /\ u.wroteHeader = s.wroteHeader /\ u.statusCode = s.statusCode
    /\ u.status = s.status /\ u.sent = s.sent
    /\ u.rawBody = b /\ u.body = s.body \o b

LEMMA AppendsBody ==
    ASSUME NEW s \in Writers, NEW b \in Bodies
    PROVE  Appends(s, b, Appended(s, b))
<1> DEFINE v == [s EXCEPT !.rawBody = b]
           u == [v EXCEPT !.body = s.body \o b]
<1>1. s.body \o b \in Bodies
  BY DEF Writers, Bodies
<1>2. /\ v \in Writers /\ v.rawBody = b /\ v.body = s.body
      /\ v.wroteHeader = s.wroteHeader /\ v.statusCode = s.statusCode
      /\ v.status = s.status /\ v.sent = s.sent
  BY DEF Writers
<1>3. Appended(s, b) = u
  BY <1>2 DEF Appended
<1> HIDE DEF v
<1>4. /\ u \in Writers /\ u.rawBody = v.rawBody /\ u.body = s.body \o b
      /\ u.wroteHeader = v.wroteHeader /\ u.statusCode = v.statusCode
      /\ u.status = v.status /\ u.sent = v.sent
  BY <1>1, <1>2 DEF Writers
<1> HIDE DEF u
<1>5. Appends(s, b, u)
  BY <1>2, <1>4 DEF Appends
<1> QED
  BY <1>3, <1>5

\* Write in a mode.
BodyIn(w, mode, b) ==
    LET v == Dressed(w, mode)
    IN Appended(IF v.wroteHeader THEN v ELSE Headed(v, 200), b)

BodyDone(w, mode, b, u) ==
    /\ BodyWritten(w, b, u)
    /\ mode = "cors" /\ w.status = 0 /\ ~w.wroteHeader => CorsSent(u)

LEMMA BodyResult ==
    ASSUME NEW w \in Writers, NEW mode \in Modes, NEW b \in Bodies
    PROVE  BodyDone(w, mode, b, BodyIn(w, mode, b))
<1> DEFINE v == Dressed(w, mode)
           y == Headed(v, 200)
           s == IF v.wroteHeader THEN v ELSE y
           u == Appended(s, b)
<1>1. Dresses(w, v) /\ (mode = "cors" => CorsReady(v))
  BY CorsDresses
<1>2. BodyIn(w, mode, b) = u
  BY DEF BodyIn
<1> HIDE DEF v
<1>3. v \in Writers
  BY <1>1 DEF Dresses
<1>4. 200 \in Codes
  BY DEF Codes
<1>5. Heads(v, 200, y)
  BY <1>3, <1>4, HeadOf, Zenon
<1> HIDE DEF y
<1>11. HeadWritten(v, 200, y) /\ (CorsReady(v) /\ v.status = 0 => CorsSent(y))
  BY <1>5, Zenon DEF Heads
<1>6. s \in Writers
  BY <1>3, <1>11 DEF HeadWritten
<1>7. s = IF v.wroteHeader THEN v ELSE y
  OBVIOUS
<1> HIDE DEF s
<1>8. Appends(s, b, u)
  BY <1>6, AppendsBody
<1> HIDE DEF u
<1>9. CASE w.wroteHeader
  <2>1. s = v /\ v.wroteHeader
    BY <1>1, <1>7, <1>9 DEF Dresses
  <2>2. BodyWritten(w, b, u)
    BY <1>1, <1>8, <1>9, <2>1 DEF BodyWritten, Dresses, Appends
  <2> QED
    BY <1>2, <1>9, <2>2, Zenon DEF BodyDone
<1>10. CASE ~w.wroteHeader
  <2>1. s = y
    BY <1>1, <1>7, <1>10 DEF Dresses
  <2>2. /\ u.wroteHeader /\ u.statusCode = 200 /\ u.body = w.body \o b
        /\ w.status # 0 => u.status = w.status /\ u.sent = w.sent
        /\ w.status = 0 => u.status = 200
    BY <1>1, <1>8, <1>11, <2>1, ZenonT(60) DEF HeadWritten, Dresses, Appends
  <2>3. mode = "cors" /\ w.status = 0 => CorsSent(u)
    BY <1>1, <1>8, <1>11, <2>1 DEF HeadWritten, Dresses, CorsSent, Appends
  <2>4. BodyWritten(w, b, u)
    BY <1>8, <1>10, <2>2 DEF BodyWritten, Appends
  <2> QED
    BY <1>2, <1>10, <2>3, <2>4, Zenon DEF BodyDone
<1> QED
  BY <1>9, <1>10

(***************************************************************************)
(* A request, at a site s.  Once(script): the handler answers once.        *)
(***************************************************************************)
Keys == {"pc", "at", "ip", "panicking", "late", "w", "parsed", "logger", "lines", "logged",
         "handled", "panicked", "hit"}

Once(script) ==
    \A j, k \in DOMAIN script :
        script[j].op \in Answering /\ j < k => script[k].op \notin Answering \cup {"wait", "parse"}

End(s) == Len(s.chain) + 1
HasLayer(s, layer) == layer \in Range(s.chain)
WrappedAt(s, i) == \E j \in 1..(i - 1) : s.chain[j] = "CORS"
CachesWrapped(s) == \A i \in 1..Len(s.chain) : s.chain[i] = "Cached" => WrappedAt(s, i)

\* Where a request is, and what it has done by then.
Control(s, q) ==
    /\ DOMAIN q = Keys
    /\ q.pc \in {"new", "down", "up", "done"}
    /\ q.at \in 0..End(s)
    /\ q.ip \in Nat \ {0}
    /\ q.panicking \in BOOLEAN /\ q.handled \in BOOLEAN /\ q.panicked \in BOOLEAN
    /\ q.pc = "down" => q.at # 0
    /\ q.pc = "up" => q.at # End(s)
    /\ q.pc \in {"new", "down"} => ~q.panicked /\ q.hit = <<>> /\ q.logged = <<>>
    /\ q.pc = "new" \/ (q.pc = "down" /\ q.at # End(s)) => ~q.handled
    /\ q.pc = "up" /\ q.hit = <<>> => q.handled

\* The writer, which has nothing before there is an answer.
Writing(q) ==
    /\ q.w \in Writers
    /\ Len(q.w.rawBody) <= 1
    /\ q.w.wroteHeader => q.w.status # 0
    /\ q.pc # "done" /\ ~q.w.wroteHeader => Fresh(q.w)
    /\ q.pc \in {"new", "down"} /\ ~q.handled => Fresh(q.w)

\* A panic has passed no Recovery, or it is answered.
Panicking(s, r, q) ==
    /\ q.panicking => /\ q.panicked
                      /\ \A i \in 1..Len(s.chain) : q.at < i => s.chain[i] # "Recovery"
    /\ q.panicking /\ q.pc = "done" => q.at = 0
    /\ q.panicked /\ ~q.panicking =>
         /\ q.w.wroteHeader /\ q.w.statusCode = 500
         /\ q.w.body # <<>> /\ Last(q.w.body) = Text(r)

\* A handler that answers once has its answer in the writer and in the log.
Answers(script, q) ==
    Once(script) /\ ~q.panicked /\ q.w.wroteHeader =>
        /\ Settled(q.w)
        /\ q.logged # <<>> => q.logged = <<q.w.status, q.w.body>>
        /\ q.pc = "down" => \A k \in DOMAIN script :
              q.ip <= k => script[k].op \notin Answering \cup {"wait", "parse"}

Crosses(s, q) ==
    /\ HasLayer(s, "CORS") /\ q.w.wroteHeader /\ ~q.panicked
    /\ q.hit = <<>> => q.handled
    /\ q.hit # <<>> => CachesWrapped(s)
    => CorsSent(q.w)

\* No error has the status of a success.
ErrorsShow ==
    \A s \in Scenarios : \A r \in DOMAIN s.in : \A call \in Range(s.in[r].script) :
        call.op = "error" => httpStatusOf(Info(call.arg)) # 200

CleanBody(b) == \A i \in DOMAIN b : b[i].errno = 0 /\ b[i].what # "text"

Clean(s, script, q) ==
    ErrorsShow /\ s.style = "status" =>
        \/ CleanBody(q.w.rawBody)
        \/ q.w.statusCode # 200 /\ (q.pc \in {"new", "down"} => Len(script) < q.ip)

ParamsAt(s, r) == IF s.kind = "rest" THEN s.in[r] ELSE [s.in[r] EXCEPT !.rest = <<>>]

Sound(s, r, q) ==
    /\ Control(s, q)
    /\ Writing(q)
    /\ Panicking(s, r, q)
    /\ Answers(s.in[r].script, q)
    /\ Crosses(s, q)
    /\ Clean(s, s.in[r].script, q)
    /\ q.parsed \in {Failed, ParseRequest(ParamsAt(s, r))}

\* q2 is q at another layer, with another header at most.
Walks(q, q2) ==
    /\ DOMAIN q2 = Keys
    /\ Dresses(q.w, q2.w)
    /\ q2.pc = q.pc /\ q2.ip = q.ip /\ q2.panicking = q.panicking
    /\ q2.parsed = q.parsed /\ q2.logged = q.logged /\ q2.handled = q.handled
    /\ q2.panicked = q.panicked /\ q2.hit = q.hit

LEMMA WalkOn ==
    ASSUME NEW s \in Scenarios, NEW r \in DOMAIN s.in, NEW q, NEW q2,
           Sound(s, r, q), Walks(q, q2), q2.at \in 0..End(s),
           q.pc = "down" => q2.at # 0 /\ (q.handled => q2.at = End(s)),
           q.pc = "up" => q2.at # End(s),
           q.pc \in {"down", "up"},
           q.panicking => q2.at = q.at - 1 /\ q.at \in 1..Len(s.chain) /\ s.chain[q.at] # "Recovery"
    PROVE  Sound(s, r, q2)
<1>1. Control(s, q2)
  BY DEF Sound, Control, Walks
<1>2. Writing(q2)
  BY DEF Sound, Writing, Walks, Dresses, Fresh
<1>3. Panicking(s, r, q2)
  BY DEF Sound, Panicking, Walks, Control, End, Dresses
<1>4. Answers(s.in[r].script, q2)
  BY DEF Sound, Answers, Walks, Dresses, Settled
<1>5. Crosses(s, q2)
  BY DEF Sound, Crosses, Walks, Dresses, CorsSent
<1>6. Clean(s, s.in[r].script, q2)
  BY DEF Sound, Clean, Walks, Dresses
<1> QED
  BY <1>1, <1>2, <1>3, <1>4, <1>5, <1>6 DEF Sound, Walks

\* q2 is q after a call of the handler that answers nothing.
Calling(q, q2) ==
    /\ DOMAIN q2 = Keys
    /\ Dresses(q.w, q2.w)
    /\ q2.pc = q.pc /\ q2.at = q.at /\ q2.ip = q.ip + 1 /\ q2.panicking = q.panicking
    /\ q2.logged = q.logged /\ q2.handled
    /\ q2.panicked = q.panicked /\ q2.hit = q.hit

LEMMA CallQuietly ==
    ASSUME NEW s \in Scenarios, NEW r \in DOMAIN s.in, NEW q, NEW q2,
           Sound(s, r, q), Calling(q, q2), q.pc = "down", q.at = End(s),
           q.ip \in DOMAIN s.in[r].script, s.in[r].script \in Seq(Range(s.in[r].script)),
           CleanBody(q.w.rawBody) => CleanBody(q2.w.rawBody),
           q2.parsed \in {Failed, ParseRequest(ParamsAt(s, r))}
    PROVE  Sound(s, r, q2)
<1>1. Control(s, q2)
  BY DEF Sound, Control, Calling
<1>2. Writing(q2)
  BY DEF Sound, Writing, Calling, Dresses, Fresh
<1>3. Panicking(s, r, q2)
  BY DEF Sound, Panicking, Calling, Control
<1>4. Answers(s.in[r].script, q2)
  BY DEF Sound, Answers, Calling, Dresses, Settled, Control
<1>5. Crosses(s, q2)
  <2>1. CASE q.handled
    BY <2>1 DEF Sound, Crosses, Calling, Dresses, CorsSent
  <2>2. CASE ~q.handled
    BY <2>2 DEF Sound, Crosses, Calling, Dresses, Writing, Fresh
  <2> QED
    BY <2>1, <2>2
<1>6. Clean(s, s.in[r].script, q2)
  <2>1. ~(Len(s.in[r].script) < q.ip)
    OBVIOUS
  <2> QED
    BY <2>1 DEF Sound, Clean, Calling
<1> QED
  BY <1>1, <1>2, <1>3, <1>4, <1>5, <1>6 DEF Sound

\* q2 is q after a call that answers, with the writer u.
Replies(q, q2, u) ==
    /\ DOMAIN q2 = Keys
    /\ q2.w = u
    /\ q2.pc = q.pc /\ q2.at = q.at /\ q2.ip \in Nat \ {0} /\ q2.panicking = q.panicking
    /\ q2.logged = q.logged /\ q2.handled /\ q2.parsed = q.parsed
    /\ q2.panicked = q.panicked /\ q2.hit = q.hit

\* What every answer of a handler does to the writer.
GoodAnswer(s, w, u) ==
    /\ u \in Writers
    /\ Len(u.rawBody) <= 1
    /\ u.wroteHeader /\ u.status # 0
    /\ w.wroteHeader => u.status = w.status /\ u.sent = w.sent
    /\ HasLayer(s, "CORS") /\ ~w.wroteHeader => CorsSent(u)
    /\ Fresh(w) => Settled(u)

LEMMA CallAndAnswer ==
    ASSUME NEW s \in Scenarios, NEW r \in DOMAIN s.in, NEW q, NEW q2, NEW u \in Writers,
           Sound(s, r, q), Replies(q, q2, u), q.pc = "down", q.at = End(s),
           q.ip \in DOMAIN s.in[r].script, s.in[r].script \in Seq(Range(s.in[r].script)),
           GoodAnswer(s, q.w, u),
           s.in[r].script[q.ip].op \in Answering \cup {"wait", "parse"},
           (q2.ip = q.ip + 1 /\ s.in[r].script[q.ip].op \in Answering)
              \/ q2.ip = Len(s.in[r].script) + 1,
           ErrorsShow /\ s.style = "status" =>
              (CleanBody(q.w.rawBody) => CleanBody(u.rawBody))
              \/ (u.statusCode # 200 /\ q2.ip = Len(s.in[r].script) + 1)
    PROVE  Sound(s, r, q2)
<1>1. Control(s, q2)
  BY DEF Sound, Control, Replies
<1>2. Writing(q2)
  BY DEF Sound, Writing, Replies, GoodAnswer
<1>3. Panicking(s, r, q2)
  BY DEF Sound, Panicking, Replies, Control
<1>4. Answers(s.in[r].script, q2)
  <2> SUFFICES ASSUME Once(s.in[r].script), ~q2.panicked
               PROVE  /\ Settled(u) /\ q2.logged = <<>>
                      /\ \A k \in DOMAIN s.in[r].script :
                            q2.ip <= k => s.in[r].script[k].op \notin Answering \cup {"wait", "parse"}
    BY DEF Answers, Replies
  <2>1. ~q.w.wroteHeader
    BY DEF Sound, Answers, Replies, Control
  <2>2. Fresh(q.w)
    BY <2>1 DEF Sound, Writing
  <2>3. q2.logged = <<>>
    BY DEF Sound, Control, Replies
  <2>4. ASSUME NEW k \in DOMAIN s.in[r].script, q2.ip <= k
        PROVE  s.in[r].script[k].op \notin Answering \cup {"wait", "parse"}
    <3>1. k \in 1..Len(s.in[r].script) /\ q.ip \in 1..Len(s.in[r].script)
      OBVIOUS
    <3>2. s.in[r].script[q.ip].op \in Answering /\ q.ip < k
      BY <2>4, <3>1
    <3> QED
      BY <3>2 DEF Once
  <2> QED
    BY <2>2, <2>3, <2>4 DEF GoodAnswer
<1>5. Crosses(s, q2)
  <2>1. CASE q.w.wroteHeader
    <3>1. q.handled
      BY <2>1 DEF Sound, Writing, Fresh
    <3> QED
      BY <2>1, <3>1 DEF Sound, Crosses, Replies, GoodAnswer, CorsSent
  <2>2. CASE ~q.w.wroteHeader
    BY <2>2 DEF Crosses, Replies, GoodAnswer
  <2> QED
    BY <2>1, <2>2
<1>6. Clean(s, s.in[r].script, q2)
  <2>1. ~(Len(s.in[r].script) < q.ip)
    OBVIOUS
  <2> QED
    BY <2>1 DEF Sound, Clean, Replies
<1> QED
  BY <1>1, <1>2, <1>3, <1>4, <1>5, <1>6 DEF Sound, Replies

\* q2 has the writer u, and the rest of it that is said here is as in q.
Keeps(q, q2, u) ==
    /\ DOMAIN q2 = Keys
    /\ q2.w = u
    /\ q2.ip = q.ip /\ q2.parsed = q.parsed /\ q2.logged = q.logged /\ q2.panicked = q.panicked

LEMMA EnterChain ==
    ASSUME NEW s \in Scenarios, NEW r \in DOMAIN s.in, NEW q, NEW q2,
           Sound(s, r, q), q.pc = "new", s.chain \in Seq(Middlewares),
           Keeps(q, q2, q.w), q2.pc = "down", q2.at = 1, q2.handled = q.handled,
           q2.panicking = q.panicking, q2.hit = q.hit
    PROVE  Sound(s, r, q2)
<1>1. Control(s, q2)
  BY DEF Sound, Control, Keeps, End
<1>2. Writing(q2)
  BY DEF Sound, Writing, Keeps, Control
<1>3. Panicking(s, r, q2)
  BY DEF Sound, Panicking, Keeps, Control
<1>4. Answers(s.in[r].script, q2)
  BY DEF Sound, Answers, Keeps, Writing, Control, Fresh
<1>5. Crosses(s, q2)
  BY DEF Sound, Crosses, Keeps, Control
<1>6. Clean(s, s.in[r].script, q2)
  BY DEF Sound, Clean, Keeps
<1> QED
  BY <1>1, <1>2, <1>3, <1>4, <1>5, <1>6 DEF Sound, Keeps

\* The adapter's own answers.
LEMMA EndBeforeChain ==
    ASSUME NEW s \in Scenarios, NEW r \in DOMAIN s.in, NEW q, NEW q2, NEW u \in Writers,
           Sound(s, r, q), q.pc = "new",
           Keeps(q, q2, u), q2.pc = "done", q2.at = q.at, q2.handled = q.handled,
           q2.panicking = q.panicking, q2.hit = q.hit,
           Len(u.rawBody) <= 1, u.wroteHeader => u.status # 0 /\ Settled(u),
           u.statusCode # 200
    PROVE  Sound(s, r, q2)
<1>1. Control(s, q2)
  BY DEF Sound, Control, Keeps, End
<1>2. Writing(q2)
  BY DEF Writing, Keeps
<1>3. Panicking(s, r, q2)
  BY DEF Sound, Panicking, Keeps, Control
<1>4. Answers(s.in[r].script, q2)
  BY DEF Sound, Answers, Keeps, Control
<1>5. Crosses(s, q2)
  BY DEF Sound, Crosses, Keeps, Control
<1>6. Clean(s, s.in[r].script, q2)
  BY DEF Clean, Keeps
<1> QED
  BY <1>1, <1>2, <1>3, <1>4, <1>5, <1>6 DEF Sound, Keeps

\* The end: SendsWell(q.w, 200, u) or u = q.w.
LEMMA EndAfterChain ==
    ASSUME NEW s \in Scenarios, NEW r \in DOMAIN s.in, NEW q, NEW q2, NEW u \in Writers,
           Sound(s, r, q), q.pc = "up", q.at = 0,
           Keeps(q, q2, u), q2.pc = "done", q2.at = 0, q2.handled = q.handled,
           q2.panicking = q.panicking, q2.hit = q.hit,
           u = q.w \/ SendsWell(q.w, 200, u)
    PROVE  Sound(s, r, q2)
<1>1. Control(s, q2)
  BY DEF Sound, Control, Keeps, End
<1>2. /\ Len(u.rawBody) <= 1 /\ u.wroteHeader = q.w.wroteHeader /\ u.rawBody = q.w.rawBody
      /\ u.body = q.w.body /\ u.statusCode = q.w.statusCode
      /\ q.w.wroteHeader => u = q.w /\ u.status # 0
  BY DEF Sound, Writing, SendsWell
<1>3. Writing(q2)
  BY <1>2 DEF Writing, Keeps
<1>4. Panicking(s, r, q2)
  BY <1>2 DEF Sound, Panicking, Keeps, Control
<1>5. Answers(s.in[r].script, q2)
  BY <1>2 DEF Sound, Answers, Keeps, Control
<1>6. Crosses(s, q2)
  BY <1>2 DEF Sound, Crosses, Keeps, Control
<1>7. Clean(s, s.in[r].script, q2)
  BY <1>2 DEF Sound, Clean, Keeps
<1> QED
  BY <1>1, <1>3, <1>4, <1>5, <1>6, <1>7 DEF Sound, Keeps

\* The way up begins after the handler, which may have panicked.
LEMMA LeaveHandler ==
    ASSUME NEW s \in Scenarios, NEW r \in DOMAIN s.in, NEW q, NEW q2,
           Sound(s, r, q), q.pc = "down", q.at = End(s), s.chain \in Seq(Middlewares),
           DOMAIN q2 = Keys, q2.w = q.w, q2.parsed = q.parsed, q2.logged = q.logged,
           q2.hit = q.hit, q2.ip \in Nat \ {0},
           q2.pc = "up", q2.at = q.at - 1, q2.handled, q2.handled \in BOOLEAN,
           q2.panicking \in BOOLEAN, q2.panicked \in BOOLEAN,
           q2.panicked <=> q2.panicking
    PROVE  Sound(s, r, q2)
<1>1. Control(s, q2)
  BY DEF Sound, Control, End
<1>2. Writing(q2)
  BY DEF Sound, Writing
<1>3. Panicking(s, r, q2)
  BY DEF Panicking, End
<1>4. Answers(s.in[r].script, q2)
  BY DEF Sound, Answers, Control
<1>5. Crosses(s, q2)
  <2>1. q.w.wroteHeader => q.handled
    BY DEF Sound, Writing, Fresh
  <2> QED
    BY <2>1 DEF Sound, Crosses, Control
<1>6. Clean(s, s.in[r].script, q2)
  BY DEF Sound, Clean
<1> QED
  BY <1>1, <1>2, <1>3, <1>4, <1>5, <1>6 DEF Sound

\* "request finished".
LEMMA LogAnswer ==
    ASSUME NEW s \in Scenarios, NEW r \in DOMAIN s.in, NEW q, NEW q2,
           Sound(s, r, q), q.pc = "up", q.at # 0, ~q.panicking,
           DOMAIN q2 = Keys, q2.pc = q.pc, q2.at = q.at - 1, q2.ip = q.ip,
           q2.panicking = q.panicking, q2.w = q.w, q2.parsed = q.parsed,
           q2.handled = q.handled, q2.panicked = q.panicked, q2.hit = q.hit,
           s.chain \in Seq(Middlewares),
           q2.logged = <<q.w.statusCode, q.w.rawBody>>
    PROVE  Sound(s, r, q2)
<1>1. Control(s, q2)
  BY DEF Sound, Control, End
<1>2. Writing(q2)
  BY DEF Sound, Writing
<1>3. Panicking(s, r, q2)
  BY DEF Sound, Panicking
<1>4. Answers(s.in[r].script, q2)
  BY DEF Sound, Answers, Settled
<1>5. Crosses(s, q2)
  BY DEF Sound, Crosses
<1>6. Clean(s, s.in[r].script, q2)
  BY DEF Sound, Clean
<1> QED
  BY <1>1, <1>2, <1>3, <1>4, <1>5, <1>6 DEF Sound

\* Recovery answers a panic with the writer u.
LEMMA RecoverPanic ==
    ASSUME NEW s \in Scenarios, NEW r \in DOMAIN s.in, NEW q, NEW q2, NEW u \in Writers,
           Sound(s, r, q), q.pc = "up", q.at # 0, q.panicking,
           s.chain \in Seq(Middlewares),
           Keeps(q, q2, u), q2.pc = "up", q2.at = q.at - 1, q2.handled = q.handled,
           ~q2.panicking, q2.panicking \in BOOLEAN, q2.hit = q.hit,
           u.wroteHeader, u.status # 0, u.statusCode = 500, Len(u.rawBody) <= 1,
           u.body # <<>>, Last(u.body) = Text(r)
    PROVE  Sound(s, r, q2)
<1>1. Control(s, q2)
  BY DEF Sound, Control, Keeps, End
<1>2. Writing(q2)
  BY DEF Writing, Keeps
<1>3. Panicking(s, r, q2)
  BY DEF Panicking, Keeps
<1>4. q2.panicked
  BY DEF Sound, Panicking, Keeps
<1>5. Answers(s.in[r].script, q2)
  BY <1>4 DEF Answers
<1>6. Crosses(s, q2)
  BY <1>4 DEF Crosses
<1>7. Clean(s, s.in[r].script, q2)
  BY DEF Clean, Keeps
<1> QED
  BY <1>1, <1>2, <1>3, <1>5, <1>6, <1>7 DEF Sound, Keeps

\* A cache answers with the writer u.
LEMMA AnswerFromCache ==
    ASSUME NEW s \in Scenarios, NEW r \in DOMAIN s.in, NEW q, NEW q2, NEW u \in Writers,
           Sound(s, r, q), q.pc = "down", q.at # End(s), s.chain \in Seq(Middlewares),
           s.chain[q.at] = "Cached",
           Keeps(q, q2, u), q2.pc = "up", q2.at = q.at - 1, q2.handled = q.handled,
           q2.panicking = q.panicking, q2.hit # <<>>,
           Settled(u), u.status # 0, Len(u.rawBody) <= 1,
           WrappedAt(s, q.at) => CorsSent(u),
           ErrorsShow /\ s.style = "status" => CleanBody(u.rawBody)
    PROVE  Sound(s, r, q2)
<1>1. Control(s, q2)
  BY DEF Sound, Control, Keeps, End
<1>2. Writing(q2)
  BY DEF Writing, Keeps, Settled
<1>3. Panicking(s, r, q2)
  BY DEF Sound, Panicking, Control, Keeps
<1>4. Answers(s.in[r].script, q2)
  BY DEF Sound, Control, Answers, Keeps
<1>5. Crosses(s, q2)
  <2>1. q.at \in 1..Len(s.chain)
    BY DEF Sound, Control, End
  <2>2. CachesWrapped(s) => CorsSent(u)
    BY <2>1 DEF CachesWrapped
  <2> QED
    BY <2>2 DEF Crosses, Keeps
<1>6. Clean(s, s.in[r].script, q2)
  BY DEF Clean, Keeps
<1> QED
  BY <1>1, <1>2, <1>3, <1>4, <1>5, <1>6 DEF Sound, Keeps

(***************************************************************************)
(* The cache, and all the requests rq of a site s.                         *)
(***************************************************************************)
Answered(q) == q.pc \in {"up", "done"} /\ ~q.panicked

KeyAt(s, r) == <<s.in[r].method, "|">> \o s.in[r].uri \o <<"|">> \o s.in[r].content

Entries == [key : Seq(STRING \cup {"|"}), header : Headers, body : Bodies, by : Requests]

\* An entry has the whole answer of a request that had one.
EntryOK(s, rq, e) ==
    /\ e \in Entries /\ e.by \in DOMAIN s.in
    /\ e.key = KeyAt(s, e.by)
    /\ Len(e.body) <= 1
    /\ Answered(rq[e.by])
    /\ Once(s.in[e.by].script) => rq[e.by].w.status = 200 /\ rq[e.by].w.body = e.body
    /\ ErrorsShow /\ s.style = "status" => CleanBody(e.body)

HitOK(s, rq, r, q) ==
    q.hit # <<>> => /\ EntryOK(s, rq, q.hit[1])
                    /\ q.hit[1].key = KeyAt(s, r)
                    /\ q.w.body = q.hit[1].body
                    /\ Answered(q)

AllSound(s, rq) ==
    /\ DOMAIN rq = DOMAIN s.in
    /\ \A r \in DOMAIN s.in : Sound(s, r, rq[r]) /\ HitOK(s, rq, r, rq[r])

CacheOK(s, rq, c) ==
    /\ c \in Seq(Entries)
    /\ Len(c) <= CacheSize
    /\ \A i \in 1..Len(c) : EntryOK(s, rq, c[i])

IInv ==
    /\ site \in Scenarios
    /\ DOMAIN router = {"maxBodyBytes", "limit", "state"}
    /\ router.state \in {"new", "registered", "serving"}
    /\ AllSound(site, req)
    /\ CacheOK(site, req, cache)

\* What is answered stays so.
Evolves(q, q2) ==
    Answered(q) => /\ Answered(q2)
                   /\ q2.w.body = q.w.body
                   /\ q.w.status # 0 => q2.w.status = q.w.status

LEMMA SiteFacts ==
    ASSUME NEW s \in Scenarios
    PROVE  /\ s.chain \in Seq(Middlewares)
           /\ DOMAIN s.in \subseteq Requests
           /\ \A r \in DOMAIN s.in : RequestOK(s.in[r])
BY ScenariosAssumption

LEMMA EntryStays ==
    ASSUME NEW s \in Scenarios, NEW rq, NEW r \in DOMAIN s.in, NEW q2, NEW e,
           DOMAIN rq = DOMAIN s.in, Evolves(rq[r], q2), EntryOK(s, rq, e)
    PROVE  EntryOK(s, [rq EXCEPT ![r] = q2], e)
<1> DEFINE rq2 == [rq EXCEPT ![r] = q2]
           b == e.by
<1>1. b \in DOMAIN s.in
  BY DEF EntryOK
<1>2. Answered(rq[b]) => /\ Answered(rq2[b])
                         /\ rq2[b].w.body = rq[b].w.body
                         /\ rq[b].w.status # 0 => rq2[b].w.status = rq[b].w.status
  <2>1. CASE b = r
    BY <1>1, <2>1 DEF Evolves
  <2>2. CASE b # r
    <3>1. rq2[b] = rq[b]
      BY <1>1, <2>2
    <3> HIDE DEF rq2
    <3> QED
      BY <3>1
  <2> QED
    BY <2>1, <2>2
<1> HIDE DEF rq2
<1>3. EntryOK(s, rq2, e)
  BY <1>1, <1>2 DEF EntryOK
<1> QED
  BY <1>3 DEF rq2

LEMMA Advance ==
    ASSUME NEW s \in Scenarios, NEW rq, NEW r \in DOMAIN s.in, NEW q2, NEW c,
           AllSound(s, rq), Sound(s, r, q2), Evolves(rq[r], q2),
           q2.hit = rq[r].hit \/ HitOK(s, rq, r, q2)
    PROVE  /\ AllSound(s, [rq EXCEPT ![r] = q2])
           /\ CacheOK(s, rq, c) => CacheOK(s, [rq EXCEPT ![r] = q2], c)
<1> DEFINE rq2 == [rq EXCEPT ![r] = q2]
<1>1. DOMAIN rq = DOMAIN s.in
  BY DEF AllSound
<1>2. ASSUME NEW e, EntryOK(s, rq, e) PROVE EntryOK(s, rq2, e)
  BY <1>1, <1>2, EntryStays
<1>3. DOMAIN rq2 = DOMAIN s.in /\ rq2[r] = q2
  BY <1>1
<1>4. ASSUME NEW p \in DOMAIN s.in, p # r PROVE rq2[p] = rq[p]
  BY <1>1, <1>4
<1> HIDE DEF rq2
<1>5. HitOK(s, rq, r, q2)
  BY DEF HitOK, Evolves, AllSound
<1>6. ASSUME NEW p \in DOMAIN s.in
      PROVE  Sound(s, p, rq2[p]) /\ HitOK(s, rq2, p, rq2[p])
  <2>1. CASE p = r
    BY <1>2, <1>3, <1>5, <2>1 DEF HitOK
  <2>2. CASE p # r
    <3>1. rq2[p] = rq[p]
      BY <1>4, <2>2
    <3>2. Sound(s, p, rq[p]) /\ HitOK(s, rq, p, rq[p])
      BY DEF AllSound
    <3> QED
      BY <1>2, <3>1, <3>2 DEF HitOK
  <2> QED
    BY <2>1, <2>2
<1>7. AllSound(s, rq2)
  BY <1>3, <1>6 DEF AllSound
<1>8. CacheOK(s, rq, c) => CacheOK(s, rq2, c)
  BY <1>2 DEF CacheOK
<1> QED
  BY <1>7, <1>8 DEF rq2

\* A step of request r that leaves the cache alone.
LEMMA Stepped ==
    ASSUME IInv, NEW r \in DOMAIN req, NEW q2,
           Goes(r, q2), UNCHANGED cache,
           Sound(site, r, q2), Evolves(req[r], q2), q2.hit = req[r].hit
    PROVE  IInv'
<1>1. site' = site /\ router' = router /\ cache' = cache /\ req' = [req EXCEPT ![r] = q2]
  BY DEF Goes
<1>2. site \in Scenarios /\ r \in DOMAIN site.in /\ AllSound(site, req) /\ CacheOK(site, req, cache)
  BY DEF IInv, AllSound
<1>3. AllSound(site, req') /\ CacheOK(site, req', cache)
  BY <1>1, <1>2, Advance
<1> QED
  BY <1>1, <1>2, <1>3 DEF IInv

(***************************************************************************)
(* The fields of a request after an assignment.                            *)
(***************************************************************************)
SameBut(q, q2, ks) == DOMAIN q2 = Keys /\ \A k \in Keys \ ks : q2[k] = q[k]

LEMMA DeeperFields ==
    ASSUME NEW q, DOMAIN q = Keys
    PROVE  SameBut(q, Deeper(q), {"at"}) /\ Deeper(q).at = q.at + 1
BY DEF SameBut, Keys, Deeper

LEMMA HigherFields ==
    ASSUME NEW q, DOMAIN q = Keys
    PROVE  SameBut(q, Higher(q), {"at"}) /\ Higher(q).at = q.at - 1
BY DEF SameBut, Keys, Higher

LEMMA SameWalks ==
    ASSUME NEW q, NEW q2, q.w \in Writers, SameBut(q, q2, {"at", "late", "logger", "lines"})
    PROVE  Walks(q, q2)
BY DEF SameBut, Walks, Keys, Dresses

LEMMA Context ==
    ASSUME IInv, NEW r \in DOMAIN req
    PROVE  /\ site \in Scenarios /\ r \in DOMAIN site.in
           /\ site.chain \in Seq(Middlewares) /\ End(site) = HandlerAt
           /\ RequestOK(site.in[r]) /\ r \in Requests
           /\ Sound(site, r, req[r]) /\ HitOK(site, req, r, req[r])
           /\ DOMAIN req[r] = Keys /\ req[r].w \in Writers
           /\ req[r].at \in 0..HandlerAt
<1>1. /\ site \in Scenarios /\ r \in DOMAIN site.in
      /\ Sound(site, r, req[r]) /\ HitOK(site, req, r, req[r])
  BY DEF IInv, AllSound
<1>2. /\ site.chain \in Seq(Middlewares) /\ End(site) = HandlerAt
      /\ RequestOK(site.in[r]) /\ r \in Requests
  BY <1>1, SiteFacts DEF End, HandlerAt
<1>3. DOMAIN req[r] = Keys /\ req[r].w \in Writers /\ req[r].at \in 0..HandlerAt
  BY <1>1, <1>2 DEF Sound, Control, Writing
<1> QED
  BY <1>1, <1>2, <1>3

LEMMA WalkEvolves ==
    ASSUME NEW q, NEW q2, Walks(q, q2)
    PROVE  Evolves(q, q2) /\ q2.hit = q.hit
BY DEF Evolves, Answered, Walks, Dresses

\* A step to another layer.
LEMMA WalkStep ==
    ASSUME IInv, NEW r \in DOMAIN req, NEW q2,
           Goes(r, q2), UNCHANGED cache,
           Walks(req[r], q2), q2.at \in 0..HandlerAt,
           req[r].pc = "down" => q2.at # 0 /\ (req[r].handled => q2.at = HandlerAt),
           req[r].pc = "up" => q2.at # HandlerAt,
           req[r].pc \in {"down", "up"},
           req[r].panicking =>
              /\ q2.at = req[r].at - 1 /\ req[r].at \in 1..(HandlerAt - 1)
              /\ Layer(req[r].at) # "Recovery"
    PROVE  IInv'
<1> DEFINE q == req[r]
<1>1. /\ site \in Scenarios /\ r \in DOMAIN site.in /\ Sound(site, r, q)
      /\ site.chain \in Seq(Middlewares)
      /\ End(site) = HandlerAt /\ 1..(HandlerAt - 1) = 1..Len(site.chain)
  BY Context DEF HandlerAt
<1>2. Evolves(q, q2) /\ q2.hit = q.hit
  BY WalkEvolves
<1>3. Sound(site, r, q2)
  <2>1. q.panicking => site.chain[q.at] # "Recovery"
    BY DEF Layer
  <2> HIDE DEF q
  <2>2. q2.at \in 0..End(site)
    BY <1>1
  <2>3. q.pc = "down" => q2.at # 0 /\ (q.handled => q2.at = End(site))
    BY <1>1 DEF q
  <2>4. q.pc = "up" => q2.at # End(site)
    BY <1>1 DEF q
  <2>5. q.panicking => /\ q2.at = q.at - 1 /\ q.at \in 1..Len(site.chain)
                       /\ site.chain[q.at] # "Recovery"
    BY <1>1, <2>1 DEF q
  <2>6. q.pc \in {"down", "up"} /\ Walks(q, q2)
    BY DEF q
  <2> QED
    BY <1>1, <2>2, <2>3, <2>4, <2>5, <2>6, WalkOn
<1> QED
  BY <1>2, <1>3, Stepped

LEMMA DescendStep ==
    ASSUME IInv, NEW r \in DOMAIN req, NEW layer \in Middlewares, Down(r, layer), NEW q2,
           Goes(r, q2), UNCHANGED cache, Walks(req[r], q2), q2.at = req[r].at + 1
    PROVE  IInv'
<1> DEFINE q == req[r]
<1>1. /\ Sound(site, r, q) /\ End(site) = HandlerAt /\ site.chain \in Seq(Middlewares)
      /\ q.at \in 0..HandlerAt
  BY Context
<1>2. q.pc = "down" /\ q.at < HandlerAt
  BY DEF Down
<1>3. HandlerAt \in Nat \ {0}
  BY <1>1 DEF HandlerAt
<1>4. ~q.handled /\ ~q.panicking
  <2>1. q.at # End(site)
    BY <1>1, <1>2, <1>3
  <2> QED
    BY <1>1, <1>2, <2>1 DEF Sound, Control, Panicking
<1>5. q2.at \in 0..HandlerAt /\ q2.at # 0
  BY <1>1, <1>2, <1>3
<1> QED
  BY <1>2, <1>4, <1>5, WalkStep

LEMMA AscendStep ==
    ASSUME IInv, NEW r \in DOMAIN req, NEW layer \in Middlewares, Up(r, layer), NEW q2,
           req[r].panicking => layer # "Recovery",
           Goes(r, q2), UNCHANGED cache, Walks(req[r], q2), q2.at = req[r].at - 1
    PROVE  IInv'
<1> DEFINE q == req[r]
<1>1. /\ Sound(site, r, q) /\ End(site) = HandlerAt /\ site.chain \in Seq(Middlewares)
      /\ q.at \in 0..HandlerAt
  BY Context
<1>2. q.pc = "up" /\ q.at > 0 /\ Layer(q.at) = layer
  BY DEF Up
<1>3. HandlerAt \in Nat \ {0}
  BY <1>1 DEF HandlerAt
<1>4. q.at # HandlerAt
  BY <1>1, <1>2 DEF Sound, Control
<1>5. q2.at \in 0..HandlerAt /\ q2.at # HandlerAt /\ q.at \in 1..(HandlerAt - 1)
  BY <1>1, <1>2, <1>3, <1>4
<1> QED
  BY <1>2, <1>5, WalkStep

(***************************************************************************)
(* The steps up and down the chain                                         *)
(***************************************************************************)
LEMMA DeeperWalks ==
    ASSUME IInv, NEW r \in DOMAIN req
    PROVE  Walks(req[r], Deeper(req[r])) /\ Deeper(req[r]).at = req[r].at + 1
<1>1. DOMAIN req[r] = Keys /\ req[r].w \in Writers
  BY Context
<1>2. SameBut(req[r], Deeper(req[r]), {"at"}) /\ Deeper(req[r]).at = req[r].at + 1
  BY <1>1, DeeperFields
<1>3. SameBut(req[r], Deeper(req[r]), {"at", "late", "logger", "lines"})
  BY <1>2 DEF SameBut
<1> QED
  BY <1>1, <1>2, <1>3, SameWalks

LEMMA HigherWalks ==
    ASSUME IInv, NEW r \in DOMAIN req
    PROVE  Walks(req[r], Higher(req[r])) /\ Higher(req[r]).at = req[r].at - 1
<1>1. DOMAIN req[r] = Keys /\ req[r].w \in Writers
  BY Context
<1>2. SameBut(req[r], Higher(req[r]), {"at"}) /\ Higher(req[r]).at = req[r].at - 1
  BY <1>1, HigherFields
<1>3. SameBut(req[r], Higher(req[r]), {"at", "late", "logger", "lines"})
  BY <1>2 DEF SameBut
<1> QED
  BY <1>1, <1>2, <1>3, SameWalks

LEMMA EntersStep ==
    ASSUME IInv, NEW r \in DOMAIN req, Enters(r)
    PROVE  IInv'
<1>1. PICK layer \in Middlewares : Down(r, layer)
  BY DEF Enters
<1>2. Goes(r, Deeper(req[r])) /\ UNCHANGED cache
  BY DEF Enters
<1> QED
  BY <1>1, <1>2, DeeperWalks, DescendStep

LEMMA CachedMissStep ==
    ASSUME IInv, NEW r \in DOMAIN req, CachedMiss(r)
    PROVE  IInv'
<1>1. "Cached" \in Middlewares /\ Down(r, "Cached")
  BY DEF CachedMiss, Middlewares
<1>2. Goes(r, Deeper(req[r])) /\ UNCHANGED cache
  BY DEF CachedMiss
<1> QED
  BY <1>1, <1>2, DeeperWalks, DescendStep

\* The writer of q with another header.
LEMMA HeaderFields ==
    ASSUME NEW q, DOMAIN q = Keys, q.w \in Writers, NEW h \in Headers
    PROVE  LET q2 == [q EXCEPT !.w = [q.w EXCEPT !.header = h]] IN
           SameBut(q, q2, {"w"}) /\ Dresses(q.w, q2.w)
<1> DEFINE u == [q.w EXCEPT !.header = h]
           q2 == [q EXCEPT !.w = u]
<1>1. Dresses(q.w, u)
  BY HeaderDresses
<1> HIDE DEF u
<1>2. SameBut(q, q2, {"w"}) /\ q2.w = u
  BY DEF SameBut, Keys
<1> HIDE DEF q2
<1>3. SameBut(q, q2, {"w"}) /\ Dresses(q.w, q2.w)
  BY <1>1, <1>2
<1> QED
  BY <1>3 DEF q2, u

LEMMA TraceIdStep ==
    ASSUME IInv, NEW r \in DOMAIN req, TraceId(r)
    PROVE  IInv'
<1> DEFINE q == req[r]
           h == [q.w.header EXCEPT !.trace = In(r).trace]
           u == [q.w EXCEPT !.header = h]
           q1 == [q EXCEPT !.w = u]
           q2 == Deeper(q1)
<1>1. "TraceId" \in Middlewares /\ Down(r, "TraceId")
  BY DEF TraceId, Middlewares
<1>2. Goes(r, q2) /\ UNCHANGED cache
  BY DEF TraceId
<1>3. DOMAIN q = Keys /\ q.w \in Writers /\ RequestOK(site.in[r])
  BY Context
<1>4. h \in Headers
  <2>1. q.w.header \in Headers
    BY <1>3, WriterHeader
  <2>2. In(r).trace \in Values
    BY <1>3 DEF RequestOK, In, Values
  <2> QED
    BY <2>1, <2>2 DEF Headers
<1> HIDE DEF q, h
<1>5. SameBut(q, q1, {"w"}) /\ Dresses(q.w, q1.w)
  BY <1>3, <1>4, HeaderFields
<1> HIDE DEF q1
<1>6. SameBut(q1, q2, {"at"}) /\ q2.at = q1.at + 1
  BY <1>5, DeeperFields DEF SameBut
<1> HIDE DEF q2
<1>7. Walks(q, q2) /\ q2.at = q.at + 1
  BY <1>5, <1>6 DEF SameBut, Walks, Keys
<1> QED
  BY <1>1, <1>2, <1>7, DescendStep DEF q

LEMMA ReturnsStep ==
    ASSUME IInv, NEW r \in DOMAIN req, Returns(r)
    PROVE  IInv'
<1>1. PICK layer \in Middlewares : Up(r, layer)
  BY DEF Returns, Middlewares
<1>2. Goes(r, Higher(req[r])) /\ UNCHANGED cache /\ ~req[r].panicking
  BY DEF Returns, Acts
<1> QED
  BY <1>1, <1>2, HigherWalks, AscendStep

LEMMA UnwindsStep ==
    ASSUME IInv, NEW r \in DOMAIN req, Unwinds(r)
    PROVE  IInv'
<1>1. PICK layer \in Middlewares : Up(r, layer) /\ layer # "Recovery"
  BY DEF Unwinds
<1>2. Goes(r, Higher(req[r])) /\ UNCHANGED cache
  BY DEF Unwinds, Acts
<1> QED
  BY <1>1, <1>2, HigherWalks, AscendStep

LEMMA DeadlineStep ==
    ASSUME IInv, NEW r \in DOMAIN req, Deadline(r)
    PROVE  IInv'
<1> DEFINE q == req[r]
           q2 == [q EXCEPT !.late = TRUE]
<1>1. q.pc = "down" /\ Goes(r, q2) /\ UNCHANGED cache
  BY DEF Deadline
<1>2. /\ DOMAIN q = Keys /\ q.w \in Writers /\ Sound(site, r, q) /\ End(site) = HandlerAt
      /\ q.at \in 0..HandlerAt
  BY Context
<1> HIDE DEF q
<1>3. SameBut(q, q2, {"late"})
  BY <1>2 DEF SameBut, Keys
<1> HIDE DEF q2
<1>4. q2.at = q.at
  BY <1>3 DEF SameBut, Keys
<1>5. Walks(q, q2)
  BY <1>2, <1>3, SameWalks DEF SameBut
<1>6. q.at # 0 /\ (q.handled => q.at = HandlerAt) /\ ~q.panicking
  BY <1>1, <1>2 DEF Sound, Control, Panicking
<1> QED
  BY <1>1, <1>2, <1>4, <1>5, <1>6, WalkStep DEF q

LEMMA LoggingFinishedStep ==
    ASSUME IInv, NEW r \in DOMAIN req, LoggingFinished(r)
    PROVE  IInv'
<1> DEFINE q == req[r]
           q1 == [q EXCEPT !.logged = <<q.w.statusCode, q.w.rawBody>>]
           q2 == Higher(q1)
<1>1. q.pc = "up" /\ q.at > 0 /\ ~q.panicking /\ Goes(r, q2) /\ UNCHANGED cache
  BY DEF LoggingFinished, Acts, Up
<1>2. /\ DOMAIN q = Keys /\ q.w \in Writers /\ Sound(site, r, q)
      /\ site \in Scenarios /\ r \in DOMAIN site.in /\ site.chain \in Seq(Middlewares)
  BY Context
<1> HIDE DEF q
<1>3. SameBut(q, q1, {"logged"}) /\ q1.logged = <<q.w.statusCode, q.w.rawBody>>
  BY <1>2 DEF SameBut, Keys
<1> HIDE DEF q1
<1>4. SameBut(q1, q2, {"at"}) /\ q2.at = q1.at - 1
  BY <1>3, HigherFields DEF SameBut
<1> HIDE DEF q2
<1>5. /\ DOMAIN q2 = Keys /\ q2.pc = q.pc /\ q2.at = q.at - 1 /\ q2.ip = q.ip
      /\ q2.panicking = q.panicking /\ q2.w = q.w /\ q2.parsed = q.parsed
      /\ q2.handled = q.handled /\ q2.panicked = q.panicked /\ q2.hit = q.hit
      /\ q2.logged = <<q.w.statusCode, q.w.rawBody>>
  BY <1>3, <1>4 DEF SameBut, Keys
<1>6. Sound(site, r, q2)
  BY <1>1, <1>2, <1>5, LogAnswer
<1>7. Evolves(q, q2)
  BY <1>5 DEF Evolves, Answered
<1> QED
  BY <1>1, <1>5, <1>6, <1>7, Stepped DEF q

(***************************************************************************)
(* Into the chain, past it, and out of it                                  *)
(***************************************************************************)
LEMMA QuitFields ==
    ASSUME NEW q, DOMAIN q = Keys, NEW u \in Writers
    PROVE  /\ SameBut(q, Quits(q, u), {"pc", "w"})
           /\ Quits(q, u).pc = "done" /\ Quits(q, u).w = u
BY DEF SameBut, Keys, Quits

LEMMA TextIsChunk ==
    ASSUME NEW r \in Requests
    PROVE  Text(r) \in Chunks /\ <<Text(r)>> \in Bodies
BY DEF Text, Chunk, Chunks, Bodies

\* An answer that does not come from the chain.
Unanswered(u) == u \in Writers /\ Len(u.rawBody) <= 1 /\ ~u.wroteHeader /\ u.statusCode # 200

LEMMA RefusedResult ==
    ASSUME NEW w \in Writers, Fresh(w), NEW code \in Codes, NEW text \in Chunks
    PROVE  Unanswered(Refused(w, code, text))
<1> DEFINE s == Sends(w, code)
           u == [s EXCEPT !.body = <<text>>]
<1>1. SendsWell(w, code, s)
  BY SendsResult
<1>2. Refused(w, code, text) = u
  BY DEF Refused
<1> HIDE DEF s
<1>3. s \in Writers /\ s.wroteHeader = w.wroteHeader /\ s.rawBody = w.rawBody
      /\ s.statusCode = w.statusCode
  BY <1>1 DEF SendsWell
<1>4. <<text>> \in Bodies
  BY DEF Bodies
<1>5. /\ u \in Writers /\ u.wroteHeader = s.wroteHeader /\ u.rawBody = s.rawBody
      /\ u.statusCode = s.statusCode
  BY <1>3, <1>4 DEF Writers
<1> HIDE DEF u
<1> QED
  BY <1>2, <1>3, <1>5 DEF Fresh, Unanswered

\* The calls of a handler, or of a layer, as the modes say it.
LEMMA BareHead ==
    ASSUME NEW w, NEW code
    PROVE  WriteHeader(w, FALSE, code) = HeadIn(w, "bare", code)
BY DEF WriteHeader, setCORSHeaders, HeadIn, Headed, Dressed, Typed, Recorded

LEMMA BareBody ==
    ASSUME NEW w, NEW b
    PROVE  Write(w, FALSE, b) = BodyIn(w, "bare", b)
<1>1. WriteHeader(w, FALSE, 200) = Headed(w, 200)
  BY DEF WriteHeader, setCORSHeaders, Headed, Typed, Recorded
<1>2. Dressed(w, "bare") = w
  BY DEF Dressed
<1>3. setCORSHeaders(w, FALSE) = w
  BY DEF setCORSHeaders
<1> DEFINE v == setCORSHeaders(w, FALSE)
           y == WriteHeader(v, FALSE, 200)
           x == Headed(w, 200)
<1>4. Write(w, FALSE, b) = Appended(IF v.wroteHeader THEN v ELSE y, b)
  BY Zenon DEF Write, Appended
<1>5. v = w /\ y = x
  BY <1>1, <1>3, Zenon
<1>6. BodyIn(w, "bare", b) = Appended(IF w.wroteHeader THEN w ELSE x, b)
  BY <1>2, Zenon DEF BodyIn
<1> HIDE DEF v, y, x
<1> QED
  BY <1>4, <1>5, <1>6, Zenon

Mode(i) == IF Wrapped(i) THEN "cors" ELSE "bare"

LEMMA ModeHead ==
    ASSUME NEW w, NEW code, NEW i
    PROVE  WriteHeader(w, Wrapped(i), code) = HeadIn(w, Mode(i), code)
BY DEF WriteHeader, setCORSHeaders, HeadIn, Headed, Dressed, Typed, Recorded, Mode

LEMMA ModeBody ==
    ASSUME NEW w, NEW b, NEW i
    PROVE  Write(w, Wrapped(i), b) = BodyIn(w, Mode(i), b)
<1> DEFINE v == Dressed(w, Mode(i))
<1>1. setCORSHeaders(w, Wrapped(i)) = v
  BY DEF setCORSHeaders, Dressed, Mode
<1> HIDE DEF v
<1>2. WriteHeader(v, FALSE, 200) = Headed(v, 200)
  BY DEF WriteHeader, setCORSHeaders, Headed, Typed, Recorded
<1>3. BodyIn(w, Mode(i), b) = Appended(IF v.wroteHeader THEN v ELSE Headed(v, 200), b)
  BY DEF BodyIn, v
<1> QED
  BY <1>1, <1>2, <1>3, Zenon DEF Write, Appended

LEMMA ModeOK == ASSUME NEW i PROVE Mode(i) \in Modes
BY DEF Mode, Modes

\* A status and a body, in a mode.
FullAnswer(w, mode, code, b) == BodyIn(HeadIn(w, mode, code), mode, b)

FullyAnswered(w, mode, code, b, u) ==
    /\ u \in Writers /\ u.wroteHeader /\ u.statusCode = code
    /\ u.rawBody = b /\ u.body = w.body \o b
    /\ w.status # 0 => u.status = w.status /\ u.sent = w.sent
    /\ w.status = 0 => u.status = code /\ (mode = "cors" => CorsSent(u))

LEMMA FullResult ==
    ASSUME NEW w \in Writers, NEW mode \in Modes, NEW code \in Codes, NEW b \in Bodies
    PROVE  FullyAnswered(w, mode, code, b, FullAnswer(w, mode, code, b))
<1> DEFINE y == HeadIn(w, mode, code)
           u == BodyIn(y, mode, b)
<1>1. HeadDone(w, mode, code, y)
  BY HeadResult, Zenon
<1>2. FullAnswer(w, mode, code, b) = u
  BY Zenon DEF FullAnswer
<1> HIDE DEF y
<1>8. HeadWritten(w, code, y) /\ (mode = "cors" /\ w.status = 0 => CorsSent(y))
  BY <1>1, Zenon DEF HeadDone
<1>3. y \in Writers
  BY <1>8, Zenon DEF HeadWritten
<1>9. BodyDone(y, mode, b, u)
  BY <1>3, BodyResult, Zenon
<1> HIDE DEF u
<1>4. BodyWritten(y, b, u)
  BY <1>9, Zenon DEF BodyDone
<1>5. /\ u \in Writers /\ u.wroteHeader /\ u.statusCode = code
      /\ u.rawBody = b /\ u.body = w.body \o b
      /\ w.status # 0 => u.status = w.status /\ u.sent = w.sent
      /\ w.status = 0 => u.status = code
      /\ u.sent = y.sent
  BY <1>4, <1>8 DEF HeadWritten, BodyWritten
<1>6. mode = "cors" /\ w.status = 0 => CorsSent(u)
  BY <1>5, <1>8 DEF CorsSent
<1>7. FullyAnswered(w, mode, code, b, u)
  BY <1>5, <1>6, Zenon DEF FullyAnswered
<1> QED
  BY <1>2, <1>7

LEMMA BareFull ==
    ASSUME NEW w, NEW code, NEW b
    PROVE  Write(WriteHeader(w, FALSE, code), FALSE, b) = FullAnswer(w, "bare", code, b)
<1> DEFINE y == HeadIn(w, "bare", code)
<1>1. WriteHeader(w, FALSE, code) = y
  BY BareHead
<1>2. FullAnswer(w, "bare", code, b) = BodyIn(y, "bare", b)
  BY DEF FullAnswer
<1> HIDE DEF y
<1>3. Write(y, FALSE, b) = BodyIn(y, "bare", b)
  BY BareBody, Zenon
<1> QED
  BY <1>1, <1>2, <1>3, Zenon

LEMMA ModeFull ==
    ASSUME NEW w, NEW code, NEW b, NEW i
    PROVE  Write(WriteHeader(w, Wrapped(i), code), Wrapped(i), b) = FullAnswer(w, Mode(i), code, b)
<1> DEFINE y == HeadIn(w, Mode(i), code)
<1>1. WriteHeader(w, Wrapped(i), code) = y
  BY ModeHead, Zenon
<1>2. FullAnswer(w, Mode(i), code, b) = BodyIn(y, Mode(i), b)
  BY Zenon DEF FullAnswer
<1> HIDE DEF y
<1>3. Write(y, Wrapped(i), b) = BodyIn(y, Mode(i), b)
  BY ModeBody, Zenon
<1> QED
  BY <1>1, <1>2, <1>3, Zenon

\* An answer to a writer that has nothing.
LEMMA FirstAnswer ==
    ASSUME NEW w \in Writers, Fresh(w), NEW mode, NEW code, NEW b \in Bodies, NEW u,
           FullyAnswered(w, mode, code, b, u)
    PROVE  /\ u.status = code /\ u.body = b /\ Settled(u)
           /\ mode = "cors" => CorsSent(u)
BY DEF Fresh, Bodies, FullyAnswered, Settled

\* The adapter refuses with the writer u.
LEMMA QuitStep ==
    ASSUME IInv, NEW r \in DOMAIN req, NEW u \in Writers,
           req[r].pc = "new", Goes(r, Quits(req[r], u)), UNCHANGED cache,
           Len(u.rawBody) <= 1, u.wroteHeader => u.status # 0 /\ Settled(u),
           u.statusCode # 200
    PROVE  IInv'
<1> DEFINE q == req[r]
           q2 == Quits(q, u)
<1>1. /\ DOMAIN q = Keys /\ Sound(site, r, q) /\ site \in Scenarios /\ r \in DOMAIN site.in
  BY Context
<1> HIDE DEF q
<1>2. SameBut(q, q2, {"pc", "w"}) /\ q2.pc = "done" /\ q2.w = u
  BY <1>1, QuitFields
<1> HIDE DEF q2
<1>3. /\ Keeps(q, q2, u) /\ q2.at = q.at /\ q2.handled = q.handled
      /\ q2.panicking = q.panicking /\ q2.hit = q.hit
  BY <1>2 DEF SameBut, Keys, Keeps
<1>4. q.pc = "new" /\ Goes(r, q2)
  BY DEF q, q2
<1>5. Sound(site, r, q2)
  BY <1>1, <1>2, <1>3, <1>4, EndBeforeChain
<1>6. Evolves(q, q2)
  BY <1>4 DEF Evolves, Answered
<1> QED
  BY <1>3, <1>4, <1>5, <1>6, Stepped DEF q

LEMMA RefuseStep ==
    ASSUME IInv, NEW r \in DOMAIN req, req[r].pc = "new", UNCHANGED cache,
           NEW code \in Codes, Goes(r, Quits(req[r], Refused(req[r].w, code, Text(r))))
    PROVE  IInv'
<1> DEFINE w == req[r].w
           u == Refused(w, code, Text(r))
<1>1. /\ w \in Writers /\ Sound(site, r, req[r]) /\ r \in Requests
  BY Context
<1>2. Fresh(w)
  BY <1>1 DEF Sound, Control, Writing
<1>3. Text(r) \in Chunks
  BY <1>1, TextIsChunk
<1> HIDE DEF w
<1>4. Unanswered(u)
  BY <1>1, <1>2, <1>3, RefusedResult
<1>5. Goes(r, Quits(req[r], u))
  BY DEF w
<1> HIDE DEF u
<1>6. u \in Writers /\ Len(u.rawBody) <= 1 /\ ~u.wroteHeader /\ u.statusCode # 200
  BY <1>4 DEF Unanswered
<1> QED
  BY <1>5, <1>6, QuitStep

LEMMA WrongMethodStep ==
    ASSUME IInv, NEW r \in DOMAIN req, req[r].pc = "new", UNCHANGED cache, NEW u,
           FullyAnswered(req[r].w, "bare", 405, <<Text(r)>>, u),
           Goes(r, Quits(req[r], u))
    PROVE  IInv'
<1> DEFINE w == req[r].w
           c == <<Text(r)>>
<1>1. /\ w \in Writers /\ Sound(site, r, req[r]) /\ r \in Requests
  BY Context
<1>2. Fresh(w)
  BY <1>1 DEF Sound, Control, Writing
<1>3. c \in Bodies
  BY <1>1, TextIsChunk
<1>4. Len(c) = 1
  OBVIOUS
<1>5. FullyAnswered(w, "bare", 405, c, u)
  OBVIOUS
<1> HIDE DEF w, c
<1>6. u.status = 405 /\ Settled(u)
  BY <1>1, <1>2, <1>3, <1>5, FirstAnswer
<1>7. u \in Writers /\ Len(u.rawBody) <= 1 /\ u.status # 0 /\ u.statusCode # 200
  BY <1>4, <1>5, <1>6 DEF FullyAnswered
<1> QED
  BY <1>6, <1>7, QuitStep

LEMMA EntryStep ==
    ASSUME IInv, NEW r \in DOMAIN req, req[r].pc = "new", UNCHANGED cache,
           Goes(r, [req[r] EXCEPT !.pc = "down", !.at = 1])
    PROVE  IInv'
<1> DEFINE q == req[r]
           q1 == [q EXCEPT !.pc = "down"]
           q2 == [q1 EXCEPT !.at = 1]
<1>1. /\ DOMAIN q = Keys /\ Sound(site, r, q)
      /\ site \in Scenarios /\ r \in DOMAIN site.in /\ site.chain \in Seq(Middlewares)
  BY Context
<1>2. Goes(r, q2)
  OBVIOUS
<1>3. q.pc = "new"
  OBVIOUS
<1> HIDE DEF q
<1>4. SameBut(q, q1, {"pc"}) /\ q1.pc = "down"
  BY <1>1 DEF SameBut, Keys
<1> HIDE DEF q1
<1>5. SameBut(q1, q2, {"at"}) /\ q2.at = 1
  BY <1>4 DEF SameBut, Keys
<1> HIDE DEF q2
<1>6. /\ Keeps(q, q2, q.w) /\ q2.pc = "down" /\ q2.at = 1 /\ q2.handled = q.handled
      /\ q2.panicking = q.panicking /\ q2.hit = q.hit
  BY <1>4, <1>5 DEF SameBut, Keys, Keeps
<1>7. Sound(site, r, q2)
  BY <1>1, <1>3, <1>6, EnterChain
<1>8. Evolves(q, q2)
  BY <1>3 DEF Evolves, Answered
<1> QED
  BY <1>2, <1>6, <1>7, <1>8, Stepped DEF q

LEMMA ArrivesStep ==
    ASSUME IInv, NEW r \in DOMAIN req, Arrives(r)
    PROVE  IInv'
<1> DEFINE RefusesWith(code) == Goes(r, Quits(req[r], Refused(req[r].w, code, Text(r))))
           RefusesMethod ==
              Goes(r, Quits(req[r], Write(WriteHeader(req[r].w, FALSE, 405), FALSE, <<Text(r)>>)))
           GoesIn == Goes(r, [req[r] EXCEPT !.pc = "down", !.at = 1])
<1>1. req[r].pc = "new" /\ UNCHANGED cache
  BY DEF Arrives
<1>2. \/ RefusesWith(405) \/ RefusesWith(400) \/ RefusesWith(500)
      \/ RefusesMethod \/ GoesIn
  BY ZenonT(40) DEF Arrives
<1>3. ASSUME NEW code \in Codes, RefusesWith(code) PROVE IInv'
  BY <1>1, <1>3, RefuseStep, ZenonT(40)
<1>4. CASE RefusesWith(405) \/ RefusesWith(400) \/ RefusesWith(500)
  <2>1. 405 \in Codes /\ 400 \in Codes /\ 500 \in Codes
    BY DEF Codes
  <2> HIDE DEF RefusesWith
  <2> QED
    BY <1>3, <1>4, <2>1
<1>5. CASE RefusesMethod
  <2> DEFINE u == FullAnswer(req[r].w, "bare", 405, <<Text(r)>>)
  <2>1. Write(WriteHeader(req[r].w, FALSE, 405), FALSE, <<Text(r)>>) = u
    BY BareFull, ZenonT(60)
  <2>2. Goes(r, Quits(req[r], u))
    BY <1>5, <2>1, Zenon
  <2>3. FullyAnswered(req[r].w, "bare", 405, <<Text(r)>>, u)
    <3>1. req[r].w \in Writers /\ <<Text(r)>> \in Bodies
      BY Context, TextIsChunk
    <3>2. 405 \in Codes /\ "bare" \in Modes
      BY DEF Codes, Modes
    <3> QED
      BY <3>1, <3>2, FullResult
  <2> HIDE DEF u
  <2> QED
    BY <1>1, <2>2, <2>3, WrongMethodStep
<1>6. CASE GoesIn
  BY <1>1, <1>6, EntryStep
<1> HIDE DEF RefusesWith, RefusesMethod, GoesIn
<1> QED
  BY <1>2, <1>4, <1>5, <1>6

LEMMA LeavesStep ==
    ASSUME IInv, NEW r \in DOMAIN req, Leaves(r)
    PROVE  IInv'
<1> DEFINE q == req[r]
           u == IF q.panicking THEN q.w ELSE Sends(q.w, 200)
           q2 == Quits(q, u)
<1>1. /\ DOMAIN q = Keys /\ Sound(site, r, q) /\ q.w \in Writers
      /\ site \in Scenarios /\ r \in DOMAIN site.in
  BY Context
<1>2. q.pc = "up" /\ q.at = 0 /\ Goes(r, q2) /\ UNCHANGED cache
  BY DEF Leaves
<1>3. 200 \in Codes
  BY DEF Codes
<1>4. SendsWell(q.w, 200, Sends(q.w, 200))
  BY <1>1, <1>3, SendsResult
<1>5. u \in Writers /\ (u = q.w \/ SendsWell(q.w, 200, u))
  BY <1>1, <1>4 DEF SendsWell
<1> HIDE DEF q, u
<1>6. SameBut(q, q2, {"pc", "w"}) /\ q2.pc = "done" /\ q2.w = u
  BY <1>1, <1>5, QuitFields
<1> HIDE DEF q2
<1>7. /\ Keeps(q, q2, u) /\ q2.at = q.at /\ q2.handled = q.handled
      /\ q2.panicking = q.panicking /\ q2.hit = q.hit
  BY <1>6 DEF SameBut, Keys, Keeps
<1>8. Sound(site, r, q2)
  BY <1>1, <1>2, <1>5, <1>6, <1>7, EndAfterChain
<1>9. Evolves(q, q2)
  BY <1>5, <1>6, <1>7 DEF Evolves, Answered, Keeps, SendsWell
<1> QED
  BY <1>2, <1>7, <1>8, <1>9, Stepped DEF q
(***************************************************************************)
(* The calls of a handler                                                  *)
(***************************************************************************)
\* The writer of a request that is not over.
WriterOK(w) ==
    /\ w \in Writers
    /\ Len(w.rawBody) <= 1
    /\ w.wroteHeader => w.status # 0
    /\ ~w.wroteHeader => Fresh(w)

LEMMA DressedWriter ==
    ASSUME NEW w, NEW v, WriterOK(w), Dresses(w, v)
    PROVE  WriterOK(v)
BY DEF WriterOK, Dresses, Fresh

LEMMA DressedAnswer ==
    ASSUME NEW s, NEW w, NEW v, NEW u, Dresses(w, v), GoodAnswer(s, v, u)
    PROVE  GoodAnswer(s, w, u)
BY DEF GoodAnswer, Dresses, Fresh

Pieces == {b \in Bodies : Len(b) <= 1}

LEMMA WriterTyped ==
    ASSUME NEW w, WriterOK(w)
    PROVE  w \in Writers
BY Zenon DEF WriterOK

\* The mode is the one that the site asks of its handler.
ModeFits(s, mode) == mode \in Modes /\ (HasLayer(s, "CORS") => mode = "cors")

LEMMA ModeTyped ==
    ASSUME NEW s, NEW mode, ModeFits(s, mode)
    PROVE  mode \in Modes
BY ZenonT(40) DEF ModeFits

\* The writer u is a good answer, which has the body b last.
AnswersWith(s, w, b, u) == GoodAnswer(s, w, u) /\ u.rawBody = b

LEMMA HeadGood ==
    ASSUME NEW s, NEW w, NEW u, NEW mode, NEW code \in Codes, WriterOK(w),
           HeadDone(w, mode, code, u), ModeFits(s, mode)
    PROVE  AnswersWith(s, w, w.rawBody, u)
<1>1. u.rawBody = w.rawBody
  BY Zenon DEF HeadDone, HeadWritten
<1>2. HasLayer(s, "CORS") /\ w.status = 0 => CorsSent(u)
  BY Zenon DEF HeadDone, ModeFits
<1>3. CASE w.wroteHeader
  BY <1>1, <1>3 DEF Codes, Pieces, WriterOK, HeadDone, HeadWritten, GoodAnswer, AnswersWith, Fresh
<1>4. CASE ~w.wroteHeader
  BY <1>1, <1>2, <1>4 DEF Codes, Pieces, WriterOK, HeadDone, HeadWritten, GoodAnswer, AnswersWith, Fresh, Settled
<1> QED
  BY <1>3, <1>4

LEMMA GoodHead ==
    ASSUME NEW s, NEW w, NEW mode, NEW code \in Codes, WriterOK(w), ModeFits(s, mode)
    PROVE  AnswersWith(s, w, w.rawBody, HeadIn(w, mode, code))
<1> DEFINE u == HeadIn(w, mode, code)
<1>1. w \in Writers /\ mode \in Modes
  BY WriterTyped, ModeTyped, Zenon
<1>2. HeadDone(w, mode, code, u)
  BY <1>1, HeadResult
<1> HIDE DEF u
<1>3. AnswersWith(s, w, w.rawBody, u)
  BY <1>2, HeadGood
<1> QED
  BY <1>3 DEF u

LEMMA BodyDoneIs ==
    ASSUME NEW w \in Writers, NEW mode \in Modes, NEW b \in Pieces
    PROVE  BodyDone(w, mode, b, BodyIn(w, mode, b))
<1>1. b \in Bodies
  BY Zenon DEF Pieces
<1> QED
  BY <1>1, BodyResult, Zenon

LEMMA BodyGood ==
    ASSUME NEW s, NEW w, NEW u, NEW mode, NEW b \in Pieces, WriterOK(w),
           BodyDone(w, mode, b, u), ModeFits(s, mode)
    PROVE  AnswersWith(s, w, b, u)
<1>1. u.rawBody = b
  BY Zenon DEF BodyDone, BodyWritten
<1>2. HasLayer(s, "CORS") /\ w.status = 0 /\ ~w.wroteHeader => CorsSent(u)
  BY Zenon DEF BodyDone, ModeFits
<1>3. CASE w.wroteHeader
  BY <1>1, <1>3 DEF Pieces, WriterOK, BodyDone, BodyWritten, GoodAnswer, AnswersWith, Fresh
<1>4. CASE ~w.wroteHeader
  <2>1. u.body = b
    BY <1>4 DEF Pieces, WriterOK, BodyDone, BodyWritten, Fresh, Bodies
  <2> QED
    BY <1>1, <1>2, <1>4, <2>1 DEF Pieces, WriterOK, BodyDone, BodyWritten, GoodAnswer, AnswersWith, Fresh, Settled
<1> QED
  BY <1>3, <1>4

LEMMA DressedAnswersWith ==
    ASSUME NEW s, NEW w, NEW v, NEW u, NEW b, Dresses(w, v), AnswersWith(s, v, b, u)
    PROVE  AnswersWith(s, w, b, u)
BY DressedAnswer, Zenon DEF AnswersWith

LEMMA GoodBody ==
    ASSUME NEW s, NEW w, NEW v, NEW mode, NEW b \in Pieces, WriterOK(w), ModeFits(s, mode),
           Dresses(w, v)
    PROVE  AnswersWith(s, w, b, BodyIn(v, mode, b))
<1> DEFINE u == BodyIn(v, mode, b)
<1>1. WriterOK(v) /\ mode \in Modes
  BY DressedWriter, ModeTyped, Zenon
<1>2. v \in Writers
  BY <1>1, WriterTyped, Zenon
<1>3. BodyDone(v, mode, b, u)
  BY <1>1, <1>2, BodyDoneIs
<1> HIDE DEF u
<1>4. AnswersWith(s, v, b, u)
  BY <1>1, <1>3, BodyGood
<1>5. AnswersWith(s, w, b, u)
  BY <1>4, DressedAnswersWith, Zenon
<1> QED
  BY <1>5 DEF u

\* The answer is one with a status.
FullyGood(s, w, code, u) == GoodAnswer(s, w, u) /\ u.statusCode = code

LEMMA FullGood ==
    ASSUME NEW s, NEW w, NEW u, NEW mode, NEW code \in Codes, NEW b \in Pieces, WriterOK(w),
           FullyAnswered(w, mode, code, b, u), ModeFits(s, mode)
    PROVE  FullyGood(s, w, code, u)
<1>1. u.statusCode = code
  BY Zenon DEF FullyAnswered
<1>2. HasLayer(s, "CORS") /\ w.status = 0 => CorsSent(u)
  BY Zenon DEF FullyAnswered, ModeFits
<1>3. CASE w.wroteHeader
  BY <1>1, <1>3 DEF Codes, Pieces, WriterOK, FullyAnswered, GoodAnswer, FullyGood, Fresh
<1>4. CASE ~w.wroteHeader
  <2>1. w \in Writers /\ Fresh(w)
    BY <1>4, Zenon DEF WriterOK
  <2>2. u.status = code /\ Settled(u)
    BY <2>1, FirstAnswer DEF Pieces
  <2> QED
    BY <1>1, <1>2, <1>4, <2>1, <2>2 DEF Codes, Pieces, FullyAnswered, GoodAnswer, FullyGood, Fresh
<1> QED
  BY <1>3, <1>4

LEMMA GoodFull ==
    ASSUME NEW s, NEW w, NEW v, NEW mode, NEW code \in Codes, NEW b \in Pieces, WriterOK(w),
           ModeFits(s, mode), Dresses(w, v)
    PROVE  FullyGood(s, w, code, FullAnswer(v, mode, code, b))
<1> DEFINE u == FullAnswer(v, mode, code, b)
<1>1. WriterOK(v) /\ mode \in Modes
  BY DressedWriter, ModeTyped, Zenon
<1>2. v \in Writers
  BY <1>1, WriterTyped, Zenon
<1>6. b \in Bodies
  BY Zenon DEF Pieces
<1>3. FullyAnswered(v, mode, code, b, u)
  BY <1>1, <1>2, <1>6, FullResult, Zenon
<1> HIDE DEF u
<1>4. FullyGood(s, v, code, u)
  BY <1>1, <1>3, FullGood, ZenonT(40)
<1>5. FullyGood(s, w, code, u)
  BY <1>4, DressedAnswer, Zenon DEF FullyGood
<1> QED
  BY <1>5 DEF u

\* Request r is at a call op of its handler.
LEMMA AtCall ==
    ASSUME IInv, NEW r \in DOMAIN req, NEW op, Handling(r, op)
    PROVE  /\ req[r].pc = "down" /\ req[r].at = End(site)
           /\ req[r].ip \in DOMAIN site.in[r].script
           /\ site.in[r].script[req[r].ip] = Call(r) /\ Call(r).op = op
           /\ Call(r) \in Range(site.in[r].script)
           /\ site.in[r].script \in Seq(Range(site.in[r].script))
           /\ WriterOK(req[r].w)
           /\ ModeFits(site, Mode(HandlerAt))
           /\ req[r].parsed \in {Failed, ParseRequest(ParamsAt(site, r))}
<1>1. /\ End(site) = HandlerAt /\ RequestOK(site.in[r]) /\ Sound(site, r, req[r])
      /\ site.chain \in Seq(Middlewares)
  BY Context
<1>2. /\ req[r].pc = "down" /\ req[r].at = End(site)
      /\ req[r].ip \in DOMAIN site.in[r].script
      /\ site.in[r].script[req[r].ip] = Call(r) /\ Call(r).op = op
  BY <1>1 DEF Handling, Call, In
<1>3. /\ Call(r) \in Range(site.in[r].script)
      /\ site.in[r].script \in Seq(Range(site.in[r].script))
  BY <1>1, <1>2 DEF RequestOK, Range
<1>4. WriterOK(req[r].w)
  BY <1>1, <1>2 DEF Sound, Writing, WriterOK
<1>5. HasLayer(site, "CORS") <=> Wrapped(HandlerAt)
  BY <1>1 DEF HasLayer, Wrapped, HandlerAt, Layer, Range
<1>6. HasLayer(site, "CORS") => Mode(HandlerAt) = "cors"
  BY <1>5, Zenon DEF Mode
<1>7. ModeFits(site, Mode(HandlerAt))
  BY <1>6, ModeOK, Zenon DEF ModeFits
<1> QED
  BY <1>1, <1>2, <1>3, <1>4, <1>7 DEF Sound

\* A call that answers nothing.
LEMMA QuietStep ==
    ASSUME IInv, NEW r \in DOMAIN req, NEW op, Handling(r, op), NEW q2,
           Acts(r, q2), Calling(req[r], q2),
           q2.parsed \in {Failed, ParseRequest(ParamsAt(site, r))}
    PROVE  IInv'
<1> DEFINE q == req[r]
<1>1. site \in Scenarios /\ r \in DOMAIN site.in /\ Sound(site, r, q)
  BY Context
<1>2. /\ q.pc = "down" /\ q.at = End(site) /\ q.ip \in DOMAIN site.in[r].script
      /\ site.in[r].script \in Seq(Range(site.in[r].script))
  BY AtCall
<1>3. Goes(r, q2) /\ UNCHANGED cache /\ Calling(q, q2)
  BY DEF Acts
<1> HIDE DEF q
<1>4. CleanBody(q.w.rawBody) => CleanBody(q2.w.rawBody)
  BY <1>3 DEF Calling, Dresses
<1>5. Sound(site, r, q2)
  BY <1>1, <1>2, <1>3, <1>4, CallQuietly
<1>6. Evolves(q, q2) /\ q2.hit = q.hit
  BY <1>2, <1>3 DEF Evolves, Answered, Calling
<1> QED
  BY <1>3, <1>5, <1>6, Stepped DEF q

\* A call that answers, with the writer u.
LEMMA AnswerStep ==
    ASSUME IInv, NEW r \in DOMAIN req, NEW op \in Answering \cup {"wait", "parse"},
           Handling(r, op), NEW q2, NEW u,
           Acts(r, q2), Replies(req[r], q2, u), GoodAnswer(site, req[r].w, u),
           (q2.ip = req[r].ip + 1 /\ op \in Answering) \/ q2.ip = Len(site.in[r].script) + 1,
           ErrorsShow /\ site.style = "status" =>
              (CleanBody(req[r].w.rawBody) => CleanBody(u.rawBody))
              \/ (u.statusCode # 200 /\ q2.ip = Len(site.in[r].script) + 1)
    PROVE  IInv'
<1> DEFINE q == req[r]
<1>1. site \in Scenarios /\ r \in DOMAIN site.in /\ Sound(site, r, q)
  BY Context
<1>2. /\ q.pc = "down" /\ q.at = End(site) /\ q.ip \in DOMAIN site.in[r].script
      /\ site.in[r].script \in Seq(Range(site.in[r].script))
      /\ site.in[r].script[q.ip].op = op
  BY AtCall
<1>3. Goes(r, q2) /\ UNCHANGED cache /\ Replies(q, q2, u) /\ GoodAnswer(site, q.w, u)
  BY DEF Acts
<1>4. (q2.ip = q.ip + 1 /\ op \in Answering) \/ q2.ip = Len(site.in[r].script) + 1
  OBVIOUS
<1>5. ErrorsShow /\ site.style = "status" =>
              (CleanBody(q.w.rawBody) => CleanBody(u.rawBody))
              \/ (u.statusCode # 200 /\ q2.ip = Len(site.in[r].script) + 1)
  OBVIOUS
<1> HIDE DEF q
<1>6. u \in Writers
  BY <1>3 DEF GoodAnswer
<1>7. Sound(site, r, q2)
  BY <1>1, <1>2, <1>3, <1>4, <1>5, <1>6, CallAndAnswer
<1>8. Evolves(q, q2) /\ q2.hit = q.hit
  BY <1>2, <1>3 DEF Evolves, Answered, Replies
<1> QED
  BY <1>3, <1>7, <1>8, Stepped DEF q

(***************************************************************************)
(* The fields of a request after a call                                    *)
(***************************************************************************)
LEMMA NextCallFields ==
    ASSUME NEW q, DOMAIN q = Keys
    PROVE  /\ SameBut(q, NextCall(q), {"ip", "handled"})
           /\ NextCall(q).ip = q.ip + 1 /\ NextCall(q).handled
BY DEF SameBut, Keys, NextCall

LEMMA LastCallFields ==
    ASSUME NEW q, NEW r, DOMAIN q = Keys
    PROVE  /\ SameBut(q, LastCall(r, q), {"ip", "handled"})
           /\ LastCall(r, q).ip = Len(site.in[r].script) + 1 /\ LastCall(r, q).handled
BY DEF SameBut, Keys, LastCall, In

LEMMA BegunFields ==
    ASSUME NEW r, DOMAIN req[r] = Keys
    PROVE  SameBut(req[r], Begun(r), {"logger"}) /\ DOMAIN Begun(r) = Keys
BY DEF SameBut, Keys, Begun

LEMMA QuietNext ==
    ASSUME NEW q, NEW q1, SameBut(q, q1, {"logger", "lines", "parsed", "w"}), Dresses(q.w, q1.w)
    PROVE  Calling(q, NextCall(q1)) /\ NextCall(q1).parsed = q1.parsed
<1> DEFINE q2 == NextCall(q1)
<1>1. SameBut(q1, q2, {"ip", "handled"}) /\ q2.ip = q1.ip + 1 /\ q2.handled
  BY NextCallFields DEF SameBut
<1> HIDE DEF q2
<1>2. Calling(q, q2) /\ q2.parsed = q1.parsed
  BY <1>1 DEF SameBut, Keys, Calling
<1> QED
  BY <1>2 DEF q2

LEMMA ReplyNext ==
    ASSUME NEW q, NEW q1, SameBut(q, q1, {"logger", "lines", "w"}), q.ip \in Nat
    PROVE  Replies(q, NextCall(q1), q1.w) /\ NextCall(q1).ip = q.ip + 1
<1> DEFINE q2 == NextCall(q1)
<1>1. SameBut(q1, q2, {"ip", "handled"}) /\ q2.ip = q1.ip + 1 /\ q2.handled
  BY NextCallFields DEF SameBut
<1> HIDE DEF q2
<1>2. Replies(q, q2, q1.w) /\ q2.ip = q.ip + 1
  BY <1>1 DEF SameBut, Keys, Replies
<1> QED
  BY <1>2 DEF q2

LEMMA ReplyLast ==
    ASSUME NEW q, NEW q1, NEW r, SameBut(q, q1, {"logger", "lines", "w"}),
           Len(site.in[r].script) \in Nat
    PROVE  /\ Replies(q, LastCall(r, q1), q1.w)
           /\ LastCall(r, q1).ip = Len(site.in[r].script) + 1
<1> DEFINE q2 == LastCall(r, q1)
           n == Len(site.in[r].script)
<1>1. SameBut(q1, q2, {"ip", "handled"}) /\ q2.ip = n + 1 /\ q2.handled
  BY LastCallFields DEF SameBut
<1>2. n \in Nat
  OBVIOUS
<1> HIDE DEF q2, n
<1>3. Replies(q, q2, q1.w)
  BY <1>1, <1>2 DEF SameBut, Keys, Replies
<1> QED
  BY <1>1, <1>3 DEF q2, n

LEMMA LinesField ==
    ASSUME NEW q, DOMAIN q = Keys, NEW logger, NEW calls
    PROVE  SameBut(q, Logs(q, logger, calls), {"lines"})
BY DEF SameBut, Keys, Logs

LEMMA WriterField ==
    ASSUME NEW q, DOMAIN q = Keys, NEW u
    PROVE  SameBut(q, [q EXCEPT !.w = u], {"w"}) /\ [q EXCEPT !.w = u].w = u
BY DEF SameBut, Keys

\* A request as its handler finds it.
LEMMA BegunWriter ==
    ASSUME IInv, NEW r \in DOMAIN req
    PROVE  /\ SameBut(req[r], Begun(r), {"logger"}) /\ DOMAIN Begun(r) = Keys
           /\ Begun(r).w = req[r].w /\ Begun(r).parsed = req[r].parsed
           /\ Dresses(req[r].w, req[r].w)
<1>1. DOMAIN req[r] = Keys /\ req[r].w \in Writers
  BY Context
<1>2. SameBut(req[r], Begun(r), {"logger"}) /\ DOMAIN Begun(r) = Keys
  BY <1>1, BegunFields
<1>3. Begun(r).w = req[r].w /\ Begun(r).parsed = req[r].parsed
  BY <1>2 DEF SameBut, Keys
<1>4. Dresses(req[r].w, req[r].w)
  BY <1>1 DEF Dresses
<1> QED
  BY <1>2, <1>3, <1>4

(***************************************************************************)
(* The steps of a handler that answer nothing                              *)
(***************************************************************************)
LEMMA BackendAnswersStep ==
    ASSUME IInv, NEW r \in DOMAIN req, BackendAnswers(r)
    PROVE  IInv'
<1> DEFINE q == req[r]
           q1 == Begun(r)
           q2 == NextCall(q1)
<1>1. Handling(r, "wait") /\ Acts(r, q2)
  BY DEF BackendAnswers
<1>2. SameBut(q, q1, {"logger"}) /\ q1.w = q.w /\ q1.parsed = q.parsed /\ Dresses(q.w, q.w)
  BY BegunWriter
<1>3. q.parsed \in {Failed, ParseRequest(ParamsAt(site, r))}
  BY <1>1, AtCall
<1> HIDE DEF q, q1
<1>4. SameBut(q, q1, {"logger", "lines", "parsed", "w"})
  BY <1>2 DEF SameBut
<1>5. Calling(q, q2) /\ q2.parsed = q1.parsed
  BY <1>2, <1>4, QuietNext
<1> HIDE DEF q2
<1>6. q2.parsed \in {Failed, ParseRequest(ParamsAt(site, r))}
  BY <1>2, <1>3, <1>5
<1> QED
  BY <1>1, <1>5, <1>6, QuietStep DEF q

LEMMA LogsFieldsStep ==
    ASSUME IInv, NEW r \in DOMAIN req, LogsFields(r)
    PROVE  IInv'
<1> DEFINE q == req[r]
           q0 == Begun(r)
           qw == [q0 EXCEPT !.logger = [enc |-> With(@.enc, Call(r).arg),
                                        calls |-> @.calls \o Call(r).arg]]
           ql == Logs(q0, q0.logger, Call(r).arg)
<1>1. \/ Handling(r, "with") /\ Acts(r, NextCall(qw))
      \/ Handling(r, "log") /\ Acts(r, NextCall(ql))
  BY DEF LogsFields
<1>2. /\ SameBut(q, q0, {"logger"}) /\ DOMAIN q0 = Keys
      /\ q0.w = q.w /\ q0.parsed = q.parsed /\ Dresses(q.w, q.w)
  BY BegunWriter
<1>3. q.parsed \in {Failed, ParseRequest(ParamsAt(site, r))}
  BY <1>1, AtCall
<1>4. PICK op, q1 : q1 \in {qw, ql} /\ Handling(r, op) /\ Acts(r, NextCall(q1))
  BY <1>1
<1>5. SameBut(q0, q1, {"logger", "lines"})
  <2>1. SameBut(q0, ql, {"lines"})
    BY <1>2, LinesField
  <2>2. SameBut(q0, qw, {"logger"})
    BY <1>2 DEF SameBut, Keys
  <2> HIDE DEF qw, ql
  <2> QED
    BY <1>4, <2>1, <2>2 DEF SameBut
<1> HIDE DEF q, q0, qw, ql
<1>6. /\ SameBut(q, q1, {"logger", "lines", "parsed", "w"})
      /\ q1.w = q.w /\ q1.parsed = q.parsed
  BY <1>2, <1>5 DEF SameBut, Keys
<1>7. Calling(q, NextCall(q1)) /\ NextCall(q1).parsed = q1.parsed
  BY <1>2, <1>6, QuietNext
<1>8. NextCall(q1).parsed \in {Failed, ParseRequest(ParamsAt(site, r))}
  BY <1>3, <1>6, <1>7
<1> QED
  BY <1>4, <1>7, <1>8, QuietStep DEF q

LEMMA AllowStep ==
    ASSUME IInv, NEW r \in DOMAIN req, Handling(r, "allow"),
           Acts(r, NextCall([Begun(r) EXCEPT !.w.header.allow = "GET"]))
    PROVE  IInv'
<1> DEFINE q == req[r]
           q0 == Begun(r)
           h == [q0.w.header EXCEPT !.allow = "GET"]
           q1 == [q0 EXCEPT !.w = [q0.w EXCEPT !.header = h]]
<1>1. Acts(r, NextCall(q1))
  OBVIOUS
<1>2. /\ SameBut(q, q0, {"logger"}) /\ DOMAIN q0 = Keys
      /\ q0.w = q.w /\ q0.parsed = q.parsed
  BY BegunWriter
<1>3. q.parsed \in {Failed, ParseRequest(ParamsAt(site, r))} /\ q.w \in Writers
  BY AtCall, Context
<1> HIDE DEF q, q0
<1>4. h \in Headers
  <2>1. q0.w.header \in Headers /\ "GET" \in Values
    BY <1>2, <1>3, WriterHeader DEF Values
  <2> QED
    BY <2>1 DEF Headers
<1> HIDE DEF h
<1>5. SameBut(q0, q1, {"w"}) /\ Dresses(q0.w, q1.w)
  BY <1>2, <1>3, <1>4, HeaderFields
<1> HIDE DEF q1
<1>6. /\ SameBut(q, q1, {"logger", "lines", "parsed", "w"})
      /\ Dresses(q.w, q1.w) /\ q1.parsed = q.parsed
  BY <1>2, <1>5 DEF SameBut, Keys
<1>7. Calling(q, NextCall(q1)) /\ NextCall(q1).parsed = q1.parsed
  BY <1>6, QuietNext
<1>8. NextCall(q1).parsed \in {Failed, ParseRequest(ParamsAt(site, r))}
  BY <1>3, <1>6, <1>7
<1> QED
  BY <1>1, <1>7, <1>8, QuietStep DEF q

(***************************************************************************)
(* The steps of a handler that answer                                      *)
(***************************************************************************)
\* An answer after which the handler goes on.
LEMMA AnswerNext ==
    ASSUME IInv, NEW r \in DOMAIN req, NEW op \in Answering, Handling(r, op), NEW u,
           Acts(r, NextCall([Begun(r) EXCEPT !.w = u])), GoodAnswer(site, req[r].w, u),
           CleanBody(req[r].w.rawBody) => CleanBody(u.rawBody)
    PROVE  IInv'
<1> DEFINE q == req[r]
           q0 == Begun(r)
           q1 == [q0 EXCEPT !.w = u]
<1>1. Acts(r, NextCall(q1))
  OBVIOUS
<1>2. SameBut(q, q0, {"logger"}) /\ DOMAIN q0 = Keys
  BY BegunWriter
<1>3. q.ip \in Nat
  BY Context DEF Sound, Control
<1>4. GoodAnswer(site, q.w, u) /\ (CleanBody(q.w.rawBody) => CleanBody(u.rawBody))
  OBVIOUS
<1> HIDE DEF q, q0
<1>5. SameBut(q0, q1, {"w"}) /\ q1.w = u
  BY <1>2, WriterField
<1> HIDE DEF q1
<1>6. SameBut(q, q1, {"logger", "lines", "w"})
  BY <1>2, <1>5 DEF SameBut
<1>7. Replies(q, NextCall(q1), u) /\ NextCall(q1).ip = q.ip + 1
  BY <1>3, <1>5, <1>6, ReplyNext
<1> QED
  BY <1>1, <1>4, <1>7, AnswerStep DEF q

\* A handler writes a head.
LEMMA HeadStep ==
    ASSUME IInv, NEW r \in DOMAIN req, NEW op \in Answering, Handling(r, op), NEW u,
           NEW code \in Codes, u = HeadIn(req[r].w, Mode(HandlerAt), code),
           Acts(r, NextCall([Begun(r) EXCEPT !.w = u]))
    PROVE  IInv'
<1> DEFINE w == req[r].w
           mode == Mode(HandlerAt)
<1>1. WriterOK(w) /\ ModeFits(site, mode)
  BY AtCall
<1>2. AnswersWith(site, w, w.rawBody, u)
  BY <1>1, GoodHead
<1>3. GoodAnswer(site, w, u) /\ (CleanBody(w.rawBody) => CleanBody(u.rawBody))
  BY <1>2, Zenon DEF AnswersWith
<1> QED
  BY <1>3, AnswerNext, Zenon

LEMMA ChunkClean ==
    ASSUME NEW r \in Requests, NEW what \in {"json", "raw", "other"}, NEW data \in BOOLEAN
    PROVE  <<Chunk(r, what, 0, data)>> \in Pieces /\ CleanBody(<<Chunk(r, what, 0, data)>>)
BY DEF Chunk, Chunks, Bodies, Pieces, CleanBody

\* A handler writes the body b.
LEMMA WriteStep ==
    ASSUME IInv, NEW r \in DOMAIN req, NEW op \in Answering, Handling(r, op), NEW u, NEW v,
           NEW b \in Pieces, CleanBody(b),
           Dresses(req[r].w, v), u = BodyIn(v, Mode(HandlerAt), b),
           Acts(r, NextCall([Begun(r) EXCEPT !.w = u]))
    PROVE  IInv'
<1> DEFINE w == req[r].w
           mode == Mode(HandlerAt)
<1>1. WriterOK(w) /\ ModeFits(site, mode)
  BY AtCall
<1>2. AnswersWith(site, w, b, u)
  BY <1>1, GoodBody
<1>3. GoodAnswer(site, w, u) /\ CleanBody(u.rawBody)
  BY <1>2, Zenon DEF AnswersWith
<1> QED
  BY <1>3, AnswerNext, Zenon

LEMMA StatusStep ==
    ASSUME IInv, NEW r \in DOMAIN req, Handling(r, "status"),
           Acts(r, NextCall([Begun(r) EXCEPT
                               !.w = WriteHeader(@, Wrapped(HandlerAt), Call(r).arg)]))
    PROVE  IInv'
<1> DEFINE u == HeadIn(req[r].w, Mode(HandlerAt), Call(r).arg)
<1>1. Call(r).arg \in Codes
  <2>1. Call(r) \in Range(site.in[r].script) /\ Call(r).op = "status"
    BY AtCall
  <2>2. RequestOK(site.in[r])
    BY Context
  <2>3. Call(r).arg \in FinalStatuses
    BY <2>1, <2>2, Zenon DEF RequestOK
  <2> QED
    BY <2>3 DEF Codes, FinalStatuses
<1>2. WriteHeader(Begun(r).w, Wrapped(HandlerAt), Call(r).arg) = u
  BY ModeHead, BegunWriter, Zenon
<1>3. Acts(r, NextCall([Begun(r) EXCEPT !.w = u]))
  BY <1>2, Zenon
<1>4. "status" \in Answering
  BY DEF Answering
<1> HIDE DEF u
<1>5. u = HeadIn(req[r].w, Mode(HandlerAt), Call(r).arg)
  BY DEF u
<1> QED
  BY <1>1, <1>3, <1>4, <1>5, HeadStep, Zenon

LEMMA WriteRawStep ==
    ASSUME IInv, NEW r \in DOMAIN req, Handling(r, "write"),
           Acts(r, NextCall([Begun(r) EXCEPT
                               !.w = Write(@, Wrapped(HandlerAt), <<Chunk(r, "raw", 0, FALSE)>>)]))
    PROVE  IInv'
<1> DEFINE b == <<Chunk(r, "raw", 0, FALSE)>>
           u == BodyIn(req[r].w, Mode(HandlerAt), b)
<1>1. b \in Pieces /\ CleanBody(b)
  BY ChunkClean, Context
<1> HIDE DEF b
<1>2. Write(Begun(r).w, Wrapped(HandlerAt), b) = u
  BY ModeBody, BegunWriter, Zenon
<1>3. Acts(r, NextCall([Begun(r) EXCEPT !.w = u]))
  BY <1>2, Zenon DEF b
<1>4. "write" \in Answering
  BY DEF Answering
<1>5. Dresses(req[r].w, req[r].w)
  BY BegunWriter
<1> HIDE DEF u
<1>6. u = BodyIn(req[r].w, Mode(HandlerAt), b)
  BY DEF u
<1> QED
  BY <1>1, <1>3, <1>4, <1>5, <1>6, WriteStep, Zenon

\* A call that leaves the writer as it is.
LEMMA SameWriterStep ==
    ASSUME IInv, NEW r \in DOMAIN req, NEW op, Handling(r, op), NEW u, u = Begun(r).w,
           Acts(r, NextCall([Begun(r) EXCEPT !.w = u]))
    PROVE  IInv'
<1> DEFINE q == req[r]
           q0 == Begun(r)
           q1 == [q0 EXCEPT !.w = u]
<1>1. Acts(r, NextCall(q1)) /\ u = q0.w
  OBVIOUS
<1>2. /\ SameBut(q, q0, {"logger"}) /\ DOMAIN q0 = Keys
      /\ q0.w = q.w /\ q0.parsed = q.parsed /\ Dresses(q.w, q.w)
  BY BegunWriter
<1>3. q.parsed \in {Failed, ParseRequest(ParamsAt(site, r))}
  BY AtCall
<1> HIDE DEF q, q0
<1>4. SameBut(q0, q1, {"w"}) /\ q1.w = u
  BY <1>2, WriterField
<1> HIDE DEF q1
<1>5. /\ SameBut(q, q1, {"logger", "lines", "parsed", "w"})
      /\ Dresses(q.w, q1.w) /\ q1.parsed = q.parsed
  BY <1>1, <1>2, <1>4 DEF SameBut, Keys
<1>6. Calling(q, NextCall(q1)) /\ NextCall(q1).parsed = q1.parsed
  BY <1>5, QuietNext
<1>7. NextCall(q1).parsed \in {Failed, ParseRequest(ParamsAt(site, r))}
  BY <1>3, <1>5, <1>6
<1> QED
  BY <1>1, <1>6, <1>7, QuietStep DEF q

LEMMA FlushStep ==
    ASSUME IInv, NEW r \in DOMAIN req, Handling(r, "flush"),
           Acts(r, NextCall([Begun(r) EXCEPT !.w = Flush(@, Wrapped(HandlerAt))]))
    PROVE  IInv'
<1> DEFINE w == Begun(r).w
           u == Flush(w, Wrapped(HandlerAt))
<1>1. Acts(r, NextCall([Begun(r) EXCEPT !.w = u]))
  OBVIOUS
<1>2. w = req[r].w
  BY BegunWriter
<1>3. CASE Wrapped(HandlerAt) \/ w.wroteHeader
  <2>1. u = w
    BY <1>3, Zenon DEF Flush
  <2> HIDE DEF u
  <2> QED
    BY <1>1, <2>1, SameWriterStep, Zenon
<1>4. CASE ~(Wrapped(HandlerAt) \/ w.wroteHeader)
  <2>1. u = WriteHeader(w, FALSE, 200)
    BY <1>4, Zenon DEF Flush
  <2>2. Mode(HandlerAt) = "bare"
    BY <1>4, Zenon DEF Mode
  <2>3. u = HeadIn(req[r].w, Mode(HandlerAt), 200)
    BY <1>2, <2>1, <2>2, BareHead, ZenonT(40)
  <2>4. "flush" \in Answering /\ 200 \in Codes
    BY DEF Answering, Codes
  <2> HIDE DEF u
  <2> QED
    BY <1>1, <2>3, <2>4, HeadStep, Zenon
<1> QED
  BY <1>3, <1>4

LEMMA WritesStep ==
    ASSUME IInv, NEW r \in DOMAIN req, Writes(r)
    PROVE  IInv'
BY AllowStep, StatusStep, WriteRawStep, FlushStep, Zenon DEF Writes

LEMMA SameChunks ==
    ASSUME NEW a \in Bodies, Len(a) <= 1, NEW c \in Chunks, c.errno = 0, c.what # "text"
    PROVE  /\ [i \in DOMAIN a |-> c] \in Bodies /\ Len([i \in DOMAIN a |-> c]) <= 1
           /\ CleanBody([i \in DOMAIN a |-> c])
<1> DEFINE b == [i \in DOMAIN a |-> c]
<1>1. DOMAIN a = 1..Len(a) /\ Len(a) \in Nat
  BY DEF Bodies
<1>2. DOMAIN b = 1..Len(a) /\ \A i \in 1..Len(a) : b[i] = c
  BY <1>1
<1> HIDE DEF b
<1>3. b \in [1..Len(a) -> Chunks]
  <2>1. b = [i \in 1..Len(a) |-> c]
    BY <1>1 DEF b
  <2> QED
    BY <2>1
<1>4. b \in Bodies /\ Len(b) = Len(a)
  BY <1>1, <1>2, <1>3 DEF Bodies
<1>5. CleanBody(b)
  BY <1>2 DEF CleanBody
<1> QED
  BY <1>4, <1>5 DEF b

LEMMA ReusesStep ==
    ASSUME IInv, NEW r \in DOMAIN req, Reuses(r)
    PROVE  IInv'
<1> DEFINE w == Begun(r).w
           b == [i \in DOMAIN w.rawBody |-> Chunk(r, "other", 0, FALSE)]
           u == [w EXCEPT !.rawBody = b]
<1>1. Handling(r, "reuse") /\ Acts(r, NextCall([Begun(r) EXCEPT !.w = u]))
  BY DEF Reuses
<1>2. w = req[r].w /\ WriterOK(w) /\ r \in Requests
  BY <1>1, AtCall, BegunWriter, Context
<1>3. w \in Writers
  BY <1>2, WriterTyped
<1> HIDE DEF w
<1>4. CASE w.rawBody = <<>>
  <2>1. b = w.rawBody
    BY <1>4
  <2> HIDE DEF b
  <2>2. u = w
    BY <1>3, <2>1 DEF Writers
  <2> HIDE DEF u
  <2> QED
    BY <1>1, <2>2, SameWriterStep, Zenon DEF w
<1>5. CASE w.rawBody # <<>>
  <2>1. /\ w.wroteHeader /\ w.status # 0 /\ Len(w.rawBody) <= 1 /\ w.rawBody \in Bodies
    BY <1>2, <1>3, <1>5 DEF WriterOK, Fresh, Writers
  <2>2. /\ Chunk(r, "other", 0, FALSE) \in Chunks
        /\ Chunk(r, "other", 0, FALSE).errno = 0 /\ Chunk(r, "other", 0, FALSE).what # "text"
    BY <1>2 DEF Chunk, Chunks
  <2>3. b \in Bodies /\ Len(b) <= 1 /\ CleanBody(b)
    BY <2>1, <2>2, SameChunks
  <2> HIDE DEF b
  <2>4. /\ u \in Writers /\ u.rawBody = b /\ u.wroteHeader = w.wroteHeader
        /\ u.status = w.status /\ u.sent = w.sent
    BY <1>3, <2>3 DEF Writers
  <2> HIDE DEF u
  <2>5. GoodAnswer(site, w, u) /\ CleanBody(u.rawBody)
    BY <2>1, <2>3, <2>4 DEF GoodAnswer, Fresh
  <2>6. GoodAnswer(site, req[r].w, u)
    BY <1>2, <2>5
  <2>7. "reuse" \in Answering
    BY DEF Answering
  <2> QED
    BY <1>1, <2>5, <2>6, <2>7, AnswerNext
<1> QED
  BY <1>4, <1>5

(***************************************************************************)
(* Answers in JSON                                                         *)
(***************************************************************************)
AsJson(w) == [w EXCEPT !.header.ctype = "json"]

LEMMA JsonDresses ==
    ASSUME NEW w \in Writers
    PROVE  Dresses(w, AsJson(w))
<1> DEFINE h == [w.header EXCEPT !.ctype = "json"]
<1>1. w.header \in Headers /\ "json" \in Values
  BY WriterHeader DEF Values
<1>2. h \in Headers
  BY <1>1, HeaderSet
<1>3. AsJson(w) = [w EXCEPT !.header = h]
  BY DEF AsJson
<1> HIDE DEF h
<1> QED
  BY <1>2, <1>3, HeaderDresses

Envelope(r, result) == <<Chunk(r, "json", result.errno, result.data)>>

LEMMA WriteJsonIs ==
    ASSUME NEW r, NEW w, NEW result
    PROVE  WriteJson(r, w, result) = BodyIn(AsJson(w), Mode(HandlerAt), Envelope(r, result))
BY ModeBody, Zenon DEF WriteJson, AsJson, Envelope

LEMMA OksStep ==
    ASSUME IInv, NEW r \in DOMAIN req, Oks(r)
    PROVE  IInv'
<1> DEFINE q0 == Begun(r)
           result == [errno |-> Code(ErrSuccess), data |-> TRUE]
           b == Envelope(r, result)
           v == AsJson(req[r].w)
           u == BodyIn(v, Mode(HandlerAt), b)
           Logged == Logs(q0, q0.logger, <<>>)
           Wrote == [q0 EXCEPT !.w = WriteJson(r, @, result)]
<1>1. Handling(r, "ok") /\ "ok" \in Answering
  BY DEF Oks, Answering
<1>2. Acts(r, NextCall(Logged)) \/ Acts(r, NextCall(Wrote))
  BY DEF Oks
<1>3. DOMAIN req[r] = Keys /\ req[r].w \in Writers /\ r \in Requests
  BY Context
<1>4. CASE Acts(r, NextCall(Logged))
  <2> DEFINE q == req[r]
             q1 == Logged
  <2>1. SameBut(q, q0, {"logger"}) /\ q0.w = q.w /\ q0.parsed = q.parsed /\ Dresses(q.w, q.w)
    BY BegunWriter
  <2>2. q.parsed \in {Failed, ParseRequest(ParamsAt(site, r))}
    BY <1>1, AtCall
  <2>3. SameBut(q0, q1, {"lines"})
    BY <2>1, LinesField DEF SameBut
  <2> HIDE DEF q, q0, q1
  <2>4. /\ SameBut(q, q1, {"logger", "lines", "parsed", "w"})
        /\ q1.w = q.w /\ q1.parsed = q.parsed
    BY <2>1, <2>3 DEF SameBut, Keys
  <2>5. Calling(q, NextCall(q1)) /\ NextCall(q1).parsed = q1.parsed
    BY <2>1, <2>4, QuietNext
  <2>6. NextCall(q1).parsed \in {Failed, ParseRequest(ParamsAt(site, r))}
    BY <2>2, <2>4, <2>5
  <2>7. Acts(r, NextCall(q1))
    BY <1>4 DEF q1
  <2> QED
    BY <1>1, <2>5, <2>6, <2>7, QuietStep DEF q
<1>5. CASE Acts(r, NextCall(Wrote))
  <2>1. b \in Pieces /\ CleanBody(b)
    <3>1. Code(ErrSuccess) = 0
      BY DEF Code, ErrSuccess, Last
    <3>2. b = <<Chunk(r, "json", 0, TRUE)>>
      BY <3>1 DEF Envelope
    <3> QED
      BY <1>3, <3>2, ChunkClean
  <2>2. Dresses(req[r].w, v)
    BY <1>3, JsonDresses
  <2> HIDE DEF b
  <2>3. WriteJson(r, q0.w, result) = u
    BY WriteJsonIs, BegunWriter, Zenon DEF b
  <2>4. Acts(r, NextCall([q0 EXCEPT !.w = u]))
    BY <1>5, <2>3, Zenon
  <2> HIDE DEF u, v
  <2>5. u = BodyIn(v, Mode(HandlerAt), b)
    BY DEF u
  <2> QED
    BY <1>1, <2>1, <2>2, <2>4, <2>5, WriteStep, Zenon
<1> QED
  BY <1>2, <1>4, <1>5

(***************************************************************************)
(* Answers to an error                                                     *)
(***************************************************************************)
\* What can be said in an envelope and in a status.
Sayable(err) ==
    /\ errorResult(err).errno \in Int /\ errorResult(err).data \in BOOLEAN
    /\ httpStatusOf(Info(err)) \in Codes

LEMMA SayablePiece ==
    ASSUME NEW err, Sayable(err), NEW r \in Requests
    PROVE  Envelope(r, errorResult(err)) \in Pieces
<1> DEFINE e == errorResult(err)
<1>1. e.errno \in Int /\ e.data \in BOOLEAN
  BY DEF Sayable
<1> HIDE DEF e
<1>2. Envelope(r, e) \in Pieces
  BY <1>1 DEF Envelope, Pieces, Bodies, Chunk, Chunks
<1> QED
  BY <1>2 DEF e

\* A head and a body, with another header between them.
LEMMA HeadDressBody ==
    ASSUME NEW v \in Writers, NEW y, NEW z, NEW u, NEW mode \in Modes, NEW code \in Codes,
           NEW b \in Pieces,
           y = HeadIn(v, mode, code), Dresses(y, z), u = BodyIn(z, mode, b)
    PROVE  FullyAnswered(v, mode, code, b, u)
<1>1. HeadDone(v, mode, code, y)
  BY HeadResult
<1>2. z \in Writers
  BY Zenon DEF Dresses
<1>3. BodyDone(z, mode, b, u)
  BY <1>2, BodyDoneIs
<1>4. /\ HeadWritten(v, code, y) /\ BodyWritten(z, b, u)
      /\ mode = "cors" /\ v.status = 0 => CorsSent(y)
  BY <1>1, <1>3, Zenon DEF HeadDone, BodyDone
<1>5. /\ u \in Writers /\ u.wroteHeader /\ u.statusCode = code
      /\ u.rawBody = b /\ u.body = v.body \o b
      /\ v.status # 0 => u.status = v.status /\ u.sent = v.sent
      /\ v.status = 0 => u.status = code
      /\ u.sent = y.sent
  <2>1. z.wroteHeader = y.wroteHeader /\ z.status = y.status /\ z.sent = y.sent
        /\ z.statusCode = y.statusCode /\ z.body = y.body
    BY Zenon DEF Dresses
  <2>2. /\ y.wroteHeader /\ y.statusCode = code /\ y.body = v.body
        /\ v.status # 0 => y.status = v.status /\ y.sent = v.sent
        /\ v.status = 0 => y.status = code
    BY <1>4, Zenon DEF HeadWritten
  <2>3. /\ u \in Writers /\ u.wroteHeader
        /\ u.rawBody = b /\ u.body = z.body \o b
        /\ z.wroteHeader => /\ u.statusCode = z.statusCode
                            /\ u.status = z.status /\ u.sent = z.sent
    BY <1>4, Zenon DEF BodyWritten
  <2>4. z.wroteHeader
    BY <2>1, <2>2, Zenon
  <2>5. u.statusCode = z.statusCode /\ u.status = z.status /\ u.sent = z.sent
    BY <2>3, <2>4, Zenon
  <2>6. u.statusCode = code /\ u.status = y.status /\ u.sent = y.sent
    BY <2>1, <2>2, <2>5, Zenon
  <2>7. u.body = v.body \o b
    BY <2>1, <2>2, <2>3, Zenon
  <2> QED
    BY <2>2, <2>3, <2>6, <2>7, Zenon
<1>6. v.status = 0 /\ mode = "cors" => CorsSent(u)
  BY <1>4, <1>5, Zenon DEF CorsSent
<1> QED
  BY <1>5, <1>6, Zenon DEF FullyAnswered

LEMMA GoodError ==
    ASSUME NEW s, NEW w, NEW v, NEW y, NEW z, NEW u, NEW mode, NEW code \in Codes, NEW b \in Pieces,
           WriterOK(w), ModeFits(s, mode), Dresses(w, v),
           y = HeadIn(v, mode, code), Dresses(y, z), u = BodyIn(z, mode, b)
    PROVE  FullyGood(s, w, code, u)
<1>1. WriterOK(v) /\ mode \in Modes
  BY DressedWriter, ModeTyped, Zenon
<1>2. v \in Writers
  BY <1>1, WriterTyped, Zenon
<1>3. FullyAnswered(v, mode, code, b, u)
  BY <1>1, <1>2, HeadDressBody
<1>4. FullyGood(s, v, code, u)
  BY <1>1, <1>3, FullGood, ZenonT(40)
<1> QED
  BY <1>4, DressedAnswer, Zenon DEF FullyGood

\* What Error writes, in the mode of the handler.
LEMMA ErrorIs ==
    ASSUME NEW r, NEW w, NEW err
    PROVE  Error(r, w, err) =
              IF site.style = "errno"
              THEN BodyIn(AsJson(w), Mode(HandlerAt), Envelope(r, errorResult(err)))
              ELSE BodyIn(AsJson(HeadIn(AsJson(w), Mode(HandlerAt), httpStatusOf(Info(err)))),
                          Mode(HandlerAt), Envelope(r, errorResult(err)))
<1> DEFINE v == AsJson(w)
           code == httpStatusOf(Info(err))
           y == WriteHeader(v, Wrapped(HandlerAt), code)
<1>1. Error(r, w, err) = IF site.style = "errno" THEN WriteJson(r, w, errorResult(err))
                         ELSE WriteJson(r, y, errorResult(err))
  BY Zenon DEF Error, AsJson
<1>2. y = HeadIn(v, Mode(HandlerAt), code)
  BY ModeHead, Zenon
<1> HIDE DEF y, v, code
<1>3. /\ WriteJson(r, w, errorResult(err))
           = BodyIn(AsJson(w), Mode(HandlerAt), Envelope(r, errorResult(err)))
      /\ WriteJson(r, y, errorResult(err))
           = BodyIn(AsJson(y), Mode(HandlerAt), Envelope(r, errorResult(err)))
  BY WriteJsonIs, Zenon
<1>4. Error(r, w, err) = IF site.style = "errno"
                         THEN BodyIn(AsJson(w), Mode(HandlerAt), Envelope(r, errorResult(err)))
                         ELSE BodyIn(AsJson(y), Mode(HandlerAt), Envelope(r, errorResult(err)))
  BY <1>1, <1>3, Zenon
<1> QED
  BY <1>2, <1>4, Zenon DEF v, code

LEMMA ErrorGood ==
    ASSUME NEW r \in Requests, NEW w, NEW err, Sayable(err), WriterOK(w),
           ModeFits(site, Mode(HandlerAt))
    PROVE  /\ GoodAnswer(site, w, Error(r, w, err))
           /\ site.style # "errno" => Error(r, w, err).statusCode = httpStatusOf(Info(err))
<1> DEFINE mode == Mode(HandlerAt)
           code == httpStatusOf(Info(err))
           b == Envelope(r, errorResult(err))
           v == AsJson(w)
           y == HeadIn(v, mode, code)
           z == AsJson(y)
           u == Error(r, w, err)
<1>1. b \in Pieces /\ code \in Codes
  BY SayablePiece, Zenon DEF Sayable
<1>2. w \in Writers /\ mode \in Modes
  BY WriterTyped, ModeTyped, Zenon
<1>3. Dresses(w, v)
  BY <1>2, JsonDresses
<1>4. u = IF site.style = "errno" THEN BodyIn(v, mode, b) ELSE BodyIn(z, mode, b)
  BY ErrorIs, Zenon
<1>5. CASE site.style = "errno"
  <2>1. u = BodyIn(v, mode, b)
    BY <1>4, <1>5, Zenon
  <2> HIDE DEF u, v, mode, b
  <2>2. AnswersWith(site, w, b, BodyIn(v, mode, b))
    BY <1>1, <1>3, GoodBody DEF mode
  <2> QED
    BY <1>5, <2>1, <2>2, Zenon DEF AnswersWith, u
<1>6. CASE site.style # "errno"
  <2>1. u = BodyIn(z, mode, b)
    BY <1>4, <1>6, Zenon
  <2>2. v \in Writers
    BY <1>3, Zenon DEF Dresses
  <2> HIDE DEF u, v, b, code
  <2>3. y \in Writers
    <3>1. HeadDone(v, mode, code, y)
      BY <1>1, <1>2, <2>2, HeadResult
    <3> QED
      BY <3>1, Zenon DEF HeadDone, HeadWritten
  <2>4. y = HeadIn(v, mode, code)
    OBVIOUS
  <2> HIDE DEF y
  <2>5. Dresses(y, z)
    BY <2>3, JsonDresses
  <2> HIDE DEF z
  <2>6. FullyGood(site, w, code, u)
    BY <1>1, <1>3, <2>1, <2>4, <2>5, GoodError
  <2> QED
    BY <1>6, <2>6, Zenon DEF FullyGood, u, code
<1> QED
  BY <1>5, <1>6

\* The handler ends with an answer to an error.
LEMMA ErrorStep ==
    ASSUME IInv, NEW r \in DOMAIN req, NEW op \in Answering \cup {"wait", "parse"},
           Handling(r, op), NEW err, Sayable(err), NEW q1,
           ErrorsShow /\ site.style = "status" => httpStatusOf(Info(err)) # 200,
           SameBut(Begun(r), q1, {"lines", "w"}), q1.w = Error(r, req[r].w, err),
           Acts(r, LastCall(r, q1))
    PROVE  IInv'
<1> DEFINE q == req[r]
           q0 == Begun(r)
           u == Error(r, q.w, err)
           n == Len(site.in[r].script)
<1>1. /\ WriterOK(q.w) /\ ModeFits(site, Mode(HandlerAt)) /\ r \in Requests
      /\ n \in Nat
  BY AtCall, Context
<1>2. /\ GoodAnswer(site, q.w, u)
      /\ site.style # "errno" => u.statusCode = httpStatusOf(Info(err))
  BY <1>1, ErrorGood
<1>3. SameBut(q, q0, {"logger"})
  BY BegunWriter
<1>4. q1.w = u /\ SameBut(q0, q1, {"lines", "w"}) /\ Acts(r, LastCall(r, q1))
  OBVIOUS
<1>5. ErrorsShow /\ site.style = "status" => u.statusCode # 200
  BY <1>2
<1> HIDE DEF q, q0, u
<1>6. SameBut(q, q1, {"logger", "lines", "w"})
  BY <1>3, <1>4 DEF SameBut
<1>7. Replies(q, LastCall(r, q1), u) /\ LastCall(r, q1).ip = n + 1
  BY <1>1, <1>4, <1>6, ReplyLast
<1> QED
  BY <1>2, <1>4, <1>5, <1>7, AnswerStep DEF q

(***************************************************************************)
(* The first position of a sequence that passes a test                     *)
(***************************************************************************)
LEMMA LeastElement ==
    ASSUME NEW T \in SUBSET Nat, T # {}
    PROVE  \E x \in T : \A y \in T : x <= y
<1> DEFINE R == {ss \in Nat \X Nat : ss[1] < ss[2]}
<1>1. IsWellFoundedOn(R, Nat)
  BY NatLessThanWellFounded DEF OpToRel
<1>2. PICK x \in T : \A y \in T : ~(<<y, x>> \in R)
  BY <1>1, WFMin
<1>3. \A y \in T : ~(y < x)
  BY <1>2
<1> QED
  BY <1>3

LEMMA MinIsLeast ==
    ASSUME NEW T \in SUBSET Nat, T # {}
    PROVE  Min(T) \in T /\ \A y \in T : Min(T) <= y
BY LeastElement DEF Min

(***************************************************************************)
(* Errors                                                                  *)
(***************************************************************************)
Infos == {"simple", "data"} \X Int
NoInfos == {<<"wrap">>, <<"plain">>}
Layers == NoInfos \cup Infos \cup ({"status"} \X FinalStatuses)

LEMMA AsFinds ==
    ASSUME NEW err \in Seq(Layers), NEW kinds
    PROVE  \/ As(err, kinds) = <<>> /\ \A i \in 1..Len(err) : err[i][1] \notin kinds
           \/ \E i \in 1..Len(err) : err[i][1] \in kinds /\ As(err, kinds) = SubSeq(err, i, Len(err))
<1> DEFINE T == {i \in 1..Len(err) : err[i][1] \in kinds}
           k == SelectInSeq(err, LAMBDA layer : layer[1] \in kinds)
<1>1. k = IF T # {} THEN Min(T) ELSE 0
  BY DEF SelectInSeq
<1>2. As(err, kinds) = IF k = 0 THEN <<>> ELSE SubSeq(err, k, Len(err))
  BY DEF As
<1>3. T \in SUBSET Nat
  OBVIOUS
<1> HIDE DEF k
<1>4. CASE T = {}
  BY <1>1, <1>2, <1>4
<1>5. CASE T # {}
  <2>1. Min(T) \in T
    BY <1>3, <1>5, MinIsLeast
  <2>2. k \in T
    BY <1>1, <1>5, <2>1
  <2> QED
    BY <1>2, <2>2
<1> QED
  BY <1>4, <1>5

LEMMA SuffixOf ==
    ASSUME NEW err \in Seq(Layers), NEW i \in 1..Len(err)
    PROVE  /\ SubSeq(err, i, Len(err)) \in Seq(Layers)
           /\ SubSeq(err, i, Len(err)) # <<>>
           /\ Last(SubSeq(err, i, Len(err))) = Last(err)
           /\ Head(SubSeq(err, i, Len(err))) = err[i]
<1> DEFINE x == SubSeq(err, i, Len(err))
<1>1. x \in Seq(Layers) /\ Len(x) = Len(err) - i + 1
  OBVIOUS
<1>2. \A j \in 1..Len(x) : x[j] = err[i + j - 1]
  OBVIOUS
<1>3. i + Len(x) - 1 = Len(err) /\ Len(x) \in 1..Len(x) /\ 1 \in 1..Len(x) /\ i + 1 - 1 = i
  BY <1>1
<1> HIDE DEF x
<1>4. x[Len(x)] = err[Len(err)] /\ x[1] = err[i] /\ x # <<>>
  <2>1. x[Len(x)] = err[i + Len(x) - 1]
    BY <1>2, <1>3
  <2>2. x[1] = err[i + 1 - 1]
    BY <1>2, <1>3
  <2>3. x # <<>>
    BY <1>1
  <2> QED
    BY <1>3, <2>1, <2>2, <2>3, Zenon
<1>5. Last(x) = Last(err) /\ Head(x) = err[i]
  BY <1>1, <1>4 DEF Last
<1> QED
  BY <1>1, <1>4, <1>5 DEF x

LEMMA StatusLayer ==
    ASSUME NEW layer \in Layers, layer[1] = "status"
    PROVE  layer[2] \in Codes
<1>1. CASE layer \in NoInfos
  BY <1>1 DEF NoInfos
<1>2. CASE layer \in Infos
  BY <1>2 DEF Infos
<1>3. CASE layer \in {"status"} \X FinalStatuses
  BY <1>3 DEF Codes, FinalStatuses
<1> QED
  BY <1>1, <1>2, <1>3 DEF Layers

LEMMA StatusOf ==
    ASSUME NEW info \in Seq(Layers)
    PROVE  httpStatusOf(info) \in Codes
<1> DEFINE carrier == As(info, {"status"})
<1>1. httpStatusOf(info) = IF carrier # <<>> THEN Head(carrier)[2]
                           ELSE IF Code(info) = -2 THEN 400 ELSE 500
  BY DEF httpStatusOf
<1>2. 400 \in Codes /\ 500 \in Codes
  BY DEF Codes
<1>3. carrier # <<>> => Head(carrier)[2] \in Codes
  <2> SUFFICES ASSUME carrier # <<>> PROVE Head(carrier)[2] \in Codes
    OBVIOUS
  <2>1. PICK i \in 1..Len(info) : info[i][1] = "status" /\ carrier = SubSeq(info, i, Len(info))
    BY AsFinds
  <2>2. Head(carrier) = info[i]
    BY <2>1, SuffixOf
  <2>3. info[i] \in Layers
    OBVIOUS
  <2> HIDE DEF carrier
  <2> QED
    BY <2>1, <2>2, <2>3, StatusLayer
<1> HIDE DEF carrier
<1> QED
  BY <1>1, <1>2, <1>3

LEMMA ServerInternal ==
    ErrServerInternal \in Seq(Layers) /\ Code(ErrServerInternal) = -1
<1>1. <<"simple", -1>> \in Layers
  BY DEF Layers, Infos
<1>2. <<<<"simple", -1>>>> \in Seq(Layers)
  BY <1>1
<1> QED
  BY <1>2 DEF ErrServerInternal, Code, Last

LEMMA InfoOf ==
    ASSUME NEW err, IsError(err)
    PROVE  Info(err) \in Seq(Layers) /\ Code(Info(err)) \in Int
<1> DEFINE kinds == {"simple", "data", "status"}
           info == As(err, kinds)
<1>1. err \in Seq(Layers) /\ err # <<>> /\ (Last(err) \in Infos \/ Range(err) \subseteq NoInfos)
  BY DEF IsError, Layers, Infos, NoInfos
<1>2. Info(err) = IF info = <<>> THEN ErrServerInternal ELSE info
  BY DEF Info
<1>3. CASE info = <<>>
  BY <1>2, <1>3, ServerInternal
<1>4. CASE info # <<>>
  <2>1. PICK i \in 1..Len(err) : err[i][1] \in kinds /\ info = SubSeq(err, i, Len(err))
    BY <1>1, <1>4, AsFinds
  <2>2. info \in Seq(Layers) /\ Last(info) = Last(err)
    BY <1>1, <2>1, SuffixOf
  <2>3. err[i] \in Range(err) /\ err[i] \notin NoInfos
    BY <1>1, <2>1 DEF NoInfos, Range
  <2>4. Last(err) \in Infos
    BY <1>1, <2>3
  <2> HIDE DEF info
  <2>5. Code(info) \in Int
    BY <2>2, <2>4 DEF Code, Infos
  <2> QED
    BY <1>2, <1>4, <2>2, <2>5
<1> QED
  BY <1>3, <1>4

LEMMA ErrorsSayable ==
    ASSUME NEW err, IsError(err)
    PROVE  Sayable(err)
<1>1. Info(err) \in Seq(Layers) /\ Code(Info(err)) \in Int
  BY InfoOf
<1>2. httpStatusOf(Info(err)) \in Codes
  BY <1>1, StatusOf
<1>3. HasData(Info(err)) \in BOOLEAN
  BY DEF HasData
<1> QED
  BY <1>1, <1>2, <1>3 DEF Sayable, errorResult

\* The errors that kate makes itself.
LEMMA OwnErrors ==
    /\ IsError(ErrBadParam) /\ httpStatusOf(Info(ErrBadParam)) # 200
    /\ IsError(ErrServerInternal) /\ httpStatusOf(Info(ErrServerInternal)) # 200
    /\ IsError(<<<<"plain">>>>) /\ httpStatusOf(Info(<<<<"plain">>>>)) # 200
<1> DEFINE kinds == {"simple", "data", "status"}
<1>1. <<"simple", -2>> \in Infos /\ <<"plain">> \in NoInfos /\ <<"simple", -1>> \in Infos
  BY DEF Infos, NoInfos
<1>2. /\ <<<<"simple", -2>>>> \in Seq(Layers) /\ <<<<"plain">>>> \in Seq(Layers)
      /\ <<<<"simple", -1>>>> \in Seq(Layers)
  BY <1>1 DEF Layers
<1>3. IsError(ErrBadParam)
  <2>1. ErrBadParam = <<<<"simple", -2>>>> /\ ErrBadParam # <<>>
    BY DEF ErrBadParam
  <2>2. Last(ErrBadParam) \in Infos
    BY <1>1 DEF ErrBadParam, Last
  <2> QED
    BY <1>2, <2>1, <2>2 DEF IsError, Layers, Infos, NoInfos
<1>4. IsError(<<<<"plain">>>>)
  <2>1. <<<<"plain">>>> # <<>>
    OBVIOUS
  <2>2. Range(<<<<"plain">>>>) \subseteq NoInfos
    BY <1>1 DEF Range
  <2> QED
    BY <1>2, <2>1, <2>2 DEF IsError, Layers, Infos, NoInfos
<1>5. ASSUME NEW n \in {-1, -2}
      PROVE  httpStatusOf(<<<<"simple", n>>>>) # 200
  <2> DEFINE info == <<<<"simple", n>>>>
  <2>1. info \in Seq(Layers)
    BY <1>2
  <2>2. As(info, {"status"}) = <<>>
    BY <2>1, AsFinds
  <2> QED
    BY <2>2 DEF httpStatusOf
<1>6. ASSUME NEW n \in {-1, -2}
      PROVE  Info(<<<<"simple", n>>>>) = <<<<"simple", n>>>>
  <2> DEFINE err == <<<<"simple", n>>>>
  <2>1. \A i \in 1..Len(err) : i = 1
    OBVIOUS
  <2>2. As(err, kinds) = SubSeq(err, 1, Len(err))
    BY <1>2, <2>1, AsFinds
  <2>3. As(err, kinds) = err
    BY <2>2
  <2> QED
    BY <2>3 DEF Info
<1>7. Info(<<<<"plain">>>>) = <<<<"simple", -1>>>>
  <2>1. As(<<<<"plain">>>>, kinds) = <<>>
    BY <1>2, AsFinds
  <2> QED
    BY <2>1 DEF Info, ErrServerInternal
<1>8. IsError(ErrServerInternal)
  <2>1. ErrServerInternal = <<<<"simple", -1>>>> /\ ErrServerInternal # <<>>
    BY DEF ErrServerInternal
  <2>2. Last(ErrServerInternal) \in Infos
    BY <1>1 DEF ErrServerInternal, Last
  <2> QED
    BY <1>2, <2>1, <2>2 DEF IsError, Layers, Infos, NoInfos
<1>9. /\ httpStatusOf(Info(ErrBadParam)) # 200
      /\ httpStatusOf(Info(ErrServerInternal)) # 200
  BY <1>5, <1>6 DEF ErrBadParam, ErrServerInternal
<1> QED
  BY <1>3, <1>4, <1>5, <1>7, <1>8, <1>9

(***************************************************************************)
(* The steps that end a handler                                            *)
(***************************************************************************)
\* What Error leaves of a request, before the handler ends.
LEMMA ErrorFields ==
    ASSUME IInv, NEW r \in DOMAIN req, NEW err
    PROVE  LET q1 == [Begun(r) EXCEPT !.w = Error(r, @, err)] IN
           SameBut(Begun(r), q1, {"w"}) /\ q1.w = Error(r, req[r].w, err)
<1> DEFINE u == Error(r, req[r].w, err)
<1>1. Begun(r).w = req[r].w /\ DOMAIN Begun(r) = Keys
  BY BegunWriter
<1> HIDE DEF u
<1>2. SameBut(Begun(r), [Begun(r) EXCEPT !.w = u], {"w"}) /\ [Begun(r) EXCEPT !.w = u].w = u
  BY <1>1, WriterField
<1> QED
  BY <1>1, <1>2, Zenon DEF u

LEMMA FailsStep ==
    ASSUME IInv, NEW r \in DOMAIN req, Fails(r)
    PROVE  IInv'
<1> DEFINE err == Call(r).arg
           q1 == [Begun(r) EXCEPT !.w = Error(r, @, err)]
<1>1. Handling(r, "error") /\ Acts(r, LastCall(r, q1))
  BY DEF Fails
<1>2. /\ Call(r) \in Range(site.in[r].script) /\ Call(r).op = "error"
      /\ site \in Scenarios /\ r \in DOMAIN site.in /\ RequestOK(site.in[r])
  BY <1>1, AtCall, Context
<1>3. IsError(err)
  BY <1>2 DEF RequestOK
<1>4. ErrorsShow => httpStatusOf(Info(err)) # 200
  BY <1>2 DEF ErrorsShow
<1>5. SameBut(Begun(r), q1, {"w"}) /\ q1.w = Error(r, req[r].w, err)
  BY ErrorFields
<1> HIDE DEF q1, err
<1>6. Sayable(err) /\ SameBut(Begun(r), q1, {"lines", "w"})
  BY <1>3, <1>5, ErrorsSayable DEF SameBut
<1>7. "error" \in Answering \cup {"wait", "parse"}
  BY DEF Answering
<1> QED
  BY <1>1, <1>4, <1>5, <1>6, <1>7, ErrorStep

LEMMA GivesUpStep ==
    ASSUME IInv, NEW r \in DOMAIN req, GivesUp(r)
    PROVE  IInv'
<1> DEFINE err == <<<<"plain">>>>
           q1 == [Begun(r) EXCEPT !.w = Error(r, @, err)]
<1>1. Handling(r, "wait") /\ Acts(r, LastCall(r, q1))
  BY DEF GivesUp
<1>2. IsError(err) /\ httpStatusOf(Info(err)) # 200
  BY OwnErrors
<1>3. SameBut(Begun(r), q1, {"w"}) /\ q1.w = Error(r, req[r].w, err)
  BY ErrorFields
<1> HIDE DEF q1, err
<1>4. Sayable(err) /\ SameBut(Begun(r), q1, {"lines", "w"})
  BY <1>2, <1>3, ErrorsSayable DEF SameBut
<1>5. "wait" \in Answering \cup {"wait", "parse"}
  OBVIOUS
<1> QED
  BY <1>1, <1>2, <1>3, <1>4, <1>5, ErrorStep

LEMMA ParsesStep ==
    ASSUME IInv, NEW r \in DOMAIN req, Parses(r)
    PROVE  IInv'
<1> DEFINE parsed == ParseRequest(ParamsOf(r))
           q == req[r]
           q0 == Begun(r)
           qp == [q0 EXCEPT !.parsed = parsed]
           err == ParseError(parsed)
           qe == [q0 EXCEPT !.w = Error(r, @, err)]
           ql == Logs(qe, q0.logger, <<>>)
<1>1. Handling(r, "parse")
  BY DEF Parses
<1>2. Acts(r, NextCall(qp)) \/ Acts(r, LastCall(r, ql))
  BY Zenon DEF Parses
<1>3. parsed = ParseRequest(ParamsAt(site, r))
  BY DEF ParamsOf, ParamsAt, In
<1> HIDE DEF parsed
<1>4. CASE Acts(r, NextCall(qp))
  <2>1. SameBut(q, q0, {"logger"}) /\ q0.w = q.w /\ Dresses(q.w, q.w) /\ DOMAIN q0 = Keys
    BY BegunWriter
  <2> HIDE DEF q, q0
  <2>2. SameBut(q0, qp, {"parsed"}) /\ qp.parsed = parsed
    BY <2>1 DEF SameBut, Keys
  <2>3. Acts(r, NextCall(qp))
    BY <1>4
  <2> HIDE DEF qp
  <2>4. SameBut(q, qp, {"logger", "lines", "parsed", "w"}) /\ qp.w = q.w
    BY <2>1, <2>2 DEF SameBut, Keys
  <2>5. Calling(q, NextCall(qp)) /\ NextCall(qp).parsed = qp.parsed
    BY <2>1, <2>4, QuietNext
  <2>6. NextCall(qp).parsed \in {Failed, ParseRequest(ParamsAt(site, r))}
    BY <1>3, <2>2, <2>5
  <2> QED
    BY <1>1, <2>3, <2>5, <2>6, QuietStep DEF q
<1>5. CASE Acts(r, LastCall(r, ql))
  <2>1. IsError(err) /\ httpStatusOf(Info(err)) # 200
    BY OwnErrors, Zenon DEF ParseError
  <2>2. SameBut(q0, qe, {"w"}) /\ qe.w = Error(r, req[r].w, err)
    BY ErrorFields
  <2> HIDE DEF q0, qe, err
  <2>3. SameBut(qe, ql, {"lines"})
    BY <2>2, LinesField DEF SameBut
  <2>4. Acts(r, LastCall(r, ql))
    BY <1>5
  <2> HIDE DEF ql
  <2>5. SameBut(q0, ql, {"lines", "w"}) /\ ql.w = Error(r, req[r].w, err)
    BY <2>2, <2>3 DEF SameBut, Keys
  <2>6. Sayable(err)
    BY <2>1, ErrorsSayable
  <2>7. "parse" \in Answering \cup {"wait", "parse"}
    OBVIOUS
  <2> QED
    BY <1>1, <2>1, <2>4, <2>5, <2>6, <2>7, ErrorStep DEF q0
<1> QED
  BY <1>2, <1>4, <1>5

\* The handler ends, with a panic or not.
LEMMA LeaveStep ==
    ASSUME IInv, NEW r \in DOMAIN req, NEW q2, req[r].pc = "down", req[r].at = End(site),
           DOMAIN q2 = Keys, q2.w = req[r].w, q2.parsed = req[r].parsed,
           q2.logged = req[r].logged, q2.hit = req[r].hit, q2.ip \in Nat \ {0},
           q2.pc = "up", q2.at = req[r].at - 1, q2.handled, q2.handled \in BOOLEAN,
           q2.panicking \in BOOLEAN, q2.panicked \in BOOLEAN,
           q2.panicked <=> q2.panicking, Acts(r, q2)
    PROVE  IInv'
<1>1. /\ site \in Scenarios /\ r \in DOMAIN site.in /\ Sound(site, r, req[r])
      /\ site.chain \in Seq(Middlewares)
  BY Context
<1>2. Sound(site, r, q2)
  BY <1>1, LeaveHandler
<1>3. Evolves(req[r], q2) /\ Goes(r, q2) /\ UNCHANGED cache
  BY DEF Evolves, Answered, Acts
<1> QED
  BY <1>2, <1>3, Stepped

LEMMA PanicsStep ==
    ASSUME IInv, NEW r \in DOMAIN req, Panics(r)
    PROVE  IInv'
<1> DEFINE q == req[r]
           q0 == Begun(r)
           q1 == LastCall(r, q0)
           qa == [q1 EXCEPT !.pc = "up"]
           qb == [qa EXCEPT !.panicking = TRUE]
           qc == [qb EXCEPT !.panicked = TRUE]
           q2 == Higher(qc)
<1>1. Handling(r, "panic") /\ Acts(r, q2)
  BY DEF Panics
<1>2. q.pc = "down" /\ q.at = End(site)
  BY <1>1, AtCall
<1>3. SameBut(q, q0, {"logger"})
  BY BegunWriter
<1>4. Len(site.in[r].script) \in Nat
  BY <1>1, AtCall
<1> HIDE DEF q, q0
<1>5. /\ SameBut(q0, q1, {"ip", "handled"}) /\ q1.ip = Len(site.in[r].script) + 1
      /\ q1.handled /\ q1.handled \in BOOLEAN
  BY <1>3, LastCallFields DEF SameBut, LastCall, Keys
<1> HIDE DEF q1
<1>6. SameBut(q1, qa, {"pc"}) /\ qa.pc = "up"
  BY <1>5 DEF SameBut, Keys
<1> HIDE DEF qa
<1>7. SameBut(qa, qb, {"panicking"}) /\ qb.panicking /\ qb.panicking \in BOOLEAN
  BY <1>6 DEF SameBut, Keys
<1> HIDE DEF qb
<1>8. SameBut(qb, qc, {"panicked"}) /\ qc.panicked /\ qc.panicked \in BOOLEAN
  BY <1>7 DEF SameBut, Keys
<1> HIDE DEF qc
<1>9. SameBut(qc, q2, {"at"}) /\ q2.at = qc.at - 1
  BY <1>8, HigherFields DEF SameBut
<1> HIDE DEF q2
<1>10. /\ DOMAIN q2 = Keys /\ q2.w = q.w /\ q2.parsed = q.parsed
       /\ q2.logged = q.logged /\ q2.hit = q.hit
       /\ q2.pc = "up" /\ q2.at = q.at - 1
  BY <1>3, <1>5, <1>6, <1>7, <1>8, <1>9 DEF SameBut, Keys
<1>11. /\ q2.ip \in Nat \ {0} /\ q2.handled /\ q2.handled \in BOOLEAN
       /\ q2.panicking /\ q2.panicking \in BOOLEAN
       /\ q2.panicked /\ q2.panicked \in BOOLEAN
  <2>1. q2.ip = q1.ip
    BY <1>6, <1>7, <1>8, <1>9 DEF SameBut, Keys
  <2>2. q2.handled = q1.handled
    <3>1. qa.handled = q1.handled
      BY <1>6, Zenon DEF SameBut, Keys
    <3>2. qb.handled = qa.handled
      BY <1>7, Zenon DEF SameBut, Keys
    <3>3. qc.handled = qb.handled
      BY <1>8, Zenon DEF SameBut, Keys
    <3>4. q2.handled = qc.handled
      BY <1>9, Zenon DEF SameBut, Keys
    <3> QED
      BY <3>1, <3>2, <3>3, <3>4, Zenon
  <2>3. q2.panicking = qb.panicking
    BY <1>8, <1>9, Zenon DEF SameBut, Keys
  <2>4. q2.panicked = qc.panicked
    BY <1>9, Zenon DEF SameBut, Keys
  <2>5. q2.ip \in Nat \ {0}
    BY <1>4, <1>5, <2>1
  <2> QED
    BY <1>5, <1>7, <1>8, <2>2, <2>3, <2>4, <2>5, Zenon
<1> QED
  BY <1>1, <1>2, <1>10, <1>11, LeaveStep DEF q

LEMMA HandlerReturnsStep ==
    ASSUME IInv, NEW r \in DOMAIN req, HandlerReturns(r)
    PROVE  IInv'
<1> DEFINE q == req[r]
           qa == [q EXCEPT !.pc = "up"]
           qb == [qa EXCEPT !.handled = TRUE]
           q2 == Higher(qb)
<1>1. q.pc = "down" /\ q.at = End(site) /\ Acts(r, q2)
  BY Context DEF HandlerReturns
<1>2. DOMAIN q = Keys /\ Sound(site, r, q)
  BY Context
<1> HIDE DEF q
<1>3. SameBut(q, qa, {"pc"}) /\ qa.pc = "up"
  BY <1>2 DEF SameBut, Keys
<1> HIDE DEF qa
<1>4. SameBut(qa, qb, {"handled"}) /\ qb.handled /\ qb.handled \in BOOLEAN
  BY <1>3 DEF SameBut, Keys
<1> HIDE DEF qb
<1>5. SameBut(qb, q2, {"at"}) /\ q2.at = qb.at - 1
  BY <1>4, HigherFields DEF SameBut
<1> HIDE DEF q2
<1>6. /\ DOMAIN q2 = Keys /\ q2.w = q.w /\ q2.parsed = q.parsed
      /\ q2.logged = q.logged /\ q2.hit = q.hit /\ q2.ip = q.ip
      /\ q2.pc = "up" /\ q2.at = q.at - 1
      /\ q2.panicking = q.panicking /\ q2.panicked = q.panicked
  BY <1>3, <1>4, <1>5 DEF SameBut, Keys
<1>7. q2.handled /\ q2.handled \in BOOLEAN
  BY <1>4, <1>5 DEF SameBut, Keys
<1>8. /\ q.ip \in Nat \ {0} /\ q.panicking \in BOOLEAN /\ q.panicked \in BOOLEAN
      /\ ~q.panicked /\ ~q.panicking
  BY <1>1, <1>2 DEF Sound, Control, Panicking
<1>9. /\ q2.ip \in Nat \ {0} /\ q2.panicking \in BOOLEAN /\ q2.panicked \in BOOLEAN
      /\ ~q2.panicking /\ ~q2.panicked
  BY <1>6, <1>8
<1> QED
  BY <1>1, <1>6, <1>7, <1>9, LeaveStep DEF q

(***************************************************************************)
(* Recovery                                                                *)
(***************************************************************************)
LEMMA LastAppended ==
    ASSUME NEW b \in Bodies, NEW c \in Chunks
    PROVE  b \o <<c>> # <<>> /\ Last(b \o <<c>>) = c
<1> DEFINE x == b \o <<c>>
<1>1. Len(x) = Len(b) + 1 /\ Len(b) \in Nat
  BY DEF Bodies
<1>2. x[Len(b) + 1] = c
  BY DEF Bodies
<1>3. x # <<>>
  BY <1>1
<1> HIDE DEF x
<1> QED
  BY <1>1, <1>2, <1>3 DEF x, Last

\* The writer after Recovery has answered the panic of request r.
PanicSaid(r, u) ==
    /\ u \in Writers
    /\ u.wroteHeader /\ u.status # 0 /\ u.statusCode = 500 /\ Len(u.rawBody) <= 1
    /\ u.body # <<>> /\ Last(u.body) = Text(r)

LEMMA RecoveryAnswer ==
    ASSUME NEW r \in Requests, NEW w \in Writers, NEW mode \in Modes
    PROVE  PanicSaid(r, FullAnswer(w, mode, 500, <<Text(r)>>))
<1> DEFINE c == Text(r)
           b == <<c>>
           u == FullAnswer(w, mode, 500, b)
<1>1. c \in Chunks /\ b \in Bodies
  BY TextIsChunk
<1>2. Len(b) <= 1
  OBVIOUS
<1>3. 500 \in Codes
  BY DEF Codes
<1> HIDE DEF c
<1>4. w.body \in Bodies
  BY DEF Writers
<1>5. w.body \o b # <<>> /\ Last(w.body \o b) = c
  BY <1>1, <1>4, LastAppended
<1> HIDE DEF b
<1>6. FullyAnswered(w, mode, 500, b, u)
  BY <1>1, <1>3, FullResult
<1> HIDE DEF u
<1>7. PanicSaid(r, u)
  BY <1>2, <1>5, <1>6 DEF FullyAnswered, PanicSaid, c
<1> QED
  BY <1>7 DEF u, b, c

LEMMA RecoversStep ==
    ASSUME IInv, NEW r \in DOMAIN req, Recovers(r)
    PROVE  IInv'
<1> DEFINE q == req[r]
           u == FullAnswer(q.w, Mode(q.at), 500, <<Text(r)>>)
           qa == [q EXCEPT !.panicking = FALSE]
           qb == [qa EXCEPT !.w = u]
           ql == Logs(qb, Logger(r, q.at), <<>>)
           q2 == Higher(ql)
<1>1. /\ DOMAIN q = Keys /\ Sound(site, r, q) /\ q.w \in Writers /\ r \in Requests
      /\ site \in Scenarios /\ r \in DOMAIN site.in /\ site.chain \in Seq(Middlewares)
  BY Context
<1>2. q.pc = "up" /\ q.at # 0 /\ q.panicking
  BY DEF Recovers, Up
<1>3. Acts(r, q2)
  <2>1. Write(WriteHeader(q.w, Wrapped(q.at), 500), Wrapped(q.at), <<Text(r)>>) = u
    <3> DEFINE b == <<Text(r)>>
               i == q.at
               w == q.w
    <3> HIDE DEF b, i, w
    <3>1. Write(WriteHeader(w, Wrapped(i), 500), Wrapped(i), b) = FullAnswer(w, Mode(i), 500, b)
      BY ModeFull
    <3> QED
      BY <3>1, Zenon DEF b, i, w
  <2>2. [q EXCEPT !.panicking = FALSE,
                  !.w = Write(WriteHeader(@, Wrapped(q.at), 500), Wrapped(q.at), <<Text(r)>>)]
           = [q EXCEPT !.panicking = FALSE, !.w = u]
    BY <2>1, Zenon
  <2> HIDE DEF u
  <2>3. [q EXCEPT !.panicking = FALSE, !.w = u] = qb
    BY Zenon
  <2> QED
    BY <2>2, <2>3, Zenon DEF Recovers
<1>4. PanicSaid(r, u)
  BY <1>1, ModeOK, RecoveryAnswer
<1> HIDE DEF q, u
<1>5. SameBut(q, qa, {"panicking"}) /\ ~qa.panicking /\ qa.panicking \in BOOLEAN
  BY <1>1 DEF SameBut, Keys
<1> HIDE DEF qa
<1>6. SameBut(qa, qb, {"w"}) /\ qb.w = u
  BY <1>5, WriterField DEF SameBut
<1> HIDE DEF qb
<1>7. SameBut(qb, ql, {"lines"})
  BY <1>6, LinesField DEF SameBut
<1> HIDE DEF ql
<1>8. SameBut(ql, q2, {"at"}) /\ q2.at = ql.at - 1
  BY <1>7, HigherFields DEF SameBut
<1> HIDE DEF q2
<1>9. /\ Keeps(q, q2, u) /\ q2.pc = q.pc /\ q2.at = q.at - 1 /\ q2.handled = q.handled
      /\ q2.hit = q.hit
  BY <1>5, <1>6, <1>7, <1>8 DEF SameBut, Keys, Keeps
<1>10. ~q2.panicking /\ q2.panicking \in BOOLEAN
  <2>1. q2.panicking = ql.panicking
    BY <1>8, Zenon DEF SameBut, Keys
  <2>2. ql.panicking = qb.panicking
    BY <1>7, Zenon DEF SameBut, Keys
  <2>3. qb.panicking = qa.panicking
    BY <1>6, Zenon DEF SameBut, Keys
  <2> QED
    BY <1>5, <2>1, <2>2, <2>3, Zenon
<1>11. Sound(site, r, q2)
  BY <1>1, <1>2, <1>4, <1>9, <1>10, RecoverPanic DEF PanicSaid
<1>12. Evolves(q, q2)
  BY <1>1, <1>2 DEF Evolves, Answered, Sound, Panicking
<1> QED
  BY <1>3, <1>9, <1>11, <1>12, Stepped DEF q, Acts

(***************************************************************************)
(* The cache                                                               *)
(***************************************************************************)
LEMMA Joined ==
    ASSUME NEW S, NEW a \in Seq(S), NEW b \in Seq(S)
    PROVE  /\ a \o b \in Seq(S) /\ Len(a \o b) = Len(a) + Len(b)
           /\ \A j \in 1..Len(a \o b) : (a \o b)[j] = IF j <= Len(a) THEN a[j] ELSE b[j - Len(a)]
OBVIOUS

LEMMA RemovedAt ==
    ASSUME NEW S, NEW c \in Seq(S), NEW i \in 1..Len(c)
    PROVE  /\ RemoveAt(c, i) \in Seq(S)
           /\ Len(RemoveAt(c, i)) = Len(c) - 1
           /\ \A j \in 1..Len(RemoveAt(c, i)) : \E k \in 1..Len(c) : RemoveAt(c, i)[j] = c[k]
<1> DEFINE a == SubSeq(c, 1, i - 1)
           b == SubSeq(c, i + 1, Len(c))
           x == RemoveAt(c, i)
<1>1. /\ a \in Seq(S) /\ Len(a) = i - 1 /\ \A j \in 1..Len(a) : a[j] = c[j]
      /\ Len(c) \in Nat /\ i \in 1..Len(c)
  OBVIOUS
<1>2. /\ b \in Seq(S) /\ Len(b) = Len(c) - i /\ \A j \in 1..Len(b) : b[j] = c[i + j]
  OBVIOUS
<1>3. x = a \o b
  BY DEF RemoveAt
<1> HIDE DEF a, b, x
<1>4. /\ x \in Seq(S) /\ Len(x) = Len(a) + Len(b)
      /\ \A j \in 1..Len(x) : x[j] = IF j <= Len(a) THEN a[j] ELSE b[j - Len(a)]
  <2>1. a \in Seq(S) /\ b \in Seq(S)
    BY <1>1, <1>2
  <2> QED
    BY <1>3, <2>1, Joined
<1>5. Len(x) = Len(c) - 1
  BY <1>1, <1>2, <1>4
<1>6. ASSUME NEW j \in 1..Len(x)
      PROVE  \E k \in 1..Len(c) : x[j] = c[k]
  <2>1. CASE j <= Len(a)
    <3>1. x[j] = c[j] /\ j \in 1..Len(c)
      BY <1>1, <1>4, <1>5, <2>1
    <3> QED
      BY <3>1
  <2>2. CASE j > Len(a)
    <3>1. j - Len(a) \in 1..Len(b)
      BY <1>1, <1>2, <1>5, <2>2
    <3>2. x[j] = b[j - Len(a)]
      BY <1>1, <1>4, <2>2
    <3>3. x[j] = c[i + (j - Len(a))] /\ i + (j - Len(a)) \in 1..Len(c)
      BY <1>1, <1>2, <3>1, <3>2
    <3> QED
      BY <3>3
  <2> QED
    BY <1>1, <2>1, <2>2
<1> QED
  BY <1>4, <1>5, <1>6 DEF x

LEMMA CacheTyped ==
    ASSUME NEW s, NEW rq, NEW c, CacheOK(s, rq, c)
    PROVE  c \in Seq(Entries) /\ Len(c) \in Nat /\ Len(c) <= CacheSize
BY DEF CacheOK

LEMMA RemovedOK ==
    ASSUME NEW s, NEW rq, NEW c, CacheOK(s, rq, c), NEW i \in 1..Len(c)
    PROVE  /\ CacheOK(s, rq, RemoveAt(c, i))
           /\ Len(RemoveAt(c, i)) + 1 <= CacheSize
<1> DEFINE x == RemoveAt(c, i)
<1>1. c \in Seq(Entries) /\ Len(c) \in Nat /\ Len(c) <= CacheSize
  BY CacheTyped
<1>2. /\ x \in Seq(Entries) /\ Len(x) = Len(c) - 1
      /\ \A j \in 1..Len(x) : \E k \in 1..Len(c) : x[j] = c[k]
  BY <1>1, RemovedAt
<1> HIDE DEF x
<1>3. Len(x) <= CacheSize /\ Len(x) + 1 <= CacheSize
  BY <1>1, <1>2, CacheAssumption
<1>4. ASSUME NEW j \in 1..Len(x) PROVE EntryOK(s, rq, x[j])
  <2>1. PICK k \in 1..Len(c) : x[j] = c[k]
    BY <1>2
  <2>2. EntryOK(s, rq, c[k])
    BY DEF CacheOK
  <2> QED
    BY <2>1, <2>2
<1>5. CacheOK(s, rq, x)
  BY <1>2, <1>3, <1>4 DEF CacheOK
<1> QED
  BY <1>3, <1>5 DEF x

\* An entry is put at the end, and the first one may go.
LEMMA AppendedOK ==
    ASSUME NEW s, NEW rq, NEW c, CacheOK(s, rq, c), NEW e, EntryOK(s, rq, e)
    PROVE  /\ Len(c) + 1 <= CacheSize => CacheOK(s, rq, Append(c, e))
           /\ CacheOK(s, rq, Tail(Append(c, e)))
           /\ Len(Append(c, e)) = Len(c) + 1
<1> DEFINE all == Append(c, e)
           x == Tail(all)
<1>1. c \in Seq(Entries) /\ Len(c) \in Nat /\ Len(c) <= CacheSize
  BY CacheTyped
<1>2. e \in Entries
  BY DEF EntryOK
<1>3. /\ all \in Seq(Entries) /\ Len(all) = Len(c) + 1
      /\ \A j \in 1..Len(all) : all[j] = IF j <= Len(c) THEN c[j] ELSE e
  BY <1>1, <1>2
<1> HIDE DEF all
<1>4. \A j \in 1..Len(all) : EntryOK(s, rq, all[j])
  BY <1>1, <1>3 DEF CacheOK
<1>5. /\ x \in Seq(Entries) /\ Len(x) = Len(c)
      /\ \A j \in 1..Len(x) : x[j] = all[j + 1]
  BY <1>1, <1>3
<1> HIDE DEF x
<1>6. ASSUME NEW j \in 1..Len(x) PROVE EntryOK(s, rq, x[j])
  <2>1. j + 1 \in 1..Len(all) /\ x[j] = all[j + 1]
    BY <1>1, <1>3, <1>5
  <2> QED
    BY <1>4, <2>1
<1>7. CacheOK(s, rq, x)
  BY <1>1, <1>5, <1>6 DEF CacheOK
<1>8. Len(c) + 1 <= CacheSize => CacheOK(s, rq, all)
  BY <1>3, <1>4 DEF CacheOK
<1> QED
  BY <1>3, <1>7, <1>8 DEF x, all

LEMMA PositionOf ==
    ASSUME cache \in Seq(Entries), NEW key
    PROVE  \/ Position(key) = 0
           \/ Position(key) \in 1..Len(cache) /\ cache[Position(key)].key = key
<1> DEFINE T == {i \in 1..Len(cache) : cache[i].key = key}
<1>1. Position(key) = IF T # {} THEN Min(T) ELSE 0
  BY DEF Position, SelectInSeq
<1>2. T \in SUBSET Nat
  OBVIOUS
<1>3. T # {} => Min(T) \in T
  BY <1>2, MinIsLeast
<1> QED
  BY <1>1, <1>3

\* A step of request r that changes the cache.
LEMMA SteppedCache ==
    ASSUME IInv, NEW r \in DOMAIN req, NEW q2, NEW c,
           Goes(r, q2), cache' = c, CacheOK(site, req, c),
           Sound(site, r, q2), Evolves(req[r], q2),
           q2.hit = req[r].hit \/ HitOK(site, req, r, q2)
    PROVE  IInv'
<1>1. site' = site /\ router' = router /\ cache' = c /\ req' = [req EXCEPT ![r] = q2]
  BY DEF Goes
<1>2. site \in Scenarios /\ r \in DOMAIN site.in /\ AllSound(site, req)
  BY DEF IInv, AllSound
<1>3. AllSound(site, req') /\ CacheOK(site, req', c)
  BY <1>1, <1>2, Advance
<1> QED
  BY <1>1, <1>2, <1>3 DEF IInv

LEMMA ExpiresStep ==
    ASSUME IInv, NEW i, Expires(i)
    PROVE  IInv'
<1>1. /\ i \in DOMAIN cache /\ cache' = RemoveAt(cache, i)
      /\ site' = site /\ router' = router /\ req' = req
  BY DEF Expires
<1>2. CacheOK(site, req, cache)
  BY DEF IInv
<1>3. i \in 1..Len(cache)
  BY <1>1, <1>2, CacheTyped
<1>4. CacheOK(site, req, RemoveAt(cache, i))
  BY <1>2, <1>3, RemovedOK
<1> QED
  BY <1>1, <1>4 DEF IInv

LEMMA KeyIs ==
    ASSUME NEW r
    PROVE  Key(r) = KeyAt(site, r)
BY DEF Key, KeyAt, In

\* The header of an answer from the cache.
LEMMA AddedHeaders ==
    ASSUME NEW h \in Headers, NEW g \in Headers
    PROVE  AddHeaders(h, g) \in Headers
<1> DEFINE x == AddHeaders(h, g)
           Names == {"ctype", "trace", "allow", "origin", "methods"}
<1>1. DOMAIN h = Names /\ \A n \in Names : h[n] \in Values /\ g[n] \in Values
  BY DEF Headers
<1>2. x = [n \in Names |-> IF h[n] = Unset THEN g[n] ELSE h[n]]
  BY <1>1 DEF AddHeaders
<1> HIDE DEF x
<1>3. /\ x = [ctype |-> x.ctype, trace |-> x.trace, allow |-> x.allow, origin |-> x.origin,
              methods |-> x.methods]
      /\ \A n \in Names : x[n] \in Values
  BY <1>1, <1>2
<1> QED
  BY <1>3 DEF Headers, x

\* The writer u of an answer from the cache, with the body of entry e.
HitWriter(w, mode, e) ==
    LET y == HeadIn(w, mode, 200)
    IN BodyIn([y EXCEPT !.header = AddHeaders(@, e.header)], mode, e.body)

HitAnswer(mode, e, u) ==
    /\ u \in Writers /\ Settled(u) /\ u.status # 0
    /\ u.rawBody = e.body /\ u.body = e.body
    /\ mode = "cors" => CorsSent(u)

LEMMA HitResult ==
    ASSUME NEW w \in Writers, Fresh(w), NEW mode \in Modes,
           NEW e, e.header \in Headers, e.body \in Pieces
    PROVE  HitAnswer(mode, e, HitWriter(w, mode, e))
<1> DEFINE b == e.body
           y == HeadIn(w, mode, 200)
           h == AddHeaders(y.header, e.header)
           z == [y EXCEPT !.header = h]
           u == BodyIn(z, mode, b)
<1>1. HitWriter(w, mode, e) = u
  BY Zenon DEF HitWriter
<1>2. 200 \in Codes
  BY DEF Codes
<1>3. y = HeadIn(w, mode, 200)
  OBVIOUS
<1> HIDE DEF y
<1>4. y \in Writers
  <2>1. HeadDone(w, mode, 200, y)
    BY <1>2, <1>3, HeadResult
  <2> QED
    BY <2>1, Zenon DEF HeadDone, HeadWritten
<1>5. h \in Headers
  BY <1>4, WriterHeader, AddedHeaders
<1> HIDE DEF h
<1>6. Dresses(y, z)
  BY <1>4, <1>5, HeaderDresses
<1> HIDE DEF z
<1>7. u = BodyIn(z, mode, b) /\ b \in Pieces /\ b = e.body
  OBVIOUS
<1> HIDE DEF u, b
<1>8. FullyAnswered(w, mode, 200, b, u)
  BY <1>2, <1>3, <1>6, <1>7, HeadDressBody
<1>9. u.status = 200 /\ u.body = b /\ Settled(u) /\ (mode = "cors" => CorsSent(u))
  BY <1>7, <1>8, FirstAnswer DEF Pieces
<1>10. u \in Writers /\ u.rawBody = b
  BY <1>8, Zenon DEF FullyAnswered
<1>11. HitAnswer(mode, e, u)
  <2>1. u.status # 0
    BY <1>9
  <2> QED
    BY <1>7, <1>9, <1>10, <2>1, Zenon DEF HitAnswer
<1> QED
  BY <1>1, <1>11, Zenon

LEMMA HitWriterIs ==
    ASSUME NEW w, NEW i, NEW e
    PROVE  LET y == WriteHeader(w, Wrapped(i), 200) IN
           Write([y EXCEPT !.header = AddHeaders(@, e.header)], Wrapped(i), e.body)
               = HitWriter(w, Mode(i), e)
<1> DEFINE y == HeadIn(w, Mode(i), 200)
           z == [y EXCEPT !.header = AddHeaders(@, e.header)]
           b == e.body
<1>1. WriteHeader(w, Wrapped(i), 200) = y
  BY ModeHead
<1>2. HitWriter(w, Mode(i), e) = BodyIn(z, Mode(i), b)
  BY Zenon DEF HitWriter
<1>3. Write(z, Wrapped(i), b) = BodyIn(z, Mode(i), b)
  <2> HIDE DEF z, b
  <2> QED
    BY ModeBody
<1> HIDE DEF y
<1> QED
  BY <1>1, <1>2, <1>3, Zenon

\* A request after it was answered from the cache.
FromCache(q, u, hit, at, logger, calls) ==
    Logs([q EXCEPT !.pc = "up", !.at = at, !.hit = hit, !.w = u], logger, calls)

LEMMA HitFields ==
    ASSUME NEW q, DOMAIN q = Keys, NEW u, NEW hit, NEW logger, NEW calls, NEW at
    PROVE  LET q2 == FromCache(q, u, hit, at, logger, calls) IN
           /\ SameBut(q, q2, {"pc", "at", "hit", "w", "lines"})
           /\ q2.pc = "up" /\ q2.at = at /\ q2.hit = hit /\ q2.w = u
<1> DEFINE qa == [q EXCEPT !.pc = "up"]
           qb == [qa EXCEPT !.at = at]
           qc == [qb EXCEPT !.hit = hit]
           qd == [qc EXCEPT !.w = u]
           q2 == Logs(qd, logger, calls)
<1>1. SameBut(q, qa, {"pc"}) /\ qa.pc = "up"
  BY DEF SameBut, Keys
<1> HIDE DEF qa
<1>2. SameBut(qa, qb, {"at"}) /\ qb.at = at
  BY <1>1 DEF SameBut, Keys
<1> HIDE DEF qb
<1>3. SameBut(qb, qc, {"hit"}) /\ qc.hit = hit
  BY <1>2 DEF SameBut, Keys
<1> HIDE DEF qc
<1>4. SameBut(qc, qd, {"w"}) /\ qd.w = u
  BY <1>3 DEF SameBut, Keys
<1> HIDE DEF qd
<1>5. SameBut(qd, q2, {"lines"})
  BY <1>4, LinesField DEF SameBut
<1> HIDE DEF q2
<1>6. /\ SameBut(q, q2, {"pc", "at", "hit", "w", "lines"})
      /\ q2.pc = "up" /\ q2.at = at /\ q2.hit = hit /\ q2.w = u
  BY <1>1, <1>2, <1>3, <1>4, <1>5 DEF SameBut, Keys
<1> QED
  BY <1>6 DEF q2, qd, qc, qb, qa, FromCache

LEMMA CachedHitStep ==
    ASSUME IInv, NEW r \in DOMAIN req, CachedHit(r)
    PROVE  IInv'
<1> DEFINE q == req[r]
           i == Found(r)
           e == cache[i]
           at == q.at - 1
           mode == Mode(q.at)
           u == HitWriter(q.w, mode, e)
           logger == Logger(r, q.at)
           calls == <<>>
           hit == <<e>>
           q2 == FromCache(q, u, hit, at, logger, calls)
           c == Append(RemoveAt(cache, i), e)
<1>1. /\ DOMAIN q = Keys /\ Sound(site, r, q) /\ q.w \in Writers
      /\ site \in Scenarios /\ r \in DOMAIN site.in /\ site.chain \in Seq(Middlewares)
      /\ End(site) = HandlerAt /\ q.at \in 0..HandlerAt
  BY Context
<1>2. q.pc = "down" /\ q.at < HandlerAt /\ site.chain[q.at] = "Cached" /\ i # 0
  BY DEF CachedHit, Down, Layer
<1>3. Goes(r, q2)
  <2>1. LET y == WriteHeader(q.w, Wrapped(q.at), 200) IN
        Write([y EXCEPT !.header = AddHeaders(@, e.header)], Wrapped(q.at), e.body) = u
    <3> DEFINE w == q.w
               j == q.at
               a == e
    <3> HIDE DEF w, j, a
    <3>1. LET y == WriteHeader(w, Wrapped(j), 200) IN
          Write([y EXCEPT !.header = AddHeaders(@, a.header)], Wrapped(j), a.body)
              = HitWriter(w, Mode(j), a)
      BY HitWriterIs
    <3> QED
      BY <3>1, Zenon DEF w, j, a
  <2> HIDE DEF u
  <2> QED
    BY <2>1, Zenon DEF CachedHit, FromCache
<1>4. cache' = c
  BY DEF CachedHit, Touched
<1>5. CacheOK(site, req, cache) /\ cache \in Seq(Entries)
  BY CacheTyped DEF IInv
<1>6. i \in 1..Len(cache) /\ e.key = KeyAt(site, r)
  BY <1>2, <1>5, PositionOf, KeyIs DEF Found
<1>7. EntryOK(site, req, e)
  BY <1>5, <1>6 DEF CacheOK
<1>8. CacheOK(site, req, c)
  <2>1. CacheOK(site, req, RemoveAt(cache, i)) /\ Len(RemoveAt(cache, i)) + 1 <= CacheSize
    BY <1>5, <1>6, RemovedOK
  <2> HIDE DEF e, i
  <2> QED
    BY <1>7, <2>1, AppendedOK
<1>9. Fresh(q.w) /\ q.at # End(site)
  <2>1. q.at # End(site)
    BY <1>1, <1>2 DEF HandlerAt
  <2> QED
    BY <1>1, <1>2, <2>1 DEF Sound, Control, Writing
<1>10. e.header \in Headers /\ e.body \in Pieces
  BY <1>7 DEF EntryOK, Entries, Pieces
<1>11. mode \in Modes
  BY ModeOK
<1>12. WrappedAt(site, q.at) => mode = "cors"
  <2>1. WrappedAt(site, q.at) <=> Wrapped(q.at)
    BY DEF WrappedAt, Wrapped, Layer
  <2> QED
    BY <2>1, Zenon DEF Mode
<1> HIDE DEF q, i, e, mode, c
<1>13. HitAnswer(mode, e, u)
  BY <1>1, <1>9, <1>10, <1>11, HitResult
<1> HIDE DEF u, at, logger, calls, hit
<1>14. /\ SameBut(q, q2, {"pc", "at", "hit", "w", "lines"})
       /\ q2.pc = "up" /\ q2.at = at /\ q2.hit = hit /\ q2.w = u
  BY <1>1, HitFields
<1> HIDE DEF q2
<1>15. /\ Keeps(q, q2, u) /\ q2.handled = q.handled /\ q2.panicking = q.panicking
       /\ q2.hit # <<>> /\ q2.hit[1] = e /\ q2.at = q.at - 1
  BY <1>14 DEF SameBut, Keys, Keeps, at, hit
<1>16. /\ Settled(u) /\ u.status # 0 /\ Len(u.rawBody) <= 1 /\ u \in Writers
       /\ u.body = e.body
       /\ WrappedAt(site, q.at) => CorsSent(u)
  BY <1>10, <1>12, <1>13 DEF HitAnswer, Pieces
<1>17. ErrorsShow /\ site.style = "status" => CleanBody(u.rawBody)
  BY <1>7, <1>13 DEF EntryOK, HitAnswer
<1>18. Sound(site, r, q2)
  BY <1>1, <1>2, <1>9, <1>14, <1>15, <1>16, <1>17, AnswerFromCache
<1>19. ~q2.panicked
  <2>1. ~q.panicked
    BY <1>1, <1>2 DEF Sound, Control
  <2>2. q2.panicked = q.panicked
    BY <1>15, Zenon DEF Keeps
  <2> QED
    BY <2>1, <2>2, Zenon
<1>20. HitOK(site, req, r, q2)
  BY <1>6, <1>7, <1>14, <1>15, <1>16, <1>19 DEF HitOK, Answered
<1>21. Evolves(q, q2)
  BY <1>2 DEF Evolves, Answered
<1> QED
  BY <1>3, <1>4, <1>8, <1>18, <1>20, <1>21, SteppedCache DEF q

\* The cache after an entry was added.
LEMMA AddedOK ==
    ASSUME CacheOK(site, req, cache), NEW e, EntryOK(site, req, e)
    PROVE  CacheOK(site, req, Added(e))
<1> DEFINE i == Position(e.key)
           others == IF i = 0 THEN cache ELSE RemoveAt(cache, i)
           all == Append(others, e)
<1>1. cache \in Seq(Entries) /\ Len(cache) \in Nat /\ Len(cache) <= CacheSize
  BY CacheTyped
<1>2. i = 0 \/ i \in 1..Len(cache)
  BY <1>1, PositionOf
<1>3. Added(e) = IF Len(all) > CacheSize THEN Tail(all) ELSE all
  BY DEF Added
<1> HIDE DEF i
<1>4. CacheOK(site, req, others)
  BY <1>2, RemovedOK
<1> HIDE DEF others
<1>5. /\ Len(others) + 1 <= CacheSize => CacheOK(site, req, all)
      /\ CacheOK(site, req, Tail(all))
      /\ Len(all) = Len(others) + 1
  BY <1>4, AppendedOK
<1>6. Len(others) \in Nat
  BY <1>4, CacheTyped
<1> HIDE DEF all
<1>7. CASE Len(all) > CacheSize
  BY <1>3, <1>5, <1>7
<1>8. CASE ~(Len(all) > CacheSize)
  BY <1>3, <1>5, <1>6, <1>8, CacheAssumption
<1> QED
  BY <1>7, <1>8

LEMMA KeyTyped ==
    ASSUME IInv, NEW r \in DOMAIN req
    PROVE  Key(r) \in Seq(STRING \cup {"|"})
<1>1. RequestOK(site.in[r])
  BY Context
<1>2. /\ In(r).method \in STRING \cup {"|"} /\ In(r).uri \in Seq(STRING \cup {"|"})
      /\ In(r).content \in Seq(STRING \cup {"|"})
  BY <1>1 DEF RequestOK, In
<1>3. <<In(r).method, "|">> \in Seq(STRING \cup {"|"}) /\ <<"|">> \in Seq(STRING \cup {"|"})
  BY <1>2
<1> QED
  BY <1>2, <1>3 DEF Key

\* What goes into the cache after a success.
LEMMA EntryIsOK ==
    ASSUME IInv, NEW r \in DOMAIN req, req[r].pc = "up", ~req[r].panicking,
           req[r].w.statusCode = 200
    PROVE  EntryOK(site, req, Entry(r))
<1> DEFINE q == req[r]
           e == Entry(r)
<1>1. /\ Sound(site, r, q) /\ q.w \in Writers /\ r \in Requests
      /\ site \in Scenarios /\ r \in DOMAIN site.in
  BY Context
<1>2. /\ e.key = KeyAt(site, r) /\ e.header = q.w.header /\ e.body = q.w.rawBody /\ e.by = r
      /\ e = [key |-> Key(r), header |-> q.w.header, body |-> q.w.rawBody, by |-> r]
  BY KeyIs DEF Entry
<1>3. e \in Entries
  <2>1. q.w.header \in Headers /\ q.w.rawBody \in Bodies
    BY <1>1 DEF Writers
  <2>2. Key(r) \in Seq(STRING \cup {"|"})
    BY KeyTyped
  <2> HIDE DEF e, q
  <2> QED
    BY <1>1, <1>2, <2>1, <2>2 DEF Entries
<1>4. q.pc = "up" /\ ~q.panicking /\ q.w.statusCode = 200
  OBVIOUS
<1>5. q = req[r]
  OBVIOUS
<1> HIDE DEF q, e
<1>6. ~q.panicked /\ q.w.wroteHeader
  BY <1>1, <1>4 DEF Sound, Panicking, Writing, Fresh
<1>7. Len(e.body) <= 1
  BY <1>1, <1>2 DEF Sound, Writing
<1>8. Once(site.in[r].script) => q.w.status = 200 /\ q.w.body = e.body
  BY <1>1, <1>2, <1>4, <1>6 DEF Sound, Answers, Settled
<1>9. ErrorsShow /\ site.style = "status" => CleanBody(e.body)
  BY <1>1, <1>2, <1>4 DEF Sound, Clean
<1>10. Answered(q)
  BY <1>4, <1>6 DEF Answered
<1>11. e.by = r /\ e.by \in DOMAIN site.in /\ req[e.by] = q
  BY <1>1, <1>2, <1>5
<1>12. EntryOK(site, req, e)
  BY <1>2, <1>3, <1>7, <1>8, <1>9, <1>10, <1>11 DEF EntryOK
<1> QED
  BY <1>12 DEF e

LEMMA CachedAddsStep ==
    ASSUME IInv, NEW r \in DOMAIN req, CachedAdds(r)
    PROVE  IInv'
<1> DEFINE q == req[r]
           q2 == Higher(q)
           c == IF Cacheable(r) /\ q.w.statusCode = 200 THEN Added(Entry(r)) ELSE cache
<1>1. /\ Up(r, "Cached") /\ ~q.panicking /\ Goes(r, q2) /\ cache' = c
  BY DEF CachedAdds
<1>2. CacheOK(site, req, cache)
  BY DEF IInv
<1>3. CacheOK(site, req, c)
  BY <1>1, <1>2, EntryIsOK, AddedOK DEF Up
<1> HIDE DEF c
<1>4. Walks(q, q2) /\ q2.at = q.at - 1
  BY HigherWalks
<1>5. Evolves(q, q2) /\ q2.hit = q.hit
  BY <1>4, WalkEvolves
<1>6. /\ site \in Scenarios /\ r \in DOMAIN site.in /\ Sound(site, r, q)
      /\ End(site) = HandlerAt /\ site.chain \in Seq(Middlewares) /\ q.at \in 0..HandlerAt
  BY Context
<1>7. q.pc = "up" /\ q.at > 0
  BY <1>1 DEF Up
<1>8. q.at # End(site)
  BY <1>6, <1>7 DEF Sound, Control
<1>9. q2.at \in 0..End(site) /\ q2.at # End(site)
  BY <1>4, <1>6, <1>7, <1>8 DEF HandlerAt
<1> HIDE DEF q, q2
<1>10. Sound(site, r, q2)
  BY <1>1, <1>4, <1>6, <1>7, <1>9, WalkOn
<1> QED
  BY <1>1, <1>3, <1>5, <1>10, SteppedCache DEF q

(***************************************************************************)
(* Every step keeps the invariant                                          *)
(***************************************************************************)
LEMMA RouterStep ==
    ASSUME IInv, Registers \/ Serves \/ (\E n \in site.limits : SetMaxBodyBytes(n))
    PROVE  IInv'
<1>1. site' = site /\ cache' = cache /\ req' = req
  BY DEF Registers, Serves, SetMaxBodyBytes
<1>2. /\ DOMAIN router' = {"maxBodyBytes", "limit", "state"}
      /\ router'.state \in {"new", "registered", "serving"}
  <2>1. CASE Registers
    BY <2>1 DEF Registers, IInv
  <2>2. CASE Serves
    BY <2>2 DEF Serves, IInv
  <2>3. CASE \E n \in site.limits : SetMaxBodyBytes(n)
    BY <2>3 DEF SetMaxBodyBytes, IInv
  <2> QED
    BY <2>1, <2>2, <2>3
<1> QED
  BY <1>1, <1>2 DEF IInv

LEMMA ProceedsStep ==
    ASSUME IInv, NEW r \in DOMAIN req, Proceeds(r)
    PROVE  IInv'
<1>1. CASE Leaves(r) \/ TraceId(r) \/ Enters(r)
  BY <1>1, LeavesStep, TraceIdStep, EntersStep
<1>2. CASE CachedSteps(r)
  BY <1>2, CachedHitStep, CachedMissStep, CachedAddsStep DEF CachedSteps
<1>3. CASE Parses(r) \/ Oks(r) \/ Fails(r) \/ Writes(r) \/ Reuses(r) \/ LogsFields(r)
  BY <1>3, ParsesStep, OksStep, FailsStep, WritesStep, ReusesStep, LogsFieldsStep
<1>4. CASE GivesUp(r) \/ Panics(r) \/ HandlerReturns(r)
  BY <1>4, GivesUpStep, PanicsStep, HandlerReturnsStep
<1>5. CASE Returns(r) \/ LoggingFinished(r) \/ Unwinds(r) \/ Recovers(r)
  BY <1>5, ReturnsStep, LoggingFinishedStep, UnwindsStep, RecoversStep
<1> QED
  BY <1>1, <1>2, <1>3, <1>4, <1>5 DEF Proceeds

LEMMA NextStep ==
    ASSUME IInv, Next
    PROVE  IInv'
<1>1. CASE Registers \/ Serves \/ (\E n \in site.limits : SetMaxBodyBytes(n))
  BY <1>1, RouterStep
<1>2. CASE \E i \in 1..CacheSize : Expires(i)
  BY <1>2, ExpiresStep
<1>3. ASSUME NEW r \in DOMAIN req,
             Arrives(r) \/ Proceeds(r) \/ Deadline(r) \/ BackendAnswers(r)
      PROVE  IInv'
  BY <1>3, ArrivesStep, ProceedsStep, DeadlineStep, BackendAnswersStep
<1> QED
  BY <1>1, <1>2, <1>3 DEF Next

LEMMA StutterStep ==
    ASSUME IInv, UNCHANGED vars
    PROVE  IInv'
BY DEF IInv, vars

\* A request that has not come yet.
LEMMA NewRequestSound ==
    ASSUME NEW s \in Scenarios, NEW r \in DOMAIN s.in
    PROVE  Sound(s, r, NewRequest) /\ NewRequest.hit = <<>>
<1> DEFINE q == NewRequest
<1>1. /\ DOMAIN q = Keys /\ q.pc = "new" /\ q.at = 0 /\ q.ip = 1 /\ q.w = NewWriter
      /\ q.parsed = Failed /\ q.logged = <<>> /\ q.hit = <<>>
  BY DEF NewRequest, Keys
<1>2. /\ q.panicking \in BOOLEAN /\ ~q.panicking
      /\ q.handled \in BOOLEAN /\ ~q.handled
      /\ q.panicked \in BOOLEAN /\ ~q.panicked
  BY DEF NewRequest
<1>3. q.w \in Writers /\ Fresh(q.w)
  BY <1>1, NewWriterFresh
<1>4. Len(s.chain) \in Nat
  BY SiteFacts
<1> HIDE DEF q
<1>5. Control(s, q)
  BY <1>1, <1>2, <1>4 DEF Control, End
<1>6. Writing(q)
  BY <1>3 DEF Writing, Fresh
<1>7. Panicking(s, r, q)
  BY <1>2 DEF Panicking
<1>8. Answers(s.in[r].script, q)
  BY <1>3 DEF Answers, Fresh
<1>9. Crosses(s, q)
  BY <1>3 DEF Crosses, Fresh
<1>10. Clean(s, s.in[r].script, q)
  BY <1>3 DEF Clean, CleanBody, Fresh
<1>11. Sound(s, r, q)
  BY <1>1, <1>5, <1>6, <1>7, <1>8, <1>9, <1>10 DEF Sound
<1> QED
  BY <1>1, <1>11 DEF q

LEMMA InitHolds ==
    ASSUME Init
    PROVE  IInv
<1>1. /\ site \in Scenarios /\ cache = <<>>
      /\ router = [maxBodyBytes |-> 0, limit |-> 0, state |-> "new"]
      /\ DOMAIN req = DOMAIN site.in /\ \A r \in DOMAIN site.in : req[r] = NewRequest
  BY Zenon DEF Init
<1>2. AllSound(site, req)
  <2>1. ASSUME NEW r \in DOMAIN site.in
        PROVE  Sound(site, r, req[r]) /\ HitOK(site, req, r, req[r])
    <3>1. req[r] = NewRequest
      BY <1>1
    <3>2. Sound(site, r, NewRequest) /\ NewRequest.hit = <<>>
      BY <1>1, NewRequestSound
    <3> QED
      BY <3>1, <3>2, Zenon DEF HitOK
  <2> QED
    BY <1>1, <2>1 DEF AllSound
<1>3. CacheOK(site, req, cache)
  BY <1>1, CacheAssumption DEF CacheOK
<1>4. /\ DOMAIN router = {"maxBodyBytes", "limit", "state"}
      /\ router.state \in {"new", "registered", "serving"}
  BY <1>1
<1> QED
  BY <1>1, <1>2, <1>3, <1>4 DEF IInv

\* Every request that is served is sound, and so is every entry of the cache.
THEOREM Invariance == Spec => []IInv
<1>1. Init => IInv
  BY InitHolds
<1>2. IInv /\ [Next]_vars => IInv'
  BY NextStep, StutterStep
<1> QED
  BY <1>1, <1>2, PTL DEF Spec

(***************************************************************************)
(* What follows for the requests, and for who looks at their answers       *)
(***************************************************************************)
LEMMA SoundNow ==
    ASSUME IInv, NEW r \in DOMAIN req
    PROVE  /\ site \in Scenarios /\ r \in DOMAIN site.in
           /\ Sound(site, r, req[r]) /\ HitOK(site, req, r, req[r])
BY DEF IInv, AllSound

LEMMA TypesFollow == IInv => TypeOK
<1> SUFFICES ASSUME IInv
             PROVE  TypeOK
  OBVIOUS
<1>1. router.state \in {"new", "registered", "serving"}
  BY DEF IInv
<1>2. Len(cache) <= CacheSize /\ cache \in Seq(Entries)
  BY DEF IInv, CacheOK
<1>3. ASSUME NEW i \in DOMAIN cache
      PROVE  cache[i].by \in Requests /\ Len(cache[i].body) <= 1
  <2>1. i \in 1..Len(cache) /\ cache[i] \in Entries
    BY <1>2
  <2>2. EntryOK(site, req, cache[i])
    BY <2>1 DEF IInv, CacheOK
  <2>3. cache[i].by \in Requests
    BY <2>1 DEF Entries
  <2>4. Len(cache[i].body) <= 1
    BY <2>2, Zenon DEF EntryOK
  <2> QED
    BY <2>3, <2>4
<1>4. ASSUME NEW r \in DOMAIN req
      PROVE  /\ req[r].pc \in {"new", "down", "up", "done"}
             /\ req[r].at \in 0..HandlerAt
             /\ req[r].w.status \in {0} \cup 100..999
             /\ Len(req[r].w.rawBody) <= 1
  <2>1. Control(site, req[r]) /\ Writing(req[r])
    BY <1>4, SoundNow DEF Sound
  <2>2. req[r].pc \in {"new", "down", "up", "done"} /\ req[r].at \in 0..HandlerAt
    BY <2>1 DEF Control, End, HandlerAt
  <2>3. req[r].w \in Writers /\ Len(req[r].w.rawBody) <= 1
    BY <2>1, Zenon DEF Writing
  <2>4. req[r].w.status \in Statuses
    BY <2>3 DEF Writers
  <2> QED
    BY <2>2, <2>3, <2>4 DEF Statuses, Codes
<1> QED
  BY <1>1, <1>2, <1>3, <1>4 DEF TypeOK

\* The requests, the router and the cache keep their types, and the cache its
\* size, for every site, cache and number of requests.
THEOREM RequestTyped == Spec => []TypeOK
<1>1. IInv => TypeOK
  BY TypesFollow
<1> QED
  BY <1>1, Invariance, PTL

LEMMA PanicsFollow == IInv => PanicsAnswered
<1> SUFFICES ASSUME IInv, NEW r \in DOMAIN req, Done(r), req[r].panicked, Has("Recovery")
             PROVE  /\ ~req[r].panicking
                    /\ req[r].w.status # 0
                    /\ req[r].w.statusCode = 500
                    /\ Last(req[r].w.body) = Text(r)
  BY DEF PanicsAnswered
<1> DEFINE q == req[r]
<1>1. site \in Scenarios /\ Panicking(site, r, q) /\ Writing(q) /\ q.pc = "done" /\ q.panicked
  BY SoundNow, Zenon DEF Sound, Done
<1>2. PICK i \in 1..Len(site.chain) : site.chain[i] = "Recovery"
  <2>1. site.chain \in Seq(Middlewares)
    BY <1>1, SiteFacts
  <2> QED
    BY <2>1 DEF Has, Range
<1> HIDE DEF q
<1>3. ~q.panicking
  <2> SUFFICES ASSUME q.panicking
               PROVE  FALSE
    OBVIOUS
  <2>1. q.at = 0 /\ \A j \in 1..Len(site.chain) : q.at < j => site.chain[j] # "Recovery"
    BY <1>1, Zenon DEF Panicking
  <2> QED
    BY <1>2, <2>1
<1>4. q.w.wroteHeader /\ q.w.statusCode = 500 /\ Last(q.w.body) = Text(r)
  BY <1>1, <1>3, Zenon DEF Panicking
<1>5. q.w.status # 0
  BY <1>1, <1>4, Zenon DEF Writing
<1> QED
  BY <1>3, <1>4, <1>5 DEF q

\* Wherever Recovery is in a chain, no panic below it gets by: the request is
\* answered, and counts as a 500 for the layers above.
THEOREM PanicsAreAnswered == Spec => []PanicsAnswered
<1>1. IInv => PanicsAnswered
  BY PanicsFollow
<1> QED
  BY <1>1, Invariance, PTL

LEMMA CrossOriginFollows == IInv => CrossOriginAnswers
<1> SUFFICES ASSUME IInv, NEW r \in DOMAIN req,
                    Has("CORS"), req[r].w.wroteHeader, ~req[r].panicked,
                    IF req[r].hit = <<>> THEN req[r].handled
                    ELSE \A i \in 1..(HandlerAt - 1) : Layer(i) = "Cached" => Wrapped(i)
             PROVE  req[r].w.sent.origin = "*" /\ req[r].w.sent.methods = req[r].w.sent.allow
  BY DEF CrossOriginAnswers
<1> DEFINE q == req[r]
<1>1. site \in Scenarios /\ Crosses(site, q)
  BY SoundNow, Zenon DEF Sound
<1>2. HasLayer(site, "CORS")
  BY DEF Has, HasLayer
<1>3. q.hit # <<>> => CachesWrapped(site)
  <2>1. HandlerAt - 1 = Len(site.chain)
    BY <1>1, SiteFacts DEF HandlerAt
  <2> QED
    BY <2>1 DEF CachesWrapped, WrappedAt, Wrapped, Layer
<1>4. q.hit = <<>> => q.handled
  OBVIOUS
<1>5. CorsSent(q.w)
  BY <1>1, <1>2, <1>3, <1>4, Zenon DEF Crosses
<1> QED
  BY <1>5 DEF CorsSent

\* Wherever CORS is in a chain, the answers of the handlers below it carry its
\* headers.
THEOREM CrossOriginAnswersCarryHeaders == Spec => []CrossOriginAnswers
<1>1. IInv => CrossOriginAnswers
  BY CrossOriginFollows
<1> QED
  BY <1>1, Invariance, PTL

LEMMA OnceIs ==
    ASSUME NEW r
    PROVE  AnswersOnce(r) <=> Once(site.in[r].script)
BY Zenon DEF AnswersOnce, Once, In

LEMMA LoggedFollows == IInv => LoggedIsSent
<1> SUFFICES ASSUME IInv, NEW r \in DOMAIN req, req[r].logged # <<>>, AnswersOnce(r),
                    req[r].w.wroteHeader, ~req[r].panicked
             PROVE  req[r].logged = <<req[r].w.status, req[r].w.body>>
  BY Zenon DEF LoggedIsSent
<1>1. Answers(site.in[r].script, req[r])
  BY SoundNow, Zenon DEF Sound
<1>2. Once(site.in[r].script)
  BY OnceIs
<1> QED
  BY <1>1, <1>2, Zenon DEF Answers

\* Wherever Logging is in a chain, it reports what the client got.
THEOREM LogsWhatIsSent == Spec => []LoggedIsSent
<1>1. IInv => LoggedIsSent
  BY LoggedFollows
<1> QED
  BY <1>1, Invariance, PTL

LEMMA SuccessesFollow ==
    ASSUME ErrorsShow
    PROVE  IInv => HitsAreSuccesses
<1> SUFFICES ASSUME IInv, NEW r \in DOMAIN req, req[r].hit # <<>>, site.style = "status",
                    NEW b \in Range(req[r].hit[1].body)
             PROVE  b.errno = 0 /\ b.what # "text"
  BY Zenon DEF HitsAreSuccesses
<1>1. EntryOK(site, req, req[r].hit[1])
  BY SoundNow, Zenon DEF HitOK
<1>2. CleanBody(req[r].hit[1].body)
  BY <1>1, Zenon DEF EntryOK
<1> QED
  BY <1>2, Zenon DEF CleanBody, Range

\* When no error has the status of a success, no error is answered from the
\* cache in the style of RESTHandler.
THEOREM HitsAreNoErrors ==
    ASSUME ErrorsShow
    PROVE  Spec => []HitsAreSuccesses
<1>1. IInv => HitsAreSuccesses
  BY SuccessesFollow
<1> QED
  BY <1>1, Invariance, PTL

Joins(S, a, b, z) ==
    /\ z \in Seq(S) /\ Len(z) = Len(a) + Len(b)
    /\ \A j \in 1..Len(a) : z[j] = a[j]
    /\ \A j \in 1..Len(b) : z[Len(a) + j] = b[j]

LEMMA JoinedTwo ==
    ASSUME NEW S, NEW a \in Seq(S), NEW b \in Seq(S)
    PROVE  Joins(S, a, b, a \o b)
<1>1. a \o b \in Seq(S) /\ Len(a \o b) = Len(a) + Len(b)
  OBVIOUS
<1>2. \A j \in 1..Len(a) : (a \o b)[j] = a[j]
  OBVIOUS
<1>3. \A j \in 1..Len(b) : (a \o b)[Len(a) + j] = b[j]
  OBVIOUS
<1> QED
  BY <1>1, <1>2, <1>3, Zenon DEF Joins

\* Where the parts of a key are: x, u, b and c.
Parts(S, k, x, u, b, c) ==
    /\ k \in Seq(S) /\ Len(k) = 3 + Len(u) + Len(c)
    /\ k[1] = x[1]
    /\ \A j \in 1..Len(u) : k[2 + j] = u[j]
    /\ k[3 + Len(u)] = b[1]
    /\ \A j \in 1..Len(c) : k[3 + Len(u) + j] = c[j]

LEMMA PartsOf ==
    ASSUME NEW S, NEW x \in Seq(S), NEW u \in Seq(S), NEW b \in Seq(S), NEW c \in Seq(S),
           Len(x) = 2, Len(b) = 1
    PROVE  Parts(S, ((x \o u) \o b) \o c, x, u, b, c)
<1> DEFINE y == x \o u
           z == y \o b
           k == z \o c
<1>1. Joins(S, x, u, y)
  BY JoinedTwo, Zenon
<1>2. y \in Seq(S)
  BY <1>1, Zenon DEF Joins
<1> HIDE DEF y
<1>3. Joins(S, y, b, z)
  BY <1>2, JoinedTwo, Zenon
<1>4. z \in Seq(S)
  BY <1>3, Zenon DEF Joins
<1> HIDE DEF z
<1>9. Joins(S, z, c, k)
  BY <1>4, JoinedTwo, Zenon
<1>10. k \in Seq(S)
  BY <1>9, Zenon DEF Joins
<1>11. k = ((x \o u) \o b) \o c
  BY DEF y, z
<1> HIDE DEF k
<1>5. /\ Len(y) = 2 + Len(u)
      /\ \A j \in 1..2 : y[j] = x[j]
      /\ \A j \in 1..Len(u) : y[2 + j] = u[j]
  BY <1>1 DEF Joins
<1>6. Len(z) = 3 + Len(u)
  BY <1>3, <1>5 DEF Joins
<1>7. /\ \A j \in 1..Len(y) : z[j] = y[j]
      /\ \A j \in 1..1 : z[Len(y) + j] = b[j]
  BY <1>3, Zenon DEF Joins
<1>8. /\ Len(k) = Len(z) + Len(c)
      /\ \A j \in 1..Len(z) : k[j] = z[j]
      /\ \A j \in 1..Len(c) : k[Len(z) + j] = c[j]
  BY <1>9, Zenon DEF Joins
<1>12. Len(u) \in Nat /\ Len(c) \in Nat
  OBVIOUS
<1>13. k \in Seq(S) /\ Len(k) = 3 + Len(u) + Len(c)
  BY <1>6, <1>8, <1>10, <1>12
<1>14. ASSUME NEW j \in 1..(2 + Len(u)) PROVE k[j] = y[j]
  <2>1. j \in 1..Len(y) /\ j \in 1..Len(z)
    BY <1>5, <1>6, <1>12
  <2>2. k[j] = z[j] /\ z[j] = y[j]
    BY <1>7, <1>8, <2>1
  <2> QED
    BY <2>2
<1>15. k[1] = x[1]
  <2>1. 1 \in 1..(2 + Len(u)) /\ 1 \in 1..2
    BY <1>12
  <2> QED
    BY <1>5, <1>14, <2>1
<1>16. ASSUME NEW j \in 1..Len(u) PROVE k[2 + j] = u[j]
  <2>1. 2 + j \in 1..(2 + Len(u))
    BY <1>12
  <2> QED
    BY <1>5, <1>14, <2>1
<1>17. k[3 + Len(u)] = b[1]
  <2>1. 3 + Len(u) \in 1..Len(z) /\ Len(y) + 1 = 3 + Len(u)
    BY <1>5, <1>6, <1>12
  <2> QED
    BY <1>7, <1>8, <2>1
<1>18. ASSUME NEW j \in 1..Len(c) PROVE k[3 + Len(u) + j] = c[j]
  BY <1>6, <1>8, <1>18
<1>19. Parts(S, k, x, u, b, c)
  BY <1>13, <1>15, <1>16, <1>17, <1>18 DEF Parts
<1> QED
  BY <1>11, <1>19, Zenon

KeyOf(m, mark, u, c) == <<m, mark>> \o u \o <<mark>> \o c

LEMMA KeyParts ==
    ASSUME NEW S, NEW m \in S, NEW mark \in S, NEW u \in Seq(S), NEW c \in Seq(S)
    PROVE  Parts(S, KeyOf(m, mark, u, c), <<m, mark>>, u, <<mark>>, c)
<1> DEFINE x == <<m, mark>>
           b == <<mark>>
<1>1. x \in Seq(S) /\ Len(x) = 2
  OBVIOUS
<1>2. b \in Seq(S) /\ Len(b) = 1
  OBVIOUS
<1>3. KeyOf(m, mark, u, c) = ((x \o u) \o b) \o c
  BY DEF KeyOf
<1> HIDE DEF x, b
<1>4. Parts(S, ((x \o u) \o b) \o c, x, u, b, c)
  BY <1>1, <1>2, PartsOf, Zenon
<1>5. Parts(S, KeyOf(m, mark, u, c), x, u, b, c)
  BY <1>3, <1>4, Zenon
<1> QED
  BY <1>5, Zenon DEF x, b

\* The mark after the URI u of a key is in the longer URI v of the same key.
LEMMA LongerHasMark ==
    ASSUME NEW S, NEW k, NEW x, NEW y, NEW b, NEW u \in Seq(S), NEW c \in Seq(S),
           NEW v \in Seq(S), NEW d \in Seq(S),
           Parts(S, k, x, u, b, c), Parts(S, k, y, v, b, d), Len(u) < Len(v)
    PROVE  b[1] \in Range(v)
<1>1. k[3 + Len(u)] = b[1]
  BY Zenon DEF Parts
<1>2. \A j \in 1..Len(v) : k[2 + j] = v[j]
  BY Zenon DEF Parts
<1>3. Len(u) + 1 \in 1..Len(v) /\ 2 + (Len(u) + 1) = 3 + Len(u)
  OBVIOUS
<1>4. v[Len(u) + 1] = b[1]
  BY <1>1, <1>2, <1>3
<1>5. Len(u) + 1 \in DOMAIN v
  BY <1>3
<1> QED
  BY <1>4, <1>5, Zenon DEF Range

Pairwise(m, n, u, v, c, d) == m = n /\ u = v /\ c = d

LEMMA SameParts ==
    ASSUME NEW S, NEW k, NEW x, NEW y, NEW b, NEW u \in Seq(S), NEW c \in Seq(S),
           NEW v \in Seq(S), NEW d \in Seq(S),
           Parts(S, k, x, u, b, c), Parts(S, k, y, v, b, d), Len(u) = Len(v)
    PROVE  Pairwise(x[1], y[1], u, v, c, d)
<1>1. /\ Len(k) = 3 + Len(u) + Len(c)
      /\ k[1] = x[1]
      /\ \A j \in 1..Len(u) : k[2 + j] = u[j]
      /\ \A j \in 1..Len(c) : k[3 + Len(u) + j] = c[j]
  BY Zenon DEF Parts
<1>2. /\ Len(k) = 3 + Len(v) + Len(d)
      /\ k[1] = y[1]
      /\ \A j \in 1..Len(v) : k[2 + j] = v[j]
      /\ \A j \in 1..Len(d) : k[3 + Len(v) + j] = d[j]
  BY Zenon DEF Parts
<1>3. Len(c) = Len(d)
  BY <1>1, <1>2
<1>4. u = v
  <2>1. \A j \in 1..Len(u) : u[j] = v[j]
    BY <1>1, <1>2
  <2> QED
    BY <2>1
<1>5. c = d
  <2>1. \A j \in 1..Len(c) : c[j] = d[j]
    BY <1>1, <1>2, <1>3
  <2> QED
    BY <1>3, <2>1
<1>6. x[1] = y[1]
  BY <1>1, <1>2
<1> QED
  BY <1>4, <1>5, <1>6, Zenon DEF Pairwise

\* Without the mark in their URIs, the key tells two requests apart.
LEMMA KeysDiffer ==
    ASSUME NEW S, NEW mark \in S, NEW m \in S, NEW u \in Seq(S), NEW c \in Seq(S),
           NEW n \in S, NEW v \in Seq(S), NEW d \in Seq(S),
           KeyOf(m, mark, u, c) = KeyOf(n, mark, v, d),
           mark \notin Range(u), mark \notin Range(v)
    PROVE  Pairwise(m, n, u, v, c, d)
<1> DEFINE k == KeyOf(m, mark, u, c)
           x == <<m, mark>>
           y == <<n, mark>>
           b == <<mark>>
<1>1. Parts(S, k, x, u, b, c)
  BY KeyParts, Zenon
<1>2. Parts(S, k, y, v, b, d)
  <2>1. Parts(S, KeyOf(n, mark, v, d), y, v, b, d)
    BY KeyParts, Zenon
  <2> QED
    BY <2>1, Zenon
<1>3. x[1] = m /\ y[1] = n /\ b[1] = mark
  OBVIOUS
<1> HIDE DEF k, x, y, b
<1>4. ~(Len(u) < Len(v))
  BY <1>1, <1>2, <1>3, LongerHasMark, Zenon
<1>5. ~(Len(v) < Len(u))
  BY <1>1, <1>2, <1>3, LongerHasMark, Zenon
<1>6. Len(u) = Len(v)
  BY <1>4, <1>5
<1>7. Pairwise(x[1], y[1], u, v, c, d)
  BY <1>1, <1>2, <1>6, SameParts, Zenon
<1> QED
  BY <1>3, <1>7, Zenon

LEMMA SameKey ==
    ASSUME NEW s \in Scenarios, NEW r \in DOMAIN s.in, NEW p \in DOMAIN s.in,
           KeyAt(s, r) = KeyAt(s, p),
           "|" \notin Range(s.in[r].uri), "|" \notin Range(s.in[p].uri)
    PROVE  /\ s.in[r].method = s.in[p].method
           /\ s.in[r].uri = s.in[p].uri
           /\ s.in[r].content = s.in[p].content
<1> DEFINE m == s.in[r].method
           u == s.in[r].uri
           c == s.in[r].content
           n == s.in[p].method
           v == s.in[p].uri
           d == s.in[p].content
<1>1. RequestOK(s.in[r]) /\ RequestOK(s.in[p])
  BY SiteFacts
<1> DEFINE S == STRING \cup {"|"}
<1>2. m \in S /\ u \in Seq(S) /\ c \in Seq(S)
  BY <1>1 DEF RequestOK
<1>3. n \in S /\ v \in Seq(S) /\ d \in Seq(S)
  BY <1>1 DEF RequestOK
<1>4. KeyOf(m, "|", u, c) = KeyOf(n, "|", v, d)
  BY Zenon DEF KeyAt, KeyOf
<1>5. "|" \notin Range(u) /\ "|" \notin Range(v)
  OBVIOUS
<1>6. "|" \in S
  OBVIOUS
<1> HIDE DEF S, m, u, c, n, v, d
<1>7. Pairwise(m, n, u, v, c, d)
  BY <1>2, <1>3, <1>4, <1>5, <1>6, KeysDiffer, Zenon
<1>8. m = n /\ u = v /\ c = d
  BY <1>7, Zenon DEF Pairwise
<1> QED
  BY <1>8, Zenon DEF m, u, c, n, v, d

LEMMA HitsFollow == IInv => CacheServesAnswers
<1> SUFFICES ASSUME IInv, NEW r \in DOMAIN req, req[r].hit # <<>>
             PROVE  LET author == req[r].hit[1].by IN
                    /\ ~req[author].panicked
                    /\ HasBar(r) \/ HasBar(author) \/ SameRequest(r, author)
                    /\ AnswersOnce(author) => /\ req[author].w.status \in {0, 200}
                                              /\ Last(req[r].w.body) = Last(req[author].w.body)
  BY Zenon DEF CacheServesAnswers
<1>1. site \in Scenarios /\ r \in DOMAIN site.in /\ HitOK(site, req, r, req[r])
  BY SoundNow
<1> DEFINE e == req[r].hit[1]
           p == e.by
<1>2. EntryOK(site, req, e) /\ e.key = KeyAt(site, r) /\ req[r].w.body = e.body
  BY <1>1, Zenon DEF HitOK
<1>3. p \in DOMAIN site.in /\ e.key = KeyAt(site, p) /\ Answered(req[p])
  BY <1>2, Zenon DEF EntryOK
<1>4. Once(site.in[p].script) => req[p].w.status = 200 /\ req[p].w.body = e.body
  BY <1>2, Zenon DEF EntryOK
<1>5. ~req[p].panicked
  BY <1>3, Zenon DEF Answered
<1>6. KeyAt(site, r) = KeyAt(site, p)
  BY <1>2, <1>3, Zenon
<1>7. HasBar(r) \/ HasBar(p) \/ SameRequest(r, p)
  <2> SUFFICES ASSUME "|" \notin Range(site.in[r].uri), "|" \notin Range(site.in[p].uri)
               PROVE  SameRequest(r, p)
    BY Zenon DEF HasBar, In
  <2>1. /\ site.in[r].method = site.in[p].method
        /\ site.in[r].uri = site.in[p].uri
        /\ site.in[r].content = site.in[p].content
    BY <1>1, <1>3, <1>6, SameKey
  <2> QED
    BY <2>1, Zenon DEF SameRequest, In
<1>8. ASSUME AnswersOnce(p)
      PROVE  req[p].w.status \in {0, 200} /\ Last(req[r].w.body) = Last(req[p].w.body)
  <2>1. req[p].w.status = 200 /\ req[p].w.body = e.body
    BY <1>4, <1>8, OnceIs
  <2>2. req[r].w.body = req[p].w.body
    BY <1>2, <2>1, Zenon
  <2> QED
    BY <2>1, <2>2, Zenon
<1> QED
  BY <1>5, <1>7, <1>8, Zenon

\* What the cache answers is a whole answer of the handler, with status 200, to
\* the same request.
THEOREM CacheServesWholeAnswers == Spec => []CacheServesAnswers
<1>1. IInv => CacheServesAnswers
  BY HitsFollow
<1> QED
  BY <1>1, Invariance, PTL

(***************************************************************************)
(* The parameters                                                          *)
(***************************************************************************)
\* Every default is one that its field can hold.
DefaultsFit == \A f \in Fields : Struct[f].default # <<>> => Fits(f, Struct[f].default)

LEMMA SmallModulo ==
    ASSUME NEW m \in Nat, NEW x \in 0..(m - 1)
    PROVE  x % m = x
OBVIOUS

LEMMA SignedRange ==
    ASSUME NEW p \in Nat, NEW m \in Nat, 0 < p, m = 2 * p, NEW n \in (-p)..(p - 1)
    PROVE  ((n + p) % m) - p = n
<1>1. n + p \in 0..(m - 1)
  OBVIOUS
<1>2. (n + p) % m = n + p
  BY <1>1, SmallModulo
<1> QED
  BY <1>2

LEMMA LeastIs ==
    ASSUME NEW lo \in Int, NEW hi \in Int, NEW n \in lo..hi
    PROVE  Least(lo, hi, n) = n
BY DEF Least

LEMMA PowersOf ==
    ASSUME NEW f \in Fields
    PROVE  /\ 2^(Struct[f].bits) \in Nat /\ 2^(Struct[f].bits - 1) \in Nat
           /\ 2^WordBits \in Nat /\ 2^(WordBits - 1) \in Nat
           /\ 2^(Struct[f].bits) = 2 * 2^(Struct[f].bits - 1)
           /\ 2^WordBits = 2 * 2^(WordBits - 1)
           /\ 0 < 2^(Struct[f].bits - 1) /\ 2^(Struct[f].bits - 1) <= 2^(WordBits - 1)
<1>1. Struct[f].bits \in 1..WordBits /\ WordBits \in 1..WordBits
  BY StructAssumption
<1> QED
  BY <1>1, PowersAssumption
\* A number that a field can hold is bound as it is.
LEMMA ScalarBound ==
    ASSUME NEW f \in Fields, NEW n \in Int, n # Word, InRange(f, n)
    PROVE  bindScalar(f, <<n>>) = n
<1> DEFINE text == <<n>>
<1>1. Len(text) = 1 /\ text[1] = n /\ IsNumber(text)
  BY DEF IsNumber
<1>2. Struct[f].kind \in Kinds
  BY StructAssumption
<1> DEFINE p == 2^(Struct[f].bits - 1)
           m == 2^(Struct[f].bits)
           wp == 2^(WordBits - 1)
           wm == 2^WordBits
<1>3. /\ m \in Nat /\ p \in Nat /\ wm \in Nat /\ wp \in Nat
      /\ m = 2 * p /\ wm = 2 * wp /\ 0 < p /\ p <= wp
  BY PowersOf
<1>4. CASE Struct[f].kind = "int"
  <2>1. n \in (-p)..(p - 1)
    BY <1>4 DEF InRange
  <2>2. bindScalar(f, text) = SetInt(GetInt64(text), Struct[f].bits)
    BY <1>4 DEF bindScalar
  <2>3. GetInt64(text) = Least(-wp, wp - 1, n)
    BY <1>1 DEF GetInt64
  <2>4. SetInt(n, Struct[f].bits) = ((n + p) % m) - p
    BY DEF SetInt
  <2> HIDE DEF p, m, wp, wm, text
  <2>5. -wp \in Int /\ wp - 1 \in Int /\ n \in (-wp)..(wp - 1)
    BY <1>3, <2>1
  <2>6. Least(-wp, wp - 1, n) = n
    BY <2>5, LeastIs
  <2>7. ((n + p) % m) - p = n
    BY <1>3, <2>1, SignedRange
  <2>8. bindScalar(f, text) = n
    BY <2>2, <2>3, <2>4, <2>6, <2>7
  <2> QED
    BY <2>8 DEF text
<1>5. CASE Struct[f].kind = "uint"
  <2>1. n \in 0..(m - 1)
    BY <1>5 DEF InRange
  <2>2. bindScalar(f, text) = SetUint(GetUint64(text), Struct[f].bits)
    BY <1>5 DEF bindScalar
  <2>3. n >= 0 => GetUint64(text) = Least(0, wm - 1, n)
    BY <1>1 DEF GetUint64
  <2>4. SetUint(n, Struct[f].bits) = n % m
    BY DEF SetUint
  <2> HIDE DEF p, m, wp, wm, text
  <2>5. wm - 1 \in Int /\ n \in 0..(wm - 1) /\ n >= 0
    BY <1>3, <2>1
  <2>6. Least(0, wm - 1, n) = n
    BY <2>5, LeastIs
  <2>7. n % m = n
    BY <1>3, <2>1, SmallModulo
  <2>8. bindScalar(f, text) = n
    BY <2>2, <2>3, <2>4, <2>5, <2>6, <2>7
  <2> QED
    BY <2>8 DEF text
<1>6. CASE Struct[f].kind = "bool"
  <2>1. n \in {0, 1}
    BY <1>6 DEF InRange
  <2>2. bindScalar(f, text) = GetBool(text)
    BY <1>6 DEF bindScalar
  <2>3. GetBool(text) = n
    BY <2>1 DEF GetBool
  <2> QED
    BY <2>2, <2>3
<1>7. CASE Struct[f].kind = "custom"
  BY <1>7 DEF bindScalar
<1> QED
  BY <1>2, <1>4, <1>5, <1>6, <1>7 DEF Kinds

LEMMA ValueBound ==
    ASSUME NEW f \in Fields, NEW text, IsText(text), Fits(f, text)
    PROVE  bindValue(f, text) = text
<1>1. text \in Seq(Int \cup {Word})
  BY DEF IsText
<1>2. ASSUME NEW i \in DOMAIN text
      PROVE  bindScalar(f, <<text[i]>>) = text[i]
  <2>1. text[i] # Word /\ InRange(f, text[i])
    BY DEF Fits
  <2>2. text[i] \in Int
    BY <1>1, <2>1
  <2> QED
    BY <2>1, <2>2, ScalarBound
<1>3. CASE Struct[f].shape = "slice"
  <2>1. bindValue(f, text) = [i \in DOMAIN text |-> bindScalar(f, <<text[i]>>)]
    BY <1>3 DEF bindValue
  <2>2. [i \in DOMAIN text |-> bindScalar(f, <<text[i]>>)] = [i \in DOMAIN text |-> text[i]]
    BY <1>2, Zenon
  <2>3. [i \in DOMAIN text |-> text[i]] = text
    BY <1>1
  <2> QED
    BY <2>1, <2>2, <2>3
<1>4. CASE Struct[f].shape # "slice"
  <2>1. Len(text) = 1
    BY <1>4 DEF Fits
  <2>2. text = <<text[1]>> /\ 1 \in DOMAIN text
    BY <1>1, <2>1
  <2>3. bindScalar(f, text) = text[1]
    BY <1>2, <2>2
  <2>4. bindValue(f, text) = <<bindScalar(f, text)>>
    BY <1>4 DEF bindValue
  <2> QED
    BY <2>2, <2>3, <2>4
<1> QED
  BY <1>3, <1>4

\* Zero is within the range of every field.
LEMMA ZeroFits ==
    ASSUME NEW f \in Fields, Struct[f].shape = "scalar"
    PROVE  IsText(<<0>>) /\ Fits(f, <<0>>)
<1>1. IsText(<<0>>)
  BY DEF IsText
<1>2. 0 # Word
  BY WordAssumption
<1>3. Struct[f].kind \in Kinds
  BY StructAssumption
<1> DEFINE p == 2^(Struct[f].bits - 1)
           m == 2^(Struct[f].bits)
<1>4. m \in Nat /\ p \in Nat /\ m = 2 * p /\ 0 < p
  BY PowersOf
<1>5. 0 \in (-p)..(p - 1) /\ 0 \in 0..(m - 1)
  <2> HIDE DEF p, m
  <2> QED
    BY <1>4
<1>6. InRange(f, 0)
  BY <1>3, <1>5 DEF InRange, Kinds
<1> DEFINE text == <<0>>
<1>7. Len(text) = 1 /\ \A i \in DOMAIN text : text[i] = 0
  OBVIOUS
<1> HIDE DEF text
<1>8. Fits(f, text)
  BY <1>2, <1>6, <1>7 DEF Fits
<1> QED
  BY <1>1, <1>8 DEF text
\* Where the value of a field comes from.
FromBody(in, f) == IF in.length # 0 /\ f \in DOMAIN in.json THEN in.json[f] ELSE Zero(f)

FromQuery(in, f) ==
    IF f \in Bound("query", in.query) THEN bindValue(f, in.query[f]) ELSE FromBody(in, f)

FromRest(in, f) ==
    IF f \in Bound("rest", in.rest) THEN bindValue(f, in.rest[f]) ELSE FromQuery(in, f)

LEMMA ParsedValue ==
    ASSUME NEW in, ParseRequest(in).ok, NEW f \in Fields
    PROVE  /\ ParseRequest(in).value[f] =
                IF FromRest(in, f) = Zero(f) /\ Struct[f].default # <<>>
                THEN bindValue(f, Struct[f].default) ELSE FromRest(in, f)
           /\ in.length # 0 /\ f \in DOMAIN in.json => Fits(f, in.json[f])
<1> DEFINE zero == [g \in Fields |-> Zero(g)]
           body == [g \in Fields |-> IF in.length # 0 /\ g \in DOMAIN in.json
                                     THEN in.json[g] ELSE zero[g]]
           query == Bind(body, "query", in.query)
           rest == Bind(query, "rest", in.rest)
           full == SetDefaults(rest)
           fails == \/ in.length # 0 /\ parseBodyFails(in)
                    \/ BindFails("query", in.query)
                    \/ BindFails("rest", in.rest)
           missing == \E g \in Fields : Struct[g].required /\ full[g] = Zero(g)
<1>1. ParseRequest(in) = IF fails THEN Failed
                         ELSE IF DefaultFails(rest) THEN FailedInside
                         ELSE IF missing THEN Failed ELSE Parsed(full)
  BY Zenon DEF ParseRequest
<1>2. body[f] = FromBody(in, f)
  BY DEF FromBody
<1>3. query[f] = FromQuery(in, f)
  <2> HIDE DEF body
  <2> QED
    BY <1>2 DEF Bind, FromQuery
<1>4. rest[f] = FromRest(in, f)
  <2> HIDE DEF query
  <2> QED
    BY <1>3 DEF Bind, FromRest
<1>5. full[f] = IF FromRest(in, f) = Zero(f) /\ Struct[f].default # <<>>
                THEN bindValue(f, Struct[f].default) ELSE FromRest(in, f)
  <2> HIDE DEF rest
  <2> QED
    BY <1>4 DEF SetDefaults
<1>6. ~fails /\ ParseRequest(in) = Parsed(full)
  <2>1. ~Failed.ok /\ ~FailedInside.ok
    BY DEF Failed, FailedInside
  <2> HIDE DEF fails, missing, rest, full
  <2> QED
    BY <1>1, <2>1, Zenon
<1>7. ParseRequest(in).value = full
  <2> HIDE DEF full
  <2> QED
    BY <1>6 DEF Parsed
<1> HIDE DEF full
<1>8. in.length # 0 /\ f \in DOMAIN in.json => Fits(f, in.json[f])
  BY <1>6, Zenon DEF parseBodyFails
<1> QED
  BY <1>5, <1>7, <1>8

LEMMA WrittenIs ==
    ASSUME NEW in, InputsOK(in), NEW f \in Fields,
           in.length # 0 /\ f \in DOMAIN in.json => Fits(f, in.json[f])
    PROVE  /\ Fits(f, Written(in, f)) /\ Written(in, f) # <<>> => FromRest(in, f) = Written(in, f)
           /\ Written(in, f) = <<>> => FromRest(in, f) = Zero(f)
<1> DEFINE text == Written(in, f)
<1>1. CASE f \in Bound("rest", in.rest)
  <2>1. text = in.rest[f] /\ FromRest(in, f) = bindValue(f, in.rest[f])
    BY <1>1 DEF Written, Given, FromRest
  <2>2. IsText(in.rest[f]) /\ in.rest[f] # <<>>
    BY <1>1 DEF InputsOK, Bound
  <2> QED
    BY <2>1, <2>2, ValueBound
<1>2. CASE f \notin Bound("rest", in.rest) /\ f \in Bound("query", in.query)
  <2>1. text = in.query[f] /\ FromRest(in, f) = bindValue(f, in.query[f])
    BY <1>2 DEF Written, Given, FromRest, FromQuery
  <2>2. IsText(in.query[f]) /\ in.query[f] # <<>>
    BY <1>2 DEF InputsOK, Bound
  <2> QED
    BY <2>1, <2>2, ValueBound
<1>3. CASE /\ f \notin Bound("rest", in.rest) /\ f \notin Bound("query", in.query)
           /\ in.length # 0 /\ f \in DOMAIN in.json
  <2>1. text = in.json[f] /\ FromRest(in, f) = in.json[f]
    BY <1>3 DEF Written, Given, FromRest, FromQuery, FromBody
  <2>2. ASSUME text = <<>> PROVE Zero(f) = <<>>
    <3>1. Fits(f, <<>>)
      BY <1>3, <2>1, <2>2
    <3>2. Len(<<>>) # 1
      OBVIOUS
    <3>3. Struct[f].shape = "slice"
      BY <3>1, <3>2 DEF Fits
    <3> QED
      BY <3>3 DEF Zero
  <2> QED
    BY <2>1, <2>2
<1>4. CASE /\ f \notin Bound("rest", in.rest) /\ f \notin Bound("query", in.query)
           /\ ~(in.length # 0 /\ f \in DOMAIN in.json)
  <2>1. text = <<>> /\ FromRest(in, f) = Zero(f)
    BY <1>4 DEF Written, Given, FromRest, FromQuery, FromBody
  <2> QED
    BY <2>1
<1> QED
  BY <1>1, <1>2, <1>3, <1>4

LEMMA FieldAsWritten ==
    ASSUME DefaultsFit, NEW in, InputsOK(in), ParseRequest(in).ok, NEW f \in Fields
    PROVE  AsWritten(in, f, ParseRequest(in).value[f])
<1> DEFINE text == Written(in, f)
           from == FromRest(in, f)
           value == ParseRequest(in).value[f]
           default == Struct[f].default
<1>1. value = IF from = Zero(f) /\ default # <<>> THEN bindValue(f, default) ELSE from
  BY ParsedValue, Zenon
<1>2. /\ Fits(f, text) /\ text # <<>> => from = text
      /\ text = <<>> => from = Zero(f)
  BY ParsedValue, WrittenIs, Zenon
<1>3. default # <<>> => bindValue(f, default) = default
  BY StructAssumption, ValueBound DEF DefaultsFit
<1>4. text = Zero(f) => from = Zero(f)
  <2>1. CASE Struct[f].shape = "scalar"
    <3>1. Zero(f) = <<0>> /\ <<0>> # <<>>
      BY <2>1 DEF Zero
    <3>2. Fits(f, <<0>>)
      BY <2>1, ZeroFits
    <3> QED
      BY <1>2, <3>1, <3>2
  <2>2. CASE Struct[f].shape # "scalar"
    <3>1. Zero(f) = <<>>
      BY <2>2 DEF Zero
    <3> QED
      BY <1>2, <3>1
  <2> QED
    BY <2>1, <2>2
<1> HIDE DEF from, value, default
<1>5. text # <<>> /\ text # Zero(f) /\ Fits(f, text) => value = text
  BY <1>1, <1>2
<1>6. text \in {<<>>, Zero(f)} => value = IF default # <<>> THEN default ELSE Zero(f)
  BY <1>1, <1>2, <1>3, <1>4
<1>7. AsWritten(in, f, value)
  BY <1>5, <1>6, Zenon DEF AsWritten, default
<1> QED
  BY <1>7, Zenon DEF value

LEMMA ParamsKnown ==
    ASSUME NEW s \in Scenarios, NEW r \in DOMAIN s.in
    PROVE  InputsOK(ParamsAt(s, r))
<1>1. RequestOK(s.in[r])
  BY SiteFacts
<1>2. InputsOK(s.in[r])
  BY <1>1, Zenon DEF RequestOK
<1> DEFINE in == s.in[r]
           out == [in EXCEPT !.rest = <<>>]
<1>3. DOMAIN in = {"method", "uri", "content", "length", "form", "nocache", "trace", "isJSON",
                   "syntax", "json", "query", "rest", "script"}
  BY <1>1, Zenon DEF RequestOK
<1>4. out.json = in.json /\ out.query = in.query /\ out.rest = <<>>
  BY <1>3
<1> HIDE DEF out, in
<1>5. DOMAIN <<>> = {}
  OBVIOUS
<1>6. InputsOK(out)
  <2> DEFINE none == out.rest
  <2>1. DOMAIN none = {} /\ InputsOK(in)
    BY <1>2, <1>4, <1>5 DEF in
  <2> QED
    BY <1>4, <2>1 DEF InputsOK
<1> QED
  BY <1>2, <1>6, Zenon DEF ParamsAt, in, out

LEMMA ParsedFollows ==
    ASSUME DefaultsFit
    PROVE  IInv => ParsedAsWritten
<1> SUFFICES ASSUME IInv, NEW r \in DOMAIN req, req[r].parsed.ok, NEW f \in Fields
             PROVE  AsWritten(ParamsOf(r), f, req[r].parsed.value[f])
  BY Zenon DEF ParsedAsWritten
<1>1. /\ site \in Scenarios /\ r \in DOMAIN site.in
      /\ req[r].parsed \in {Failed, ParseRequest(ParamsAt(site, r))}
  BY SoundNow, Zenon DEF Sound
<1>2. ParamsOf(r) = ParamsAt(site, r)
  BY Zenon DEF ParamsOf, ParamsAt, In
<1>3. InputsOK(ParamsAt(site, r))
  BY <1>1, ParamsKnown
<1>4. req[r].parsed = ParseRequest(ParamsAt(site, r))
  <2>1. ~Failed.ok
    BY DEF Failed
  <2> QED
    BY <1>1, <2>1, Zenon
<1>5. ParseRequest(ParamsAt(site, r)).ok
  BY <1>4, Zenon
<1>6. AsWritten(ParamsAt(site, r), f, ParseRequest(ParamsAt(site, r)).value[f])
  BY <1>3, <1>5, FieldAsWritten, Zenon
<1> QED
  BY <1>2, <1>4, <1>6, Zenon

\* What a handler gets from ParseRequest is what the strongest source wrote,
\* or the default, for every struct, every word size and every input.
THEOREM RequestsAreParsedAsWritten ==
    ASSUME DefaultsFit
    PROVE  Spec => []ParsedAsWritten
<1>1. IInv => ParsedAsWritten
  BY ParsedFollows
<1> QED
  BY <1>1, Invariance, PTL

(***************************************************************************)
(* The lines that go out through the loggers of the requests: the context  *)
(* of a logger is whole fields, the id of its request first when TraceId   *)
(* is the first layer                                                      *)
(***************************************************************************)
TracedFirst == Has("TraceId") /\ Layer(1) = "TraceId"
WholeFields == {calls \in Seq(TokenCalls) : FieldsOK(calls)}

Contexts(r) ==
    {calls \in WholeFields : TracedFirst => \E more \in Seq(TokenCalls) : calls = <<TraceField(r)>> \o more}

Holding(calls) == [enc |-> With(NewEncoder, calls), calls |-> calls]
Loggers(r) == {Holding(calls) : calls \in Contexts(r)}
Lines(r) == {Line(Holding(calls), more) : calls \in Contexts(r), more \in WholeFields}

LogInv ==
    \A r \in DOMAIN req :
        /\ req[r].ip # 1 => req[r].logger \in Loggers(r)
        /\ req[r].lines \in Seq(Lines(r))

LEMMA TraceIsField ==
    ASSUME NEW r, site \in Scenarios, r \in DOMAIN site.in
    PROVE  /\ TraceField(r) \in TokenCalls
           /\ TraceField(r).op = "string" /\ TraceField(r).key = <<"trace_id">>
           /\ TraceField(r).val = <<In(r).trace>>
           /\ TraceField(r).key # <<>>
<1>1. In(r).trace \in STRING
  BY SiteFacts DEF RequestOK, In
<1>2. "trace_id" \in Char /\ In(r).trace \in Char
  BY <1>1, Zenon DEF Char
<1>3. <<"trace_id">> \in Tokens /\ <<In(r).trace>> \in Tokens
  BY <1>2, OneOf, Zenon DEF Tokens
<1> QED
  BY <1>3 DEF TraceField, TokenCalls

\* The logger of the router, and of a layer below TraceId.
LEMMA LoggerIn ==
    ASSUME NEW r, site \in Scenarios, r \in DOMAIN site.in, NEW i \in Nat, TracedFirst => i > 1
    PROVE  Logger(r, i) \in Loggers(r)
<1> DEFINE below == \E j \in 1..(i - 1) : Layer(j) = "TraceId"
           f == TraceField(r)
           none == <<>>
<1>1. f \in TokenCalls /\ f.op = "string" /\ f.key # <<>>
  BY TraceIsField
<1>2. TracedFirst => below
  <2>1. TracedFirst => 1 \in 1..(i - 1)
    OBVIOUS
  <2> QED
    BY <2>1 DEF TracedFirst
<1>3. Logger(r, i) = Holding(IF below THEN <<f>> ELSE none)
  BY DEF Logger, Holding
<1> HIDE DEF below, f
<1>4. CASE below
  <2>1. <<f>> \in Seq(TokenCalls) /\ FieldsOK(<<f>>) /\ <<f>> \o none = <<f>> /\ none \in Seq(TokenCalls)
    BY <1>1, OneField
  <2>2. <<f>> \in Contexts(r)
    BY <2>1, Zenon DEF Contexts, WholeFields, f
  <2> QED
    BY <1>3, <1>4, <2>2 DEF Loggers
<1>5. CASE ~below
  <2>1. none \in Seq(TokenCalls) /\ FieldsOK(none)
    BY NoFields
  <2>2. none \in Contexts(r)
    BY <1>2, <1>5, <2>1, Zenon DEF Contexts, WholeFields
  <2> QED
    BY <1>3, <1>5, <2>2 DEF Loggers
<1> QED
  BY <1>4, <1>5

\* log.With: more is added to the context.
LEMMA MoreContext ==
    ASSUME NEW r, site \in Scenarios, r \in DOMAIN site.in,
           NEW calls \in Contexts(r), NEW more \in WholeFields
    PROVE  /\ calls \o more \in Contexts(r)
           /\ With(Holding(calls).enc, more) = Holding(calls \o more).enc
<1>1. calls \in Seq(TokenCalls) /\ more \in Seq(TokenCalls) /\ FieldsOK(calls) /\ FieldsOK(more)
  BY DEF Contexts, WholeFields
<1>2. calls \o more \in Seq(TokenCalls) /\ FieldsOK(calls \o more)
  BY <1>1, FieldsMore
<1>3. ASSUME TracedFirst
      PROVE  \E c \in Seq(TokenCalls) : calls \o more = <<TraceField(r)>> \o c
  <2>1. PICK c \in Seq(TokenCalls) : calls = <<TraceField(r)>> \o c
    BY <1>3 DEF Contexts
  <2> DEFINE f == <<TraceField(r)>>
  <2>2. f \in Seq(TokenCalls)
    BY TraceIsField
  <2> HIDE DEF f
  <2>3. (f \o c) \o more = f \o (c \o more) /\ c \o more \in Seq(TokenCalls)
    BY <1>1, <2>1, <2>2, ConcatAssociative, ConcatProperties
  <2> QED
    BY <2>1, <2>3 DEF f
<1>4. With(With(NewEncoder, calls), more) = With(NewEncoder, calls \o more)
  BY <1>1, AddMore DEF With
<1> QED
  BY <1>2, <1>3, <1>4 DEF Contexts, WholeFields, Holding

\* What LinesSayWhatWasLogged asks of a line of request r.
LEMMA LineIsSaid ==
    ASSUME NEW r, site \in Scenarios, r \in DOMAIN site.in, NEW line \in Lines(r)
    PROVE  /\ NamespaceInside(line.calls) \/ SaysWhatWasLogged(line.text, line.calls)
           /\ TracedFirst =>
                 \E s \in Range(Read(line.text).seen) : s[2] = <<"trace_id">> /\ s[3] = <<In(r).trace>>
<1>1. PICK calls \in Contexts(r), more \in WholeFields : line = Line(Holding(calls), more)
  BY DEF Lines
<1> DEFINE all == calls \o more
<1>2. calls \in Seq(TokenCalls) /\ more \in Seq(TokenCalls)
  BY DEF Contexts, WholeFields
<1>3. line.calls = all /\ line.text = EncodeEntry(addFields(NewEncoder, calls), more)
  BY <1>1 DEF Line, Holding, With
<1>4. line.text = Ended(addFields(BeginLine, all))
  BY <1>2, <1>3, EntryText
<1>5. all \in Contexts(r)
  BY MoreContext
<1>6. NamespaceInside(all) \/ SaysWhatWasLogged(line.text, all)
  <2>1. all \in Seq(TokenCalls) /\ FieldsOK(all)
    BY <1>5 DEF Contexts, WholeFields
  <2> HIDE DEF all
  <2> QED
    BY <1>4, <2>1, LineSays
<1>7. ASSUME TracedFirst
      PROVE  \E s \in Range(Read(line.text).seen) : s[2] = <<"trace_id">> /\ s[3] = <<In(r).trace>>
  <2>1. PICK c \in Seq(TokenCalls) : all = <<TraceField(r)>> \o c
    BY <1>5, <1>7 DEF Contexts
  <2> DEFINE f == TraceField(r)
  <2>2. f \in TokenCalls /\ f.op = "string" /\ f.key # <<>> /\ f.key = <<"trace_id">> /\ f.val = <<In(r).trace>>
    BY TraceIsField
  <2>3. line.text = Ended(addFields(BeginLine, <<f>> \o c))
    BY <1>4, <2>1
  <2> HIDE DEF f
  <2>4. \E s \in Range(Read(line.text).seen) : s[2] = f.key /\ s[3] = f.val
    BY <2>2, <2>3, FirstIsSaid
  <2> QED
    BY <2>2, <2>4
<1> QED
  BY <1>3, <1>6, <1>7

\* What a step may do to the log of a request: its logger and what it wrote.
Moves(r, q, q2) ==
    /\ (q2.ip = q.ip /\ q2.logger = q.logger) \/ q2.logger \in Loggers(r)
    /\ q2.lines = q.lines \/ \E line \in Lines(r) : q2.lines = Append(q.lines, line)

LEMMA SameLoggers ==
    ASSUME site' = site, NEW r
    PROVE  Loggers(r)' = Loggers(r) /\ Lines(r)' = Lines(r)
BY DEF Loggers, Lines, Contexts, TracedFirst, Has, Layer, TraceField, In

LEMMA SameLogs ==
    ASSUME LogInv, site' = site, req' = req
    PROVE  LogInv'
BY SameLoggers DEF LogInv

LEMMA LogStep ==
    ASSUME IInv, LogInv, NEW r \in DOMAIN req, NEW q2, Goes(r, q2), Moves(r, req[r], q2)
    PROVE  LogInv'
<1>1. site' = site /\ req' = [req EXCEPT ![r] = q2] /\ DOMAIN req' = DOMAIN req
  BY DEF Goes
<1>2. ASSUME NEW p PROVE Loggers(p)' = Loggers(p) /\ Lines(p)' = Lines(p)
  BY <1>1, SameLoggers
<1>3. ASSUME NEW p \in DOMAIN req
      PROVE  /\ req'[p].ip # 1 => req'[p].logger \in Loggers(p)
             /\ req'[p].lines \in Seq(Lines(p))
  <2>1. CASE p = r
    <3>1. req'[p] = q2
      BY <1>1, <2>1
    <3>2. q2.ip # 1 => q2.logger \in Loggers(r)
      BY DEF LogInv, Moves
    <3>3. req[r].lines \in Seq(Lines(r))
      BY DEF LogInv
    <3>4. \A line \in Lines(r) : Append(req[r].lines, line) \in Seq(Lines(r))
      BY <3>3, AppendProperties
    <3>5. q2.lines \in Seq(Lines(r))
      BY <3>3, <3>4 DEF Moves
    <3> QED
      BY <2>1, <3>1, <3>2, <3>5
  <2>2. CASE p # r
    <3>1. req'[p] = req[p]
      BY <1>1, <2>2
    <3> QED
      BY <3>1 DEF LogInv
  <2> QED
    BY <2>1, <2>2
<1>4. \A p \in DOMAIN req : /\ req'[p].ip # 1 => req'[p].logger \in Loggers(p)'
                            /\ req'[p].lines \in Seq(Lines(p)')
  BY <1>2, <1>3
<1> QED
  BY <1>1, <1>4 DEF LogInv

\* A call of the handler, whose request is q1 but for the count of the calls.
Called(r, q1, q2) == q2 = NextCall(q1) \/ q2 = LastCall(r, q1)

SameLog(q, q1) == DOMAIN q1 = Keys /\ q1.logger = q.logger /\ q1.lines = q.lines

\* A line through the logger of the request.
LogsOne(q, q1, calls) ==
    DOMAIN q1 = Keys /\ q1.logger = q.logger /\ q1.lines = Append(q.lines, Line(q.logger, calls))

LEMMA BegunLog ==
    ASSUME IInv, LogInv, NEW r \in DOMAIN req
    PROVE  /\ SameBut(req[r], Begun(r), {"logger"}) /\ DOMAIN Begun(r) = Keys
           /\ Begun(r).logger \in Loggers(r) /\ Begun(r).lines = req[r].lines
<1>1. /\ site \in Scenarios /\ r \in DOMAIN site.in /\ site.chain \in Seq(Middlewares)
      /\ DOMAIN req[r] = Keys
  BY Context
<1>2. SameBut(req[r], Begun(r), {"logger"}) /\ DOMAIN Begun(r) = Keys
  BY <1>1, BegunFields
<1>3. HandlerAt \in Nat /\ (TracedFirst => HandlerAt > 1)
  <2>1. Len(site.chain) \in Nat /\ DOMAIN site.chain = 1..Len(site.chain)
    BY <1>1, LenProperties
  <2>2. TracedFirst => Len(site.chain) > 0
    BY <2>1 DEF TracedFirst, Has, Range
  <2> QED
    BY <2>1, <2>2 DEF HandlerAt
<1>4. Logger(r, HandlerAt) \in Loggers(r)
  BY <1>1, <1>3, LoggerIn
<1>5. CASE req[r].ip = 1
  <2>1. Begun(r).logger = Logger(r, HandlerAt)
    BY <1>1, <1>5 DEF Begun, Keys
  <2> QED
    BY <1>2, <1>4, <2>1 DEF SameBut, Keys
<1>6. CASE req[r].ip # 1
  <2>1. Begun(r) = req[r]
    BY <1>6 DEF Begun
  <2> QED
    BY <1>2, <1>6, <2>1 DEF LogInv
<1> QED
  BY <1>5, <1>6

LEMMA LineIn ==
    ASSUME NEW r, NEW logger \in Loggers(r), NEW calls \in WholeFields
    PROVE  Line(logger, calls) \in Lines(r)
BY DEF Loggers, Lines

LEMMA NothingMore == <<>> \in WholeFields
BY NoFields, EmptySeq DEF WholeFields

\* Every call of a handler but log.With.
LEMMA CallLogs ==
    ASSUME IInv, LogInv, NEW r \in DOMAIN req, NEW q1, NEW calls \in WholeFields,
           SameLog(Begun(r), q1) \/ LogsOne(Begun(r), q1, calls),
           NEW q2, Called(r, q1, q2), Acts(r, q2)
    PROVE  LogInv'
<1> DEFINE q0 == Begun(r)
<1>1. q0.logger \in Loggers(r) /\ q0.lines = req[r].lines
  BY BegunLog
<1>2. /\ DOMAIN q1 = Keys /\ q1.logger = q0.logger
      /\ (q1.lines = q0.lines \/ q1.lines = Append(q0.lines, Line(q0.logger, calls)))
  BY DEF SameLog, LogsOne
<1>3. Line(q0.logger, calls) \in Lines(r)
  BY <1>1, LineIn
<1> HIDE DEF q0
<1>4. q2.logger = q1.logger /\ q2.lines = q1.lines
  BY <1>2 DEF Called, NextCall, LastCall, Keys
<1>5. Moves(r, req[r], q2)
  BY <1>1, <1>2, <1>3, <1>4 DEF Moves
<1> QED
  BY <1>5, LogStep DEF Acts

LEMMA ParsesLogs ==
    ASSUME IInv, LogInv, NEW r \in DOMAIN req, Parses(r)
    PROVE  LogInv'
<1> DEFINE q0 == Begun(r)
           parsed == ParseRequest(ParamsOf(r))
           qp == [q0 EXCEPT !.parsed = parsed]
           qw == [q0 EXCEPT !.w = Error(r, @, ParseError(parsed))]
           ql == Logs(qw, q0.logger, <<>>)
<1>1. Acts(r, IF parsed.ok THEN NextCall(qp) ELSE LastCall(r, ql))
  BY DEF Parses
<1>2. DOMAIN q0 = Keys
  BY BegunLog
<1>3. SameLog(q0, qp)
  BY <1>2 DEF SameLog, Keys
<1>4. SameLog(q0, qw)
  BY <1>2 DEF SameLog, Keys
<1> HIDE DEF q0, parsed, qp, qw
<1>5. LogsOne(q0, ql, <<>>)
  BY <1>4 DEF LogsOne, SameLog, Logs, Keys
<1> HIDE DEF ql
<1>6. PICK q1 : /\ SameLog(q0, q1) \/ LogsOne(q0, q1, <<>>)
                /\ \E q2 : Called(r, q1, q2) /\ Acts(r, q2)
  BY <1>1, <1>3, <1>5 DEF Called
<1> QED
  BY <1>6, NothingMore, CallLogs DEF q0

LEMMA OksLogs ==
    ASSUME IInv, LogInv, NEW r \in DOMAIN req, Oks(r)
    PROVE  LogInv'
<1> DEFINE q0 == Begun(r)
           qw == [q0 EXCEPT !.w = WriteJson(r, @, [errno |-> Code(ErrSuccess), data |-> TRUE])]
           ql == Logs(q0, q0.logger, <<>>)
<1>1. Acts(r, NextCall(IF Call(r).arg = Unencodable THEN ql ELSE qw))
  BY DEF Oks
<1>2. DOMAIN q0 = Keys
  BY BegunLog
<1>3. SameLog(q0, qw)
  BY <1>2 DEF SameLog, Keys
<1> HIDE DEF q0, qw
<1>4. LogsOne(q0, ql, <<>>)
  BY <1>2 DEF LogsOne, Logs, Keys
<1> HIDE DEF ql
<1>5. PICK q1 : /\ SameLog(q0, q1) \/ LogsOne(q0, q1, <<>>)
                /\ \E q2 : Called(r, q1, q2) /\ Acts(r, q2)
  BY <1>1, <1>3, <1>4 DEF Called
<1> QED
  BY <1>5, NothingMore, CallLogs DEF q0

LEMMA FailsLogs ==
    ASSUME IInv, LogInv, NEW r \in DOMAIN req, Fails(r) \/ GivesUp(r)
    PROVE  LogInv'
<1> DEFINE q0 == Begun(r)
<1>1. PICK u : Acts(r, LastCall(r, [q0 EXCEPT !.w = u]))
  <2>1. CASE Fails(r)
    BY <2>1 DEF Fails
  <2>2. CASE GivesUp(r)
    BY <2>2 DEF GivesUp
  <2> QED
    BY <2>1, <2>2
<1> DEFINE q1 == [q0 EXCEPT !.w = u]
<1>2. DOMAIN q0 = Keys
  BY BegunLog
<1>3. SameLog(q0, q1)
  BY <1>2 DEF SameLog, Keys
<1> HIDE DEF q1
<1>4. Called(r, q1, LastCall(r, q1)) /\ Acts(r, LastCall(r, q1))
  BY <1>1 DEF Called, q1
<1> QED
  BY <1>3, <1>4, NothingMore, CallLogs

LEMMA WritesLogs ==
    ASSUME IInv, LogInv, NEW r \in DOMAIN req, Writes(r) \/ Reuses(r)
    PROVE  LogInv'
<1> DEFINE q0 == Begun(r)
<1>1. PICK u : Acts(r, NextCall([q0 EXCEPT !.w = u]))
  <2>1. CASE Reuses(r)
    BY <2>1 DEF Reuses
  <2>2. CASE Writes(r)
    BY <2>2 DEF Writes
  <2> QED
    BY <2>1, <2>2
<1> DEFINE q1 == [q0 EXCEPT !.w = u]
<1>2. DOMAIN q0 = Keys
  BY BegunLog
<1>3. SameLog(q0, q1)
  BY <1>2 DEF SameLog, Keys
<1> HIDE DEF q1
<1>4. Called(r, q1, NextCall(q1)) /\ Acts(r, NextCall(q1))
  BY <1>1 DEF Called, q1
<1> QED
  BY <1>3, <1>4, NothingMore, CallLogs

LEMMA WaitsLogs ==
    ASSUME IInv, LogInv, NEW r \in DOMAIN req, BackendAnswers(r)
    PROVE  LogInv'
<1> DEFINE q0 == Begun(r)
<1>1. Acts(r, NextCall(q0))
  BY DEF BackendAnswers
<1>2. SameLog(q0, q0)
  BY BegunLog DEF SameLog
<1> HIDE DEF q0
<1>3. Called(r, q0, NextCall(q0))
  BY DEF Called
<1> QED
  BY <1>1, <1>2, <1>3, NothingMore, CallLogs DEF q0

\* The fields of a call of With or of the logger.
LEMMA ArgumentIsFields ==
    ASSUME IInv, NEW r \in DOMAIN req, NEW op \in {"with", "log"}, Handling(r, op)
    PROVE  Call(r).arg \in WholeFields
<1>1. Call(r).op = op /\ Call(r) \in Range(site.in[r].script) /\ RequestOK(site.in[r])
  BY AtCall, Context
<1>2. Call(r).arg \in Seq(Calls) /\ FieldsOK(Call(r).arg)
  BY <1>1 DEF RequestOK
<1> QED
  BY <1>2, CallsOfStrings DEF WholeFields

LEMMA LogsFieldsLogs ==
    ASSUME IInv, LogInv, NEW r \in DOMAIN req, LogsFields(r)
    PROVE  LogInv'
<1> DEFINE q0 == Begun(r)
           arg == Call(r).arg
           logger == [enc |-> With(q0.logger.enc, arg), calls |-> q0.logger.calls \o arg]
           qw == [q0 EXCEPT !.logger = logger]
           ql == Logs(q0, q0.logger, arg)
<1>1. \/ Handling(r, "with") /\ Acts(r, NextCall(qw))
      \/ Handling(r, "log") /\ Acts(r, NextCall(ql))
  BY DEF LogsFields
<1>2. /\ DOMAIN q0 = Keys /\ q0.logger \in Loggers(r) /\ q0.lines = req[r].lines
      /\ site \in Scenarios /\ r \in DOMAIN site.in
  BY BegunLog, Context
<1>3. arg \in WholeFields
  BY <1>1, ArgumentIsFields
<1>4. CASE Handling(r, "log") /\ Acts(r, NextCall(ql))
  <2> HIDE DEF arg
  <2>1. LogsOne(q0, ql, arg)
    BY <1>2 DEF LogsOne, Logs, Keys
  <2> HIDE DEF ql
  <2>2. Called(r, ql, NextCall(ql))
    BY DEF Called
  <2> QED
    BY <1>3, <1>4, <2>1, <2>2, CallLogs
<1>5. CASE Handling(r, "with") /\ Acts(r, NextCall(qw))
  <2> HIDE DEF q0, arg
  <2>1. PICK calls \in Contexts(r) : q0.logger = Holding(calls)
    BY <1>2 DEF Loggers
  <2>2. calls \o arg \in Contexts(r) /\ With(Holding(calls).enc, arg) = Holding(calls \o arg).enc
    BY <1>2, <1>3, MoreContext
  <2>3. logger = Holding(calls \o arg)
    BY <2>1, <2>2 DEF Holding
  <2>4. logger \in Loggers(r)
    BY <2>2, <2>3 DEF Loggers
  <2> HIDE DEF logger
  <2> DEFINE q2 == NextCall(qw)
  <2>5. q2.logger = logger /\ q2.lines = q0.lines
    BY <1>2 DEF NextCall, Keys
  <2>6. Goes(r, q2)
    BY <1>5 DEF Acts
  <2> HIDE DEF q2
  <2>7. Moves(r, req[r], q2)
    BY <1>2, <2>4, <2>5 DEF Moves
  <2> QED
    BY <2>6, <2>7, LogStep
<1> QED
  BY <1>1, <1>4, <1>5

LEMMA PanicsLogs ==
    ASSUME IInv, LogInv, NEW r \in DOMAIN req, Panics(r)
    PROVE  LogInv'
<1> DEFINE q0 == Begun(r)
           q1 == LastCall(r, q0)
           q2 == Higher([q1 EXCEPT !.pc = "up", !.panicking = TRUE, !.panicked = TRUE])
<1>1. Goes(r, q2)
  BY DEF Panics, Acts
<1>2. DOMAIN q0 = Keys /\ q0.logger \in Loggers(r) /\ q0.lines = req[r].lines
  BY BegunLog
<1> HIDE DEF q0
<1>3. DOMAIN q1 = Keys /\ q1.logger = q0.logger /\ q1.lines = q0.lines
  BY <1>2 DEF LastCall, Keys
<1> HIDE DEF q1
<1>4. q2.logger = q1.logger /\ q2.lines = q1.lines
  BY <1>3 DEF Higher, Keys
<1> HIDE DEF q2
<1>5. Moves(r, req[r], q2)
  BY <1>2, <1>3, <1>4 DEF Moves
<1> QED
  BY <1>1, <1>5, LogStep

\* A step of kate that writes a line, with no field, at layer i.
LEMMA LayerLogs ==
    ASSUME IInv, LogInv, NEW r \in DOMAIN req, NEW i \in Nat, TracedFirst => i > 1,
           NEW q1, SameLog(req[r], q1), q1.ip = req[r].ip,
           NEW q2, q2 = Logs(q1, Logger(r, i), <<>>),
           NEW q3, q3 = q2 \/ q3 = Higher(q2), Goes(r, q3)
    PROVE  LogInv'
<1> DEFINE line == Line(Logger(r, i), <<>>)
<1>1. site \in Scenarios /\ r \in DOMAIN site.in
  BY Context
<1>2. Logger(r, i) \in Loggers(r)
  BY <1>1, LoggerIn
<1>3. line \in Lines(r)
  BY <1>2, LineIn, NothingMore
<1>4. /\ DOMAIN q2 = Keys /\ q2.ip = q1.ip /\ q2.logger = q1.logger
      /\ q2.lines = Append(q1.lines, line)
  <2> HIDE DEF line
  <2> QED
    BY DEF Logs, SameLog, Keys, line
<1> HIDE DEF line
<1>5. q3.ip = q2.ip /\ q3.logger = q2.logger /\ q3.lines = q2.lines
  BY <1>4 DEF Higher, Keys
<1>6. Moves(r, req[r], q3)
  BY <1>3, <1>4, <1>5 DEF Moves, SameLog
<1> QED
  BY <1>6, LogStep

\* TraceId being the first layer, another one is below it.
LEMMA BelowTraceId ==
    ASSUME IInv, NEW r \in DOMAIN req, NEW layer, layer # "TraceId",
           Down(r, layer) \/ Up(r, layer)
    PROVE  req[r].at \in Nat /\ (TracedFirst => req[r].at > 1)
<1>1. req[r].at \in 0..HandlerAt /\ (req[r].pc = "down" => req[r].at # 0) /\ HandlerAt \in Nat
  <2>1. Sound(site, r, req[r]) /\ req[r].at \in 0..HandlerAt /\ site.chain \in Seq(Middlewares)
    BY Context
  <2> QED
    BY <2>1 DEF Sound, Control, HandlerAt
<1>2. req[r].at \in Nat /\ req[r].at > 0 /\ Layer(req[r].at) = layer
  BY <1>1 DEF Down, Up
<1>3. TracedFirst => Layer(1) # layer
  BY DEF TracedFirst
<1> QED
  BY <1>2, <1>3

LEMMA CachedHitLogs ==
    ASSUME IInv, LogInv, NEW r \in DOMAIN req, CachedHit(r)
    PROVE  LogInv'
<1> DEFINE q == req[r]
           cors == Wrapped(q.at)
           w == WriteHeader(q.w, cors, 200)
           e == cache[Found(r)]
           u == Write([w EXCEPT !.header = AddHeaders(@, e.header)], cors, e.body)
           q1 == [q EXCEPT !.pc = "up", !.at = @ - 1, !.hit = <<e>>, !.w = u]
           q2 == Logs(q1, Logger(r, q.at), <<>>)
<1>1. Down(r, "Cached") /\ Goes(r, q2)
  BY DEF CachedHit
<1>2. DOMAIN q = Keys
  BY Context
<1>3. q.at \in Nat /\ (TracedFirst => q.at > 1)
  BY <1>1, BelowTraceId
<1> HIDE DEF q, e, u
<1>4. SameLog(q, q1) /\ q1.ip = q.ip
  BY <1>2 DEF SameLog, Keys
<1> HIDE DEF q1
<1> QED
  BY <1>1, <1>3, <1>4, LayerLogs DEF q

LEMMA RecoversLogs ==
    ASSUME IInv, LogInv, NEW r \in DOMAIN req, Recovers(r)
    PROVE  LogInv'
<1> DEFINE q == req[r]
           cors == Wrapped(q.at)
           u == Write(WriteHeader(q.w, cors, 500), cors, <<Text(r)>>)
           q1 == [q EXCEPT !.panicking = FALSE, !.w = u]
           q2 == Logs(q1, Logger(r, q.at), <<>>)
           q3 == Higher(q2)
<1>1. Up(r, "Recovery") /\ Goes(r, q3)
  BY DEF Recovers, Acts
<1>2. DOMAIN q = Keys
  BY Context
<1>3. q.at \in Nat /\ (TracedFirst => q.at > 1)
  BY <1>1, BelowTraceId
<1> HIDE DEF q, u
<1>4. SameLog(q, q1) /\ q1.ip = q.ip
  BY <1>2 DEF SameLog, Keys
<1> HIDE DEF q1
<1> QED
  BY <1>1, <1>3, <1>4, LayerLogs DEF q

\* The steps that log nothing through the logger of the request.
LEMMA QuietLogs ==
    ASSUME IInv, LogInv, NEW r \in DOMAIN req,
           \/ Arrives(r) \/ Leaves(r) \/ TraceId(r) \/ Enters(r) \/ CachedMiss(r) \/ CachedAdds(r)
           \/ HandlerReturns(r) \/ Returns(r) \/ LoggingFinished(r) \/ Unwinds(r) \/ Deadline(r)
    PROVE  LogInv'
<1> DEFINE q == req[r]
           Silent(q2) == q2.ip = q.ip /\ q2.logger = q.logger /\ q2.lines = q.lines
<1>1. DOMAIN q = Keys
  BY Context
<1> HIDE DEF q
<1>2. \A p : DOMAIN p = Keys =>
         Higher(p).ip = p.ip /\ Higher(p).logger = p.logger /\ Higher(p).lines = p.lines
  BY DEF Higher, Keys
<1>3. Silent(Deeper(q)) /\ Silent(Higher(q))
  BY <1>1 DEF Deeper, Higher, Keys
<1>4. ASSUME NEW u PROVE Silent(Quits(q, u))
  BY <1>1 DEF Quits, Keys
<1>5. PICK q2 : Goes(r, q2) /\ Silent(q2)
  <2>1. CASE Arrives(r)
    <3>1. Silent([q EXCEPT !.pc = "down", !.at = 1])
      BY <1>1 DEF Keys
    <3> HIDE DEF Silent
    <3>2. Goes(r, [q EXCEPT !.pc = "down", !.at = 1]) \/ \E u : Goes(r, Quits(q, u))
      BY <2>1 DEF Arrives, q
    <3> QED
      BY <1>4, <3>1, <3>2
  <2>2. CASE Leaves(r)
    <3> HIDE DEF Silent
    <3>1. \E u : Goes(r, Quits(q, u))
      BY <2>2 DEF Leaves, q
    <3> QED
      BY <1>4, <3>1
  <2>3. CASE TraceId(r)
    <3> DEFINE q1 == [q EXCEPT !.w.header.trace = In(r).trace]
    <3>1. DOMAIN q1 = Keys /\ Silent(q1)
      BY <1>1 DEF Keys
    <3>2. Goes(r, Deeper(q1))
      BY <2>3 DEF TraceId, q
    <3> HIDE DEF q1
    <3>3. Silent(Deeper(q1))
      BY <3>1 DEF Deeper, Keys
    <3> QED
      BY <3>2, <3>3
  <2>4. CASE Enters(r) \/ CachedMiss(r)
    <3>1. Goes(r, Deeper(q))
      BY <2>4 DEF Enters, CachedMiss, q
    <3> QED
      BY <1>3, <3>1
  <2>5. CASE CachedAdds(r) \/ Returns(r) \/ Unwinds(r)
    <3>1. Goes(r, Higher(q))
      BY <2>5 DEF CachedAdds, Returns, Unwinds, Acts, q
    <3> QED
      BY <1>3, <3>1
  <2>6. CASE HandlerReturns(r)
    <3> DEFINE q1 == [q EXCEPT !.pc = "up", !.handled = TRUE]
    <3>1. DOMAIN q1 = Keys /\ Silent(q1)
      BY <1>1 DEF Keys
    <3>2. Goes(r, Higher(q1))
      BY <2>6 DEF HandlerReturns, Acts, q
    <3> HIDE DEF q1
    <3> QED
      BY <1>2, <3>1, <3>2
  <2>7. CASE LoggingFinished(r)
    <3> DEFINE q1 == [q EXCEPT !.logged = <<q.w.statusCode, q.w.rawBody>>]
    <3>1. DOMAIN q1 = Keys /\ Silent(q1)
      BY <1>1 DEF Keys
    <3>2. Goes(r, Higher(q1))
      BY <2>7 DEF LoggingFinished, Acts, q
    <3> HIDE DEF q1
    <3> QED
      BY <1>2, <3>1, <3>2
  <2>8. CASE Deadline(r)
    <3> DEFINE q1 == [q EXCEPT !.late = TRUE]
    <3>1. Silent(q1)
      BY <1>1 DEF Keys
    <3>2. Goes(r, q1)
      BY <2>8 DEF Deadline, q
    <3> QED
      BY <3>1, <3>2
  <2> QED
    BY <2>1, <2>2, <2>3, <2>4, <2>5, <2>6, <2>7, <2>8
<1>6. Moves(r, q, q2)
  BY <1>5 DEF Moves
<1> QED
  BY <1>5, <1>6, LogStep DEF q

LEMMA LogNext ==
    ASSUME IInv, LogInv, Next
    PROVE  LogInv'
<1>1. CASE Registers \/ Serves \/ (\E n \in site.limits : SetMaxBodyBytes(n)) \/ (\E i \in 1..CacheSize : Expires(i))
  <2>1. site' = site /\ req' = req
    BY <1>1 DEF Registers, Serves, SetMaxBodyBytes, Expires
  <2> QED
    BY <2>1, SameLogs
<1>2. ASSUME NEW r \in DOMAIN req, Arrives(r) \/ Proceeds(r) \/ Deadline(r) \/ BackendAnswers(r)
      PROVE  LogInv'
  <2>1. CASE Arrives(r) \/ Deadline(r) \/ BackendAnswers(r)
    BY <2>1, QuietLogs, WaitsLogs
  <2>2. CASE Leaves(r) \/ TraceId(r) \/ Enters(r) \/ CachedSteps(r)
    BY <2>2, QuietLogs, CachedHitLogs DEF CachedSteps
  <2>3. CASE Parses(r) \/ Oks(r) \/ Fails(r) \/ Writes(r) \/ Reuses(r) \/ LogsFields(r)
    BY <2>3, ParsesLogs, OksLogs, FailsLogs, WritesLogs, LogsFieldsLogs
  <2>4. CASE GivesUp(r) \/ Panics(r) \/ HandlerReturns(r)
    BY <2>4, FailsLogs, PanicsLogs, QuietLogs
  <2>5. CASE Returns(r) \/ LoggingFinished(r) \/ Unwinds(r) \/ Recovers(r)
    BY <2>5, QuietLogs, RecoversLogs
  <2> QED
    BY <1>2, <2>1, <2>2, <2>3, <2>4, <2>5 DEF Proceeds
<1> QED
  BY <1>1, <1>2 DEF Next

LEMMA LogInit ==
    ASSUME Init
    PROVE  LogInv
<1>1. \A r \in DOMAIN req : req[r] = NewRequest
  BY Zenon DEF Init
<1>2. NewRequest.ip = 1 /\ NewRequest.lines = <<>>
  BY DEF NewRequest
<1>3. \A S : <<>> \in Seq(S)
  BY EmptySeq
<1> QED
  BY <1>1, <1>2, <1>3 DEF LogInv

LEMMA LinesFollow ==
    ASSUME IInv, LogInv
    PROVE  LinesSayWhatWasLogged
<1>1. ASSUME NEW r \in DOMAIN req, NEW line \in Range(req[r].lines)
      PROVE  /\ NamespaceInside(line.calls) \/ SaysWhatWasLogged(line.text, line.calls)
             /\ TracedFirst =>
                   \E s \in Range(Read(line.text).seen) : s[2] = <<"trace_id">> /\ s[3] = <<In(r).trace>>
  <2>1. site \in Scenarios /\ r \in DOMAIN site.in
    BY Context
  <2>2. req[r].lines \in Seq(Lines(r))
    BY DEF LogInv
  <2>3. line \in Lines(r)
    BY <1>1, <2>2, LenProperties, ElementOfSeq DEF Range
  <2> QED
    BY <2>1, <2>3, LineIsSaid
<1> QED
  BY <1>1, Zenon DEF LinesSayWhatWasLogged, TracedFirst

\* A line that a request writes is one JSON object that says what was logged,
\* namespaces inside objects apart, and has the id of its request when TraceId
\* is the first layer: for every chain, every script and all whole fields.
THEOREM LinesSayWhatIsLogged == Spec => []LinesSayWhatWasLogged
<1>1. Init => LogInv
  BY LogInit
<1>2. IInv /\ LogInv /\ [Next]_vars => LogInv'
  <2>1. ASSUME IInv, LogInv, UNCHANGED vars PROVE LogInv'
    BY <2>1, SameLogs DEF vars
  <2> QED
    BY <2>1, LogNext
<1>3. IInv /\ LogInv => LinesSayWhatWasLogged
  BY LinesFollow
<1> QED
  BY <1>1, <1>2, <1>3, Invariance, PTL DEF Spec
================================================================================
