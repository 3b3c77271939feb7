------------------------------- MODULE Encoder -------------------------------
(***************************************************************************)
(* The text encoder of the logs, src/log/encoders/simple/encoder.go, with  *)
(* the loggers in contexts that are built from it (src/log/context.go).    *)
(*                                                                         *)
(* A field is one or more calls of the encoder.  A call is a record: op,   *)
(* the key ("" inside an array, where Append is called and not Add), and   *)
(* a value.  A call of an object's or an array's marshaler is what it      *)
(* calls between "object" or "array" and "end".                            *)
(*                                                                         *)
(* The text is a sequence of tokens, each a sequence: a bracket, ":", ",", *)
(* a bare word, or a quoted string, which begins with a quote and goes on  *)
(* with its characters.  Of characters the kinds are told apart that JSON  *)
(* does: an ordinary one, the quote, the backslash, control characters and *)
(* bytes that are no UTF-8.                                                *)
(***************************************************************************)
EXTENDS Integers, Sequences, SequencesExt

Quote == "quote"
Backslash == "backslash"
Named == {"newline", "return", "tab"}

\* The tokens of JSON's structure.
BeginObject == <<"{">>
EndObject == <<"}">>
BeginArray == <<"[">>
EndArray == <<"]">>
NameSeparator == <<":">>
ValueSeparator == <<",">>
Structural == {BeginObject, EndObject, BeginArray, EndArray, NameSeparator, ValueSeparator}

\* NewEncoder.
NewEncoder == [buf |-> <<>>, openNamespaces |-> 0]

(***************************************************************************)
(* Strings                                                                 *)
(***************************************************************************)
\* tryAddRuneSelf and tryAddRuneError; a byte that is no UTF-8 is replaced.
Escaped(c) ==
    CASE c \in {Quote, Backslash} \cup Named -> <<Backslash, c>>
      [] c \in {"control", "invalid"} -> <<Backslash, c>>
      [] OTHER -> <<c>>

safeAddString(s) == FlattenSeq([i \in DOMAIN s |-> Escaped(s[i])])

(***************************************************************************)
(* Separators and keys                                                     *)
(***************************************************************************)
addElementSeparator(buf) ==
    IF buf = <<>> \/ Last(buf) \in {BeginObject, BeginArray, NameSeparator, ValueSeparator}
    THEN buf
    ELSE Append(buf, ValueSeparator)

addString(buf, s) == Append(addElementSeparator(buf), <<Quote>> \o safeAddString(s))

addKey(buf, key) == Append(addString(buf, key), NameSeparator)

\* appendFloat: what is no number is written as a string.
isNotFinite(v) == v \in {<<"NaN">>, <<"Inf">>}

\* The Append methods of bare values: AppendBool, AppendInt64, ...
addNumber(buf, v) ==
    IF isNotFinite(v) THEN addString(buf, v) ELSE Append(addElementSeparator(buf), v)

(***************************************************************************)
(* Calls                                                                   *)
(***************************************************************************)
Unencodable == <<"unencodable">>

\* AppendObject, AppendArray and OpenNamespace.
Opens(enc, call, buf) ==
    [enc EXCEPT !.buf = Append(addElementSeparator(buf),
                               IF call.op = "array" THEN BeginArray ELSE BeginObject),
                !.openNamespaces = IF call.op = "namespace" THEN @ + 1 ELSE @]

\* AddReflected writes nothing when it fails; zap then adds the error.
Add(enc, call) ==
    LET buf == IF call.key = <<>> THEN enc.buf ELSE addKey(enc.buf, call.key) IN
    CASE call.op = "string" -> [enc EXCEPT !.buf = addString(buf, call.val)]
      [] call.op = "number" -> [enc EXCEPT !.buf = addNumber(buf, call.val)]
      [] call.op = "reflected" /\ call.val # Unencodable ->
            [enc EXCEPT !.buf = Append(addElementSeparator(buf), call.val)]
      [] call.op = "reflected" /\ call.val = Unencodable ->
            [enc EXCEPT !.buf = addString(addKey(@, call.key \o <<"Error">>), call.val)]
      [] call.op \in {"object", "array", "namespace"} -> Opens(enc, call, buf)
      [] call.op = "end" -> [enc EXCEPT !.buf = Append(@, call.val)]

addFields(enc, calls) == FoldLeft(Add, enc, calls)

\* log.With: the encoder of the logger is cloned and the fields are added.
With(enc, calls) == addFields(enc, calls)

closeOpenNamespaces(enc) ==
    [enc EXCEPT !.buf = @ \o [i \in 1..enc.openNamespaces |-> EndObject]]

\* The context comes first, with the namespaces it leaves open.
EncodeEntry_separator_forgotten(enc, calls) ==
    LET final == [enc EXCEPT !.buf = <<BeginObject>> \o enc.buf]
        full == [addFields([final EXCEPT !.buf = <<>>], calls) EXCEPT !.buf = final.buf \o @]
    IN Append(closeOpenNamespaces(full).buf, EndObject)

EncodeEntry(enc, calls) ==
    LET final == [enc EXCEPT !.buf = <<BeginObject>> \o enc.buf]
    IN Append(closeOpenNamespaces(addFields(final, calls)).buf, EndObject)

(***************************************************************************)
(* What a reader of the line sees: a JSON object, read with a stack of the *)
(* names that are open, as the sequence of its names and values.           *)
(***************************************************************************)
IsString(t) == t[1] = Quote
IsWord(t) == t[1] # Quote /\ t \notin Structural
IsOpen(t) == t \in {BeginObject, BeginArray}
IsClose(t) == t \in {EndObject, EndArray}

Unescape(st, c) ==
    IF st.esc THEN [st EXCEPT !.out = Append(@, c), !.esc = FALSE]
    ELSE IF c = Backslash THEN [st EXCEPT !.esc = TRUE]
    ELSE [st EXCEPT !.out = Append(@, c), !.ok = @ /\ c # Quote]

Unescaped(s) == FoldLeft(Unescape, [out |-> <<>>, esc |-> FALSE, ok |-> TRUE], s)

\* Inside an object a name and no value is due, after its bracket or a comma.
InObject(stack) == stack # <<>> /\ Last(stack).bracket = BeginObject
NameDue(st) == InObject(st.stack) /\ st.prev \in {BeginObject, ValueSeparator}

ValueDue(st) ==
    \/ st.prev \in {NameSeparator, BeginArray}
    \/ st.prev = ValueSeparator /\ ~InObject(st.stack)
    \/ st.prev = <<>> /\ st.stack = <<>>

ValueEnds(st) ==
    /\ st.prev # <<>> /\ ~st.name
    /\ IsString(st.prev) \/ IsWord(st.prev) \/ IsClose(st.prev)

MayFollow(st, t) ==
    \/ IsString(t) /\ (NameDue(st) \/ ValueDue(st))
    \/ (IsWord(t) \/ IsOpen(t)) /\ ValueDue(st)
    \/ t = NameSeparator /\ st.name
    \/ t = ValueSeparator /\ ValueEnds(st) /\ st.stack # <<>>
    \/ /\ IsClose(t) /\ st.stack # <<>>
       /\ Last(st.stack).bracket = IF t = EndObject THEN BeginObject ELSE BeginArray
       /\ ValueEnds(st) \/ IsOpen(st.prev)

Path(stack) == [i \in DOMAIN stack |-> stack[i].name]

Take(st, t) ==
    LET s == Unescaped(Tail(t))
        isName == IsString(t) /\ NameDue(st)
    IN IF ~st.ok \/ ~MayFollow(st, t) \/ (IsString(t) /\ ~s.ok) THEN [st EXCEPT !.ok = FALSE]
       ELSE [ok |-> TRUE, prev |-> t, name |-> isName,
             key |-> IF isName THEN s.out ELSE IF t = NameSeparator THEN st.key ELSE <<>>,
             stack |-> IF IsOpen(t) THEN Append(st.stack, [bracket |-> t, name |-> st.key])
                       ELSE IF IsClose(t) THEN Front(st.stack) ELSE st.stack,
             seen |-> IF IsOpen(t) \/ IsWord(t) THEN Append(st.seen, <<Path(st.stack), st.key, t>>)
                      ELSE IF IsString(t) /\ ~isName
                      THEN Append(st.seen, <<Path(st.stack), st.key, s.out>>)
                      ELSE st.seen]

StartOfLine ==
    [ok |-> TRUE, prev |-> <<>>, name |-> FALSE, key |-> <<>>, stack |-> <<>>, seen |-> <<>>]

Read(line) == FoldLeft(Take, StartOfLine, line)

(***************************************************************************)
(* What was logged: the same sequence, of the calls.  A namespace holds    *)
(* what is added until the object around it ends.                          *)
(***************************************************************************)
Meant(st, call) ==
    LET bracket == IF call.op = "array" THEN BeginArray ELSE BeginObject
        isBad == call.op = "reflected" /\ call.val = Unencodable
        key == IF isBad THEN call.key \o <<"Error">> ELSE call.key
        closed == SelectLastInSeq(st.stack, LAMBDA e : ~e.namespace) - 1
    IN CASE call.op \in {"object", "array", "namespace"} ->
              [stack |-> Append(st.stack, [name |-> key, namespace |-> call.op = "namespace"]),
               seen |-> Append(st.seen, <<Path(st.stack), key, bracket>>)]
         [] call.op = "end" -> [st EXCEPT !.stack = SubSeq(@, 1, closed)]
         [] OTHER -> [st EXCEPT !.seen = Append(@, <<Path(st.stack), key, call.val>>)]

NothingLogged ==
    [stack |-> <<[name |-> <<>>, namespace |-> FALSE]>>, seen |-> <<<< <<>>, <<>>, BeginObject >>>>]

MeantBy(calls) == FoldLeft(Meant, NothingLogged, calls)
Meaning(calls) == MeantBy(calls).seen

\* The line is one JSON object that says what was logged.
SaysWhatWasLogged(line, calls) ==
    LET read == Read(line)
    IN read.ok /\ read.stack = <<>> /\ read.seen = Meaning(calls)

(***************************************************************************)
(* The calls that the fields of zap make.                                  *)
(***************************************************************************)
Calls == [op : {"string", "number", "reflected", "object", "array", "namespace", "end"},
          key : Seq(STRING), val : Seq(STRING)]

\* The objects and arrays that are open, each as the call that opened it.
Bracketed(open, call) ==
    CASE call.op \in {"object", "array"} -> Append(open, call.op)
      [] call.op = "end" -> Front(open)
      [] OTHER -> open

Brackets(calls) == FoldLeft(Bracketed, <<>>, calls)
Before(calls, i) == Brackets(SubSeq(calls, 1, i - 1))

\* The interface of an object has names and namespaces, the one of an array
\* has neither.  Two fields are left out: one in an object whose name is empty,
\* and one in an array whose reflection fails.
MayCall(open, call) ==
    LET inArray == open # <<>> /\ Last(open) = "array" IN
    IF call.op = "end" THEN open # <<>> /\ call.val = IF inArray THEN EndArray ELSE EndObject
    ELSE /\ (call.key = <<>>) <=> inArray
         /\ inArray => /\ call.op # "namespace"
                       /\ ~(call.op = "reflected" /\ call.val = Unencodable)
         /\ call.op \in {"number", "reflected"} => call.val # <<>> /\ IsWord(call.val)

\* The calls of whole fields.
FieldsOK(calls) ==
    /\ \A i \in DOMAIN calls : MayCall(Before(calls, i), calls[i])
    /\ Brackets(calls) = <<>>

\* A namespace that is opened inside an object stays open after it.
NamespaceInside(calls) ==
    \E i \in DOMAIN calls : calls[i].op = "namespace" /\ Before(calls, i) # <<>>
==============================================================================
