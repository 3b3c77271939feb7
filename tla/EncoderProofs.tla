---------------------------- MODULE EncoderProofs ----------------------------
(***************************************************************************)
(* For every sequence of fields that zap can ask for: the line reads as    *)
(* what was logged.                                                        *)
(*                                                                         *)
(* The folds of Encoder.tla are those of FoldFacts.tla, one instance for   *)
(* each operator, and so known call by call and token by token.  What the  *)
(* encoder has written after some calls, the stack of the reader there and *)
(* the stack of what was meant are tied to each other (Tells); each call   *)
(* keeps the tie (CallsTell), and the brackets at the end of the line      *)
(* close what is open (Closes).                                            *)
(***************************************************************************)
EXTENDS Encoder, SequenceTheorems, TLAPS

Joining == INSTANCE FoldFacts WITH Op <- \o
Unescaping == INSTANCE FoldFacts WITH Op <- Unescape
Reading == INSTANCE FoldFacts WITH Op <- Take
Adding == INSTANCE FoldFacts WITH Op <- Add
Meaningful == INSTANCE FoldFacts WITH Op <- Meant
Bracketing == INSTANCE FoldFacts WITH Op <- Bracketed

\* Characters, and what stands for one in a token; the provers do not know of
\* a literal that it is a string.
Char == STRING \cup {Quote, Backslash, "{", "}", "[", "]", ":", ",", "Error", "unencodable",
                     "NaN", "Inf", "trace_id"}
Tokens == Seq(Char)

(***************************************************************************)
(* Strings                                                                 *)
(***************************************************************************)
LEMMA UnescapeFold ==
    \A b, s : FoldLeft(Unescape, b, s) = Unescaping!FoldLeft(Unescape, b, s)
BY DEF FoldLeft, Unescaping!FoldLeft, MapThenFoldSet, Unescaping!MapThenFoldSet, Max, Unescaping!Max

LEMMA UnescapedNone ==
    Unescaped(<<>>) = [out |-> <<>>, esc |-> FALSE, ok |-> TRUE]
<1>1. \A b : Unescaping!FoldLeft(Unescape, b, <<>>) = b
  BY Unescaping!FoldLeftEmpty
<1> QED
  BY <1>1, UnescapeFold DEF Unescaped

LEMMA UnescapedNext ==
    ASSUME NEW s \in Tokens, NEW c \in Char
    PROVE  Unescaped(Append(s, c)) = Unescape(Unescaped(s), c)
<1> DEFINE b == [out |-> <<>>, esc |-> FALSE, ok |-> TRUE]
<1>1. Unescaping!FoldLeft(Unescape, b, Append(s, c))
      = Unescape(Unescaping!FoldLeft(Unescape, b, s), c)
  <2> HIDE DEF b
  <2> QED
    BY Unescaping!FoldLeftAppends DEF Tokens
<1>2. \A t : Unescaping!FoldLeft(Unescape, b, t) = FoldLeft(Unescape, b, t)
  BY UnescapeFold
<1> QED
  BY <1>1, <1>2 DEF Unescaped

LEMMA EscapedAs ==
    ASSUME NEW c \in Char
    PROVE  \/ Escaped(c) = <<Backslash, c>>
           \/ Escaped(c) = <<c>> /\ c \notin {Quote, Backslash}
BY DEF Escaped

LEMMA ShortSeqs ==
    ASSUME NEW S, NEW a \in S, NEW b \in S
    PROVE  <<a>> \in Seq(S) /\ <<a, b>> \in Seq(S)
OBVIOUS

LEMMA EscapedType ==
    ASSUME NEW c \in Char
    PROVE  Escaped(c) \in Tokens
<1>1. Backslash \in Char
  BY DEF Char
<1>2. <<c>> \in Tokens /\ <<Backslash, c>> \in Tokens
  <2> HIDE DEF Char
  <2> QED
    BY <1>1, ShortSeqs DEF Tokens
<1> QED
  BY <1>2, EscapedAs

\* The state of the reader of a string that has got to the end of out.
Reads(out) == [out |-> out, esc |-> FALSE, ok |-> TRUE]

LEMMA UnescapeSteps ==
    ASSUME NEW out, NEW c
    PROVE  LET escaped == [out |-> out, esc |-> TRUE, ok |-> TRUE] IN
           /\ Unescape(Reads(out), Backslash) = escaped
           /\ Unescape(escaped, c) = Reads(Append(out, c))
           /\ c \notin {Quote, Backslash} => Unescape(Reads(out), c) = Reads(Append(out, c))
<1> DEFINE escaped == [out |-> out, esc |-> TRUE, ok |-> TRUE]
<1>1. Unescape(Reads(out), Backslash) = escaped
  BY DEF Unescape, Reads
<1>2. Unescape(escaped, c) = Reads(Append(out, c))
  BY DEF Unescape, Reads
<1>3. c \notin {Quote, Backslash} => Unescape(Reads(out), c) = Reads(Append(out, c))
  BY DEF Unescape, Reads
<1> QED
  BY <1>1, <1>2, <1>3

LEMMA UnescapesOne ==
    ASSUME NEW s \in Tokens, NEW out, Unescaped(s) = Reads(out), NEW c \in Char
    PROVE  Unescaped(s \o Escaped(c)) = Reads(Append(out, c))
<1>1. Backslash \in Char
  BY DEF Char
<1>2. CASE Escaped(c) = <<Backslash, c>>
  <2> DEFINE t == Append(s, Backslash)
  <2>1. t \in Tokens /\ s \o <<Backslash, c>> = Append(t, c)
    BY <1>1 DEF Tokens
  <2>2. Unescaped(t) = Unescape(Reads(out), Backslash)
    BY <1>1, UnescapedNext
  <2> HIDE DEF t
  <2>3. Unescaped(Append(t, c)) = Unescape(Unescaped(t), c)
    BY <2>1, UnescapedNext
  <2> QED
    BY <1>2, <2>1, <2>2, <2>3, UnescapeSteps
<1>3. CASE Escaped(c) = <<c>> /\ c \notin {Quote, Backslash}
  <2>1. s \o <<c>> = Append(s, c)
    BY DEF Tokens
  <2>2. Unescaped(Append(s, c)) = Unescape(Unescaped(s), c)
    BY UnescapedNext
  <2> QED
    BY <1>3, <2>1, <2>2, UnescapeSteps
<1> QED
  BY <1>2, <1>3, EscapedAs

LEMMA EscapesNext ==
    ASSUME NEW s \in Tokens, NEW c \in Char
    PROVE  safeAddString(Append(s, c)) = safeAddString(s) \o Escaped(c)
<1> DEFINE p == [i \in DOMAIN s |-> Escaped(s[i])]
           q == [i \in DOMAIN Append(s, c) |-> Escaped(Append(s, c)[i])]
<1>1. /\ Len(s) \in Nat /\ DOMAIN s = 1..Len(s) /\ \A i \in 1..Len(s) : s[i] \in Char
      /\ Len(Append(s, c)) = Len(s) + 1 /\ DOMAIN Append(s, c) = 1..(Len(s) + 1)
      /\ \A i \in 1..Len(s) : Append(s, c)[i] = s[i]
      /\ Append(s, c)[Len(s) + 1] = c
  BY AppendProperties, LenProperties DEF Tokens
<1>2. p \in Seq(Tokens) /\ Len(p) = Len(s) /\ Escaped(c) \in Tokens
  <2>1. \A i \in 1..Len(s) : Escaped(s[i]) \in Tokens
    BY <1>1, EscapedType
  <2> QED
    BY <1>1, <2>1, EscapedType
<1>3. q = Append(p, Escaped(c))
  BY <1>1, <1>2
<1>4. safeAddString(s) = FlattenSeq(p) /\ safeAddString(Append(s, c)) = FlattenSeq(q)
  BY DEF safeAddString
<1> HIDE DEF p, q
<1>5. CASE Len(s) = 0
  <2>1. FlattenSeq(p) = <<>>
    BY <1>2, <1>5 DEF FlattenSeq
  <2>2. FlattenSeq(q) = Escaped(c)
    <3>1. q = <<Escaped(c)>>
      BY <1>2, <1>3, <1>5
    <3>2. Len(q) = 1 /\ q \in Seq(Tokens)
      BY <1>2, <3>1
    <3>3. FlattenSeq(q) = Joining!Chain(q)[1]
      BY <3>2 DEF FlattenSeq, Joining!Chain
    <3>4. Joining!Chain(q)[1] = q[1]
      <4>1. Len(q) > 0 => Joining!Chain(q)[1] = q[1]
        BY <3>2, Joining!ChainRuns
      <4> QED
        BY <3>2, <4>1
    <3> QED
      BY <3>1, <3>3, <3>4
  <2>3. <<>> \o Escaped(c) = Escaped(c)
    BY <1>2 DEF Tokens
  <2> QED
    BY <1>4, <2>1, <2>2, <2>3
<1>6. CASE Len(s) # 0
  <2>1. Len(q) = Len(p) + 1 /\ Len(p) \in Nat /\ Len(p) > 0
    BY <1>1, <1>2, <1>3, <1>6
  <2>2. FlattenSeq(p) = Joining!Chain(p)[Len(p)]
    BY <2>1 DEF FlattenSeq, Joining!Chain
  <2>3. FlattenSeq(q) = Joining!Chain(q)[Len(q)]
    BY <2>1 DEF FlattenSeq, Joining!Chain
  <2>4. Joining!Chain(Append(p, Escaped(c)))[Len(p) + 1] = Joining!Chain(p)[Len(p)] \o Escaped(c)
    BY <1>2, <2>1, Joining!ChainAppends
  <2> QED
    BY <1>3, <1>4, <2>1, <2>2, <2>3, <2>4
<1> QED
  BY <1>5, <1>6

\* The first i elements; the inductions run over i.
First(s, i) == SubSeq(s, 1, i)

LEMMA Beginnings ==
    ASSUME NEW S, NEW s \in Seq(S)
    PROVE  /\ Len(s) \in Nat
           /\ First(s, 0) = <<>> /\ First(s, Len(s)) = s
           /\ \A i \in 0..Len(s) : First(s, i) \in Seq(S)
           /\ \A i \in 1..Len(s) : s[i] \in S /\ First(s, i) = Append(First(s, i - 1), s[i])
<1>1. Len(s) \in Nat /\ \A i \in 1..Len(s) : s[i] \in S
  BY LenProperties, ElementOfSeq
<1>2. First(s, 0) = <<>>
  BY DEF First
<1>3. First(s, Len(s)) = s
  BY DEF First
<1>4. \A i \in 0..Len(s) : First(s, i) \in Seq(S)
  BY DEF First
<1>5. \A i \in 1..Len(s) : First(s, i) = Append(First(s, i - 1), s[i])
  BY DEF First
<1> QED
  BY <1>1, <1>2, <1>3, <1>4, <1>5

ReadsBack(s) == safeAddString(s) \in Tokens /\ Unescaped(safeAddString(s)) = Reads(s)

LEMMA StringsReadBack ==
    ASSUME NEW s \in Tokens
    PROVE  ReadsBack(s)
<1> DEFINE T == {i \in 0..Len(s) : ReadsBack(First(s, i))}
<1>1. /\ Len(s) \in Nat
      /\ First(s, 0) = <<>> /\ First(s, Len(s)) = s
      /\ \A i \in 0..Len(s) : First(s, i) \in Tokens
      /\ \A i \in 1..Len(s) : s[i] \in Char /\ First(s, i) = Append(First(s, i - 1), s[i])
  BY Beginnings DEF Tokens
<1>2. ReadsBack(<<>>)
  <2>1. safeAddString(<<>>) = <<>> /\ <<>> \in Tokens
    BY EmptySeq DEF safeAddString, FlattenSeq, Tokens
  <2> QED
    BY <2>1, UnescapedNone DEF Reads, ReadsBack
<1>3. ASSUME NEW x \in Tokens, NEW c \in Char, ReadsBack(x)
      PROVE  ReadsBack(Append(x, c))
  <2>1. safeAddString(Append(x, c)) = safeAddString(x) \o Escaped(c)
    BY EscapesNext
  <2>2. Escaped(c) \in Tokens
    BY EscapedType
  <2> QED
    BY <1>3, <2>1, <2>2, UnescapesOne, ConcatProperties DEF Tokens, ReadsBack
<1>4. 0 \in T /\ T \in SUBSET (0..Len(s))
  BY <1>1, <1>2
<1>5. \A i \in 1..Len(s) : i - 1 \in T => i \in T
  <2> SUFFICES ASSUME NEW i \in 1..Len(s), i - 1 \in T PROVE i \in T
    OBVIOUS
  <2>1. i - 1 \in 0..Len(s) /\ ReadsBack(First(s, i - 1)) /\ i \in 0..Len(s)
    BY <1>1
  <2>2. First(s, i - 1) \in Tokens /\ s[i] \in Char
    BY <1>1, <2>1
  <2>3. ReadsBack(Append(First(s, i - 1), s[i]))
    BY <1>3, <2>1, <2>2
  <2>4. ReadsBack(First(s, i))
    BY <1>1, <2>3
  <2> QED
    BY <2>1, <2>4
<1>6. T = 0..Len(s)
  <2> HIDE DEF T
  <2> QED
    BY <1>1, <1>4, <1>5, Joining!CountUp
<1>7. Len(s) \in T
  BY <1>1, <1>6
<1> QED
  BY <1>1, <1>7

(***************************************************************************)
(* The folds, one element after the other                                  *)
(***************************************************************************)
LEMMA ReadFold ==
    \A b, s : FoldLeft(Take, b, s) = Reading!FoldLeft(Take, b, s)
BY DEF FoldLeft, Reading!FoldLeft, MapThenFoldSet, Reading!MapThenFoldSet, Max, Reading!Max

LEMMA ReadNone ==
    Read(<<>>) = StartOfLine
<1>1. \A b : Reading!FoldLeft(Take, b, <<>>) = b
  BY Reading!FoldLeftEmpty
<1> QED
  BY <1>1, ReadFold DEF Read

LEMMA ReadNext ==
    ASSUME NEW line \in Seq(Tokens), NEW t \in Tokens
    PROVE  Read(Append(line, t)) = Take(Read(line), t)
<1> DEFINE b == StartOfLine
<1>1. Reading!FoldLeft(Take, b, Append(line, t)) = Take(Reading!FoldLeft(Take, b, line), t)
  <2> HIDE DEF b
  <2> QED
    BY Reading!FoldLeftAppends
<1>2. \A s : Reading!FoldLeft(Take, b, s) = FoldLeft(Take, b, s)
  BY ReadFold
<1> QED
  BY <1>1, <1>2 DEF Read

LEMMA AddFold ==
    \A b, s : FoldLeft(Add, b, s) = Adding!FoldLeft(Add, b, s)
BY DEF FoldLeft, Adding!FoldLeft, MapThenFoldSet, Adding!MapThenFoldSet, Max, Adding!Max

LEMMA AddNone ==
    ASSUME NEW enc
    PROVE  addFields(enc, <<>>) = enc
<1>1. Adding!FoldLeft(Add, enc, <<>>) = enc
  BY Adding!FoldLeftEmpty
<1> QED
  BY <1>1, AddFold DEF addFields

LEMMA AddNext ==
    ASSUME NEW enc, NEW S, NEW calls \in Seq(S), NEW call \in S
    PROVE  addFields(enc, Append(calls, call)) = Add(addFields(enc, calls), call)
<1>1. Adding!FoldLeft(Add, enc, Append(calls, call)) = Add(Adding!FoldLeft(Add, enc, calls), call)
  BY Adding!FoldLeftAppends
<1>2. \A s : Adding!FoldLeft(Add, enc, s) = FoldLeft(Add, enc, s)
  BY AddFold
<1> QED
  BY <1>1, <1>2 DEF addFields

LEMMA AddMore ==
    ASSUME NEW enc, NEW S, NEW calls \in Seq(S), NEW more \in Seq(S)
    PROVE  addFields(enc, calls \o more) = addFields(addFields(enc, calls), more)
<1>1. Adding!FoldLeft(Add, enc, calls \o more) = Adding!FoldLeft(Add, Adding!FoldLeft(Add, enc, calls), more)
  BY Adding!FoldLeftConcat
<1>2. \A b, s : Adding!FoldLeft(Add, b, s) = FoldLeft(Add, b, s)
  BY AddFold
<1> QED
  BY <1>1, <1>2 DEF addFields

LEMMA MeantFold ==
    \A b, s : FoldLeft(Meant, b, s) = Meaningful!FoldLeft(Meant, b, s)
BY DEF FoldLeft, Meaningful!FoldLeft, MapThenFoldSet, Meaningful!MapThenFoldSet, Max, Meaningful!Max

LEMMA MeantNone ==
    MeantBy(<<>>) = NothingLogged
<1>1. \A b : Meaningful!FoldLeft(Meant, b, <<>>) = b
  BY Meaningful!FoldLeftEmpty
<1> QED
  BY <1>1, MeantFold DEF MeantBy

LEMMA MeantNext ==
    ASSUME NEW S, NEW calls \in Seq(S), NEW call \in S
    PROVE  MeantBy(Append(calls, call)) = Meant(MeantBy(calls), call)
<1> DEFINE b == NothingLogged
<1>1. Meaningful!FoldLeft(Meant, b, Append(calls, call)) = Meant(Meaningful!FoldLeft(Meant, b, calls), call)
  <2> HIDE DEF b
  <2> QED
    BY Meaningful!FoldLeftAppends
<1>2. \A s : Meaningful!FoldLeft(Meant, b, s) = FoldLeft(Meant, b, s)
  BY MeantFold
<1> QED
  BY <1>1, <1>2 DEF MeantBy

LEMMA BracketFold ==
    \A b, s : FoldLeft(Bracketed, b, s) = Bracketing!FoldLeft(Bracketed, b, s)
BY DEF FoldLeft, Bracketing!FoldLeft, MapThenFoldSet, Bracketing!MapThenFoldSet, Max, Bracketing!Max

LEMMA BracketsNone ==
    Brackets(<<>>) = <<>>
<1>1. Bracketing!FoldLeft(Bracketed, <<>>, <<>>) = <<>>
  BY Bracketing!FoldLeftEmpty
<1> QED
  BY <1>1, BracketFold DEF Brackets

LEMMA BracketsNext ==
    ASSUME NEW S, NEW calls \in Seq(S), NEW call \in S
    PROVE  Brackets(Append(calls, call)) = Bracketed(Brackets(calls), call)
<1> DEFINE b == <<>>
<1>1. Bracketing!FoldLeft(Bracketed, b, Append(calls, call))
      = Bracketed(Bracketing!FoldLeft(Bracketed, b, calls), call)
  <2> HIDE DEF b
  <2> QED
    BY Bracketing!FoldLeftAppends
<1>2. \A s : Bracketing!FoldLeft(Bracketed, b, s) = FoldLeft(Bracketed, b, s)
  BY BracketFold
<1> QED
  BY <1>1, <1>2 DEF Brackets

\* What comes after whole fields is read like what comes first.
LEMMA BracketsMore ==
    ASSUME NEW S, NEW calls \in Seq(S), NEW more \in Seq(S), Brackets(calls) = <<>>
    PROVE  Brackets(calls \o more) = Brackets(more)
<1> DEFINE b == <<>>
<1>1. Bracketing!FoldLeft(Bracketed, b, calls \o more)
      = Bracketing!FoldLeft(Bracketed, Bracketing!FoldLeft(Bracketed, b, calls), more)
  <2> HIDE DEF b
  <2> QED
    BY Bracketing!FoldLeftConcat
<1>2. \A c, s : Bracketing!FoldLeft(Bracketed, c, s) = FoldLeft(Bracketed, c, s)
  BY BracketFold
<1> QED
  BY <1>1, <1>2 DEF Brackets

(***************************************************************************)
(* One token after the other                                               *)
(***************************************************************************)
LEMMA Distinct ==
    /\ BeginObject # EndObject /\ BeginObject # BeginArray /\ BeginObject # EndArray
    /\ BeginObject # NameSeparator /\ BeginObject # ValueSeparator
    /\ EndObject # BeginArray /\ EndObject # EndArray
    /\ EndObject # NameSeparator /\ EndObject # ValueSeparator
    /\ BeginArray # EndArray /\ BeginArray # NameSeparator /\ BeginArray # ValueSeparator
    /\ EndArray # NameSeparator /\ EndArray # ValueSeparator
    /\ NameSeparator # ValueSeparator
BY Zenon DEF BeginObject, EndObject, BeginArray, EndArray, NameSeparator, ValueSeparator

LEMMA OneOf ==
    ASSUME NEW S, NEW a \in S
    PROVE  <<a>> \in Seq(S)
OBVIOUS

LEMMA OneCharacter ==
    ASSUME NEW c, c # Quote
    PROVE  <<c>> # <<>> /\ ~IsString(<<c>>)
BY DEF IsString

LEMMA StructuralTokens ==
    ASSUME NEW t \in Structural
    PROVE  t \in Tokens /\ t # <<>> /\ ~IsString(t) /\ ~IsWord(t)
<1>1. ASSUME NEW c \in {"{", "}", "[", "]", ":", ","}
      PROVE  <<c>> \in Tokens /\ <<c>> # <<>> /\ ~IsString(<<c>>)
  <2>1. c # Quote /\ c \in Char
    BY Zenon DEF Quote, Char
  <2>2. <<c>> \in Tokens
    BY <2>1, OneOf, Zenon DEF Tokens
  <2> QED
    BY <2>1, <2>2, OneCharacter, Zenon
<1>2. t \in {<<"{">>, <<"}">>, <<"[">>, <<"]">>, <<":">>, <<",">>}
  BY Zenon DEF Structural, BeginObject, EndObject, BeginArray, EndArray, NameSeparator, ValueSeparator
<1>3. t \in Tokens /\ t # <<>> /\ ~IsString(t)
  BY <1>1, <1>2, Zenon
<1> QED
  BY <1>3, Zenon DEF IsWord

\* What kind of token each is.
LEMMA TokenKinds ==
    ASSUME NEW t
    PROVE  /\ IsString(t) => ~IsWord(t) /\ ~IsOpen(t) /\ ~IsClose(t) /\ t \notin Structural
           /\ IsWord(t) => ~IsOpen(t) /\ ~IsClose(t) /\ t \notin Structural
           /\ IsOpen(t) => t \in Structural /\ ~IsClose(t)
           /\ IsClose(t) => t \in Structural
           /\ t \in {NameSeparator, ValueSeparator} => ~IsOpen(t) /\ ~IsClose(t) /\ t \in Structural
<1>1. t \in Structural => ~IsString(t) /\ ~IsWord(t)
  BY StructuralTokens
<1>2. /\ t \in {BeginObject, BeginArray, EndObject, EndArray, NameSeparator, ValueSeparator}
         <=> t \in Structural
      /\ IsOpen(t) <=> t \in {BeginObject, BeginArray}
      /\ IsClose(t) <=> t \in {EndObject, EndArray}
  BY Zenon DEF Structural, IsOpen, IsClose
<1>3. IsWord(t) => ~IsString(t)
  BY DEF IsWord, IsString
<1> QED
  BY <1>1, <1>2, <1>3, Distinct

Quoted(s) == <<Quote>> \o safeAddString(s)

LEMMA QuotedIs ==
    ASSUME NEW s \in Tokens
    PROVE  /\ Quoted(s) \in Tokens /\ Quoted(s) # <<>> /\ IsString(Quoted(s))
           /\ Unescaped(Tail(Quoted(s))) = Reads(s)
<1>1. safeAddString(s) \in Tokens /\ Unescaped(safeAddString(s)) = Reads(s)
  BY StringsReadBack DEF ReadsBack
<1>2. Quote \in Char
  BY Zenon DEF Char
<1>3. Quoted(s) \in Tokens /\ Quoted(s) # <<>> /\ Quoted(s)[1] = Quote /\ Tail(Quoted(s)) = safeAddString(s)
  BY <1>1, <1>2 DEF Quoted, Tokens
<1> QED
  BY <1>1, <1>3 DEF IsString

\* The states of the reader before the first token it cannot take.
At(prev, key, stack, seen) ==
    [ok |-> TRUE, prev |-> prev, name |-> FALSE, key |-> key, stack |-> stack, seen |-> seen]

AtName(prev, key, stack, seen) ==
    [ok |-> TRUE, prev |-> prev, name |-> TRUE, key |-> key, stack |-> stack, seen |-> seen]

NoKey == <<>>
Opened(stack, t, key) == Append(stack, [bracket |-> t, name |-> key])
Noted(seen, stack, key, t) == Append(seen, <<Path(stack), key, t>>)

\* A name or a value is over.
Over(prev) == prev # <<>> /\ (IsString(prev) \/ IsWord(prev) \/ IsClose(prev))

LEMMA TakesName ==
    ASSUME NEW prev \in {BeginObject, ValueSeparator}, NEW key, NEW stack, InObject(stack), NEW seen,
           NEW s \in Tokens
    PROVE  Take(At(prev, key, stack, seen), Quoted(s)) = AtName(Quoted(s), s, stack, seen)
<1> DEFINE st == At(prev, key, stack, seen)
           t == Quoted(s)
<1>1. /\ st.ok = TRUE /\ st.prev = prev /\ st.name = FALSE /\ st.key = key
      /\ st.stack = stack /\ st.seen = seen
  BY DEF At
<1>2. IsString(t) /\ Unescaped(Tail(t)).ok = TRUE /\ Unescaped(Tail(t)).out = s
  BY QuotedIs DEF Reads
<1>3. ~IsWord(t) /\ ~IsOpen(t) /\ ~IsClose(t) /\ t # NameSeparator
  BY <1>2, TokenKinds
<1> HIDE DEF st, t
<1>4. NameDue(st)
  BY <1>1 DEF NameDue
<1>5. MayFollow(st, t)
  BY <1>2, <1>4 DEF MayFollow
<1>6. Take(st, t) = AtName(t, s, stack, seen)
  BY <1>1, <1>2, <1>3, <1>4, <1>5 DEF Take, At, AtName, NoKey, Opened, Noted
<1> QED
  BY <1>6 DEF st, t

LEMMA TakesColon ==
    ASSUME NEW prev, NEW key, NEW stack, NEW seen
    PROVE  Take(AtName(prev, key, stack, seen), NameSeparator)
           = At(NameSeparator, key, stack, seen)
<1> DEFINE st == AtName(prev, key, stack, seen)
           t == NameSeparator
<1>1. st.ok = TRUE /\ st.name = TRUE /\ st.key = key /\ st.stack = stack /\ st.seen = seen
  BY DEF At, AtName
<1>2. ~IsString(t) /\ ~IsWord(t) /\ ~IsOpen(t) /\ ~IsClose(t)
  BY TokenKinds
<1> HIDE DEF st
<1>3. MayFollow(st, t)
  BY <1>1, <1>2 DEF MayFollow
<1>4. Take(st, t) = At(t, key, stack, seen)
  BY <1>1, <1>2, <1>3 DEF Take, At, AtName, NoKey, Opened, Noted
<1> QED
  BY <1>4 DEF st

LEMMA TakesComma ==
    ASSUME NEW prev, Over(prev), NEW key, NEW stack, stack # <<>>, NEW seen
    PROVE  Take(At(prev, key, stack, seen), ValueSeparator)
           = At(ValueSeparator, NoKey, stack, seen)
<1> DEFINE st == At(prev, key, stack, seen)
           t == ValueSeparator
<1>1. /\ st.ok = TRUE /\ st.prev = prev /\ st.name = FALSE /\ st.key = key
      /\ st.stack = stack /\ st.seen = seen
  BY DEF At
<1>2. ~IsString(t) /\ ~IsWord(t) /\ ~IsOpen(t) /\ ~IsClose(t) /\ t # NameSeparator
  BY TokenKinds, Distinct
<1> HIDE DEF st
<1>3. MayFollow(st, t)
  BY <1>1, <1>2 DEF MayFollow, ValueEnds, Over
<1>4. Take(st, t) = At(t, NoKey, stack, seen)
  BY <1>1, <1>2, <1>3 DEF Take, At, AtName, NoKey, Opened, Noted
<1> QED
  BY <1>4 DEF st

LEMMA TakesString ==
    ASSUME NEW prev, NEW key, NEW stack, NEW seen, ValueDue(At(prev, key, stack, seen)),
           NEW s \in Tokens
    PROVE  Take(At(prev, key, stack, seen), Quoted(s))
           = At(Quoted(s), NoKey, stack, Noted(seen, stack, key, s))
<1> DEFINE st == At(prev, key, stack, seen)
           t == Quoted(s)
<1>1. /\ st.ok = TRUE /\ st.prev = prev /\ st.name = FALSE /\ st.key = key
      /\ st.stack = stack /\ st.seen = seen
  BY DEF At
<1>2. IsString(t) /\ Unescaped(Tail(t)).ok = TRUE /\ Unescaped(Tail(t)).out = s
  BY QuotedIs DEF Reads
<1>3. ~IsWord(t) /\ ~IsOpen(t) /\ ~IsClose(t) /\ t # NameSeparator
  BY <1>2, TokenKinds
<1>4. ValueDue(st)
  OBVIOUS
<1> HIDE DEF st, t
<1>5. ~NameDue(st)
  <2>1. \A a \in Structural : a # <<>>
    BY StructuralTokens
  <2>2. BeginObject # <<>> /\ ValueSeparator # <<>>
    BY <2>1 DEF Structural
  <2> QED
    BY <1>1, <1>4, <2>2, Distinct DEF NameDue, ValueDue
<1>6. MayFollow(st, t)
  BY <1>2, <1>4 DEF MayFollow
<1>7. Take(st, t) = At(t, NoKey, stack, Noted(seen, stack, key, s))
  BY <1>1, <1>2, <1>3, <1>5, <1>6 DEF Take, At, AtName, NoKey, Opened, Noted
<1> QED
  BY <1>7 DEF st, t

LEMMA TakesWord ==
    ASSUME NEW prev, NEW key, NEW stack, NEW seen, ValueDue(At(prev, key, stack, seen)),
           NEW t, IsWord(t)
    PROVE  Take(At(prev, key, stack, seen), t)
           = At(t, NoKey, stack, Noted(seen, stack, key, t))
<1> DEFINE st == At(prev, key, stack, seen)
<1>0. /\ st.ok = TRUE /\ st.prev = prev /\ st.name = FALSE /\ st.key = key
      /\ st.stack = stack /\ st.seen = seen
  BY DEF At
<1>1. ~IsString(t) /\ ~IsOpen(t) /\ ~IsClose(t) /\ t # NameSeparator
  BY TokenKinds
<1>2. ValueDue(st)
  OBVIOUS
<1> HIDE DEF st
<1>3. Take(st, t) = At(t, NoKey, stack, Noted(seen, stack, key, t))
  BY <1>0, <1>1, <1>2 DEF Take, MayFollow, At, NoKey, Opened, Noted
<1> QED
  BY <1>3 DEF st

LEMMA TakesOpen ==
    ASSUME NEW prev, NEW key, NEW stack, NEW seen, ValueDue(At(prev, key, stack, seen)),
           NEW t \in {BeginObject, BeginArray}
    PROVE  Take(At(prev, key, stack, seen), t)
           = At(t, NoKey, Opened(stack, t, key),
                Noted(seen, stack, key, t))
<1> DEFINE st == At(prev, key, stack, seen)
<1>0. /\ st.ok = TRUE /\ st.prev = prev /\ st.name = FALSE /\ st.key = key
      /\ st.stack = stack /\ st.seen = seen
  BY DEF At
<1>1. IsOpen(t) /\ ~IsString(t) /\ ~IsWord(t) /\ t # NameSeparator
  BY TokenKinds, Distinct DEF IsOpen
<1>2. ValueDue(st)
  OBVIOUS
<1> HIDE DEF st
<1>3. Take(st, t) = At(t, NoKey, Opened(stack, t, key),
                       Noted(seen, stack, key, t))
  BY <1>0, <1>1, <1>2 DEF Take, MayFollow, At, NoKey, Opened, Noted
<1> QED
  BY <1>3 DEF st

LEMMA TakesClose ==
    ASSUME NEW prev, Over(prev) \/ IsOpen(prev), NEW key, NEW stack, stack # <<>>, NEW seen,
           NEW t \in {EndObject, EndArray},
           Last(stack).bracket = IF t = EndObject THEN BeginObject ELSE BeginArray
    PROVE  Take(At(prev, key, stack, seen), t) = At(t, NoKey, Front(stack), seen)
<1> DEFINE st == At(prev, key, stack, seen)
<1>1. /\ st.ok = TRUE /\ st.prev = prev /\ st.name = FALSE /\ st.key = key
      /\ st.stack = stack /\ st.seen = seen
  BY DEF At
<1>2. /\ IsClose(t) /\ ~IsString(t) /\ ~IsWord(t) /\ ~IsOpen(t)
      /\ t # NameSeparator /\ t # ValueSeparator
  BY TokenKinds, Distinct DEF IsClose
<1> HIDE DEF st
<1>3. MayFollow(st, t)
  BY <1>1, <1>2 DEF MayFollow, ValueEnds, Over
<1>4. Take(st, t) = At(t, NoKey, Front(stack), seen)
  BY <1>1, <1>2, <1>3 DEF Take, At, AtName, NoKey, Opened, Noted
<1> QED
  BY <1>4 DEF st

(***************************************************************************)
(* The buffer of the encoder, as its reader stands at the end of it        *)
(***************************************************************************)
Open == [bracket : {BeginObject, BeginArray}, name : Tokens]

Shows(buf, st) ==
    /\ buf \in Seq(Tokens) /\ buf # <<>>
    /\ Read(buf) = st
    /\ Last(buf) = st.prev

LEMMA ShowsNext ==
    ASSUME NEW buf, NEW st, Shows(buf, st), NEW t \in Tokens, Take(st, t).prev = t
    PROVE  Shows(Append(buf, t), Take(st, t))
<1>1. Read(Append(buf, t)) = Take(st, t)
  BY ReadNext DEF Shows
<1>2. Append(buf, t) \in Seq(Tokens) /\ Append(buf, t) # <<>> /\ Last(Append(buf, t)) = t
  BY DEF Shows, Last
<1> QED
  BY <1>1, <1>2 DEF Shows

LEMMA QuotedFollows ==
    ASSUME NEW buf, NEW st, Shows(addElementSeparator(buf), st), NEW s \in Tokens,
           Take(st, Quoted(s)).prev = Quoted(s)
    PROVE  Shows(addString(buf, s), Take(st, Quoted(s)))
<1>1. Quoted(s) \in Tokens
  BY QuotedIs
<1>2. addString(buf, s) = Append(addElementSeparator(buf), Quoted(s))
  BY DEF addString, Quoted
<1> QED
  BY <1>1, <1>2, ShowsNext

LEMMA PrevIs ==
    ASSUME NEW prev, NEW key, NEW stack, NEW seen
    PROVE  At(prev, key, stack, seen).prev = prev /\ AtName(prev, key, stack, seen).prev = prev
BY DEF At, AtName

\* Between two calls: the brackets of stack are open, and the innermost is
\* empty or a value is over.
Between(buf, stack, seen) ==
    /\ stack \in Seq(Open) /\ stack # <<>>
    /\ \E prev : /\ Shows(buf, At(prev, NoKey, stack, seen))
                 /\ Over(prev) \/ prev = Last(stack).bracket

LEMMA LastIn ==
    ASSUME NEW S, NEW s \in Seq(S), s # <<>>
    PROVE  Last(s) \in S
BY DEF Last

LEMMA LastOpen ==
    ASSUME NEW stack \in Seq(Open), stack # <<>>
    PROVE  Last(stack) \in Open /\ Last(stack).bracket \in {BeginObject, BeginArray}
<1>1. Last(stack) \in Open
  BY LastIn
<1> QED
  BY <1>1 DEF Open

LEMMA OverIs ==
    ASSUME NEW prev, Over(prev)
    PROVE  prev \notin {BeginObject, BeginArray, NameSeparator, ValueSeparator}
BY TokenKinds, Distinct DEF Over, IsClose, IsOpen, Structural

LEMMA SeparatorFollows ==
    ASSUME NEW buf, NEW stack, NEW seen, Between(buf, stack, seen)
    PROVE  \E p \in {ValueSeparator, Last(stack).bracket} :
              Shows(addElementSeparator(buf), At(p, NoKey, stack, seen))
<1>1. PICK prev : /\ Shows(buf, At(prev, NoKey, stack, seen))
                  /\ Over(prev) \/ prev = Last(stack).bracket
  BY DEF Between
<1>2. buf # <<>> /\ Last(buf) = prev
  BY <1>1 DEF Shows, At
<1>3. stack # <<>> /\ Last(stack).bracket \in {BeginObject, BeginArray}
  BY LastOpen DEF Between
<1>4. CASE Over(prev)
  <2>1. addElementSeparator(buf) = Append(buf, ValueSeparator)
    BY <1>2, <1>4, OverIs DEF addElementSeparator
  <2>2. ValueSeparator \in Tokens
    BY StructuralTokens DEF Structural
  <2>3. Take(At(prev, NoKey, stack, seen), ValueSeparator) = At(ValueSeparator, NoKey, stack, seen)
    BY <1>3, <1>4, TakesComma
  <2>4. Shows(Append(buf, ValueSeparator), At(ValueSeparator, NoKey, stack, seen))
    BY <1>1, <2>2, <2>3, ShowsNext, PrevIs
  <2> QED
    BY <2>1, <2>4
<1>5. CASE prev = Last(stack).bracket
  <2>1. addElementSeparator(buf) = buf
    BY <1>2, <1>3, <1>5 DEF addElementSeparator
  <2> QED
    BY <1>1, <1>5, <2>1
<1> QED
  BY <1>1, <1>4, <1>5

\* A value with this key is due.
Due(buf, key, stack, seen) ==
    /\ stack \in Seq(Open) /\ stack # <<>> /\ key \in Tokens
    /\ \E p : /\ Shows(addElementSeparator(buf), At(p, key, stack, seen))
              /\ ValueDue(At(p, key, stack, seen))

LEMMA DueInArray ==
    ASSUME NEW buf, NEW stack, NEW seen, Between(buf, stack, seen), Last(stack).bracket = BeginArray
    PROVE  Due(buf, NoKey, stack, seen)
<1>1. PICK p \in {ValueSeparator, Last(stack).bracket} :
          Shows(addElementSeparator(buf), At(p, NoKey, stack, seen))
  BY SeparatorFollows
<1>2. ~InObject(stack)
  BY Distinct DEF InObject
<1>3. ValueDue(At(p, NoKey, stack, seen))
  BY <1>1, <1>2 DEF ValueDue, At
<1>4. NoKey \in Tokens
  BY EmptySeq DEF Tokens, NoKey
<1> QED
  BY <1>1, <1>3, <1>4 DEF Due, Between

LEMMA DueInObject ==
    ASSUME NEW buf, NEW stack, NEW seen, Between(buf, stack, seen), Last(stack).bracket = BeginObject,
           NEW key \in Tokens
    PROVE  Due(addKey(buf, key), key, stack, seen)
<1>1. PICK p \in {ValueSeparator, Last(stack).bracket} :
          Shows(addElementSeparator(buf), At(p, NoKey, stack, seen))
  BY SeparatorFollows
<1>2. InObject(stack)
  BY DEF InObject, Between
<1>3. Shows(addString(buf, key), AtName(Quoted(key), key, stack, seen))
  BY <1>1, <1>2, TakesName, QuotedFollows, PrevIs
<1>4. Shows(addKey(buf, key), At(NameSeparator, key, stack, seen))
  <2>1. NameSeparator \in Tokens
    BY StructuralTokens DEF Structural
  <2> QED
    BY <1>3, <2>1, TakesColon, ShowsNext, PrevIs DEF addKey
<1>5. addElementSeparator(addKey(buf, key)) = addKey(buf, key)
  <2>1. addKey(buf, key) # <<>> /\ Last(addKey(buf, key)) = NameSeparator
    BY <1>4 DEF Shows, At
  <2> QED
    BY <2>1 DEF addElementSeparator
<1>6. ValueDue(At(NameSeparator, key, stack, seen))
  BY DEF ValueDue, At
<1> QED
  BY <1>4, <1>5, <1>6 DEF Due, Between

LEMMA StringSeen ==
    ASSUME NEW buf, NEW key, NEW stack, NEW seen, Due(buf, key, stack, seen), NEW s \in Tokens
    PROVE  Between(addString(buf, s), stack, Noted(seen, stack, key, s))
<1>1. PICK p : /\ Shows(addElementSeparator(buf), At(p, key, stack, seen))
               /\ ValueDue(At(p, key, stack, seen))
  BY DEF Due
<1>2. Shows(addString(buf, s), At(Quoted(s), NoKey, stack, Noted(seen, stack, key, s)))
  BY <1>1, TakesString, QuotedFollows, PrevIs
<1>3. Over(Quoted(s))
  BY QuotedIs DEF Over
<1> QED
  BY <1>2, <1>3 DEF Between, Due

LEMMA WordSeen ==
    ASSUME NEW buf, NEW key, NEW stack, NEW seen, Due(buf, key, stack, seen),
           NEW t \in Tokens, t # <<>>, IsWord(t)
    PROVE  Between(Append(addElementSeparator(buf), t), stack, Noted(seen, stack, key, t))
<1>1. PICK p : /\ Shows(addElementSeparator(buf), At(p, key, stack, seen))
               /\ ValueDue(At(p, key, stack, seen))
  BY DEF Due
<1>2. Shows(Append(addElementSeparator(buf), t),
            At(t, NoKey, stack, Noted(seen, stack, key, t)))
  BY <1>1, TakesWord, ShowsNext, PrevIs
<1>3. Over(t)
  BY DEF Over
<1> QED
  BY <1>2, <1>3 DEF Between, Due

LEMMA BracketSeen ==
    ASSUME NEW buf, NEW key, NEW stack, NEW seen, Due(buf, key, stack, seen),
           NEW t \in {BeginObject, BeginArray}
    PROVE  Between(Append(addElementSeparator(buf), t), Opened(stack, t, key),
                   Noted(seen, stack, key, t))
<1> DEFINE new == Opened(stack, t, key)
<1>1. PICK p : /\ Shows(addElementSeparator(buf), At(p, key, stack, seen))
               /\ ValueDue(At(p, key, stack, seen))
  BY DEF Due
<1>2. t \in Tokens
  BY StructuralTokens DEF Structural
<1> DEFINE all == Noted(seen, stack, key, t)
<1>3. Shows(Append(addElementSeparator(buf), t), At(t, NoKey, new, all))
  <2>1. Take(At(p, key, stack, seen), t) = At(t, NoKey, new, all)
    BY <1>1, TakesOpen
  <2> HIDE DEF new, all
  <2> QED
    BY <1>1, <1>2, <2>1, ShowsNext, PrevIs
<1>4. [bracket |-> t, name |-> key] \in Open
  BY DEF Due, Open
<1>5. new \in Seq(Open) /\ new # <<>> /\ Last(new).bracket = t
  BY <1>4 DEF Due, Last, Opened
<1> QED
  BY <1>3, <1>5 DEF Between

LEMMA BracketEnds ==
    ASSUME NEW buf, NEW stack, NEW seen, Between(buf, stack, seen), NEW t \in {EndObject, EndArray},
           Last(stack).bracket = IF t = EndObject THEN BeginObject ELSE BeginArray
    PROVE  /\ Shows(Append(buf, t), At(t, NoKey, Front(stack), seen))
           /\ Front(stack) # <<>> => Between(Append(buf, t), Front(stack), seen)
<1>1. PICK prev : /\ Shows(buf, At(prev, NoKey, stack, seen))
                  /\ Over(prev) \/ prev = Last(stack).bracket
  BY DEF Between
<1>2. Over(prev) \/ IsOpen(prev)
  BY <1>1 DEF IsOpen
<1>3. t \in Tokens /\ t # <<>>
  BY StructuralTokens DEF Structural
<1>4. stack # <<>> /\ stack \in Seq(Open)
  BY DEF Between
<1>5. Take(At(prev, NoKey, stack, seen), t) = At(t, NoKey, Front(stack), seen)
  BY <1>2, <1>4, TakesClose
<1>6. Shows(Append(buf, t), At(t, NoKey, Front(stack), seen))
  BY <1>1, <1>3, <1>5, ShowsNext, PrevIs
<1>7. Over(t)
  BY <1>3 DEF Over, IsClose
<1>8. Front(stack) \in Seq(Open)
  BY <1>4 DEF Front
<1> QED
  BY <1>6, <1>7, <1>8 DEF Between

(***************************************************************************)
(* What is open in the line, and what was opened by the calls              *)
(***************************************************************************)
Levels == [name : Tokens, namespace : BOOLEAN]
Objects == {"object", "array"}
Bracket(op) == IF op = "array" THEN BeginArray ELSE BeginObject

\* The line, k namespaces, and then the objects and arrays of open.
Nested(stack, entries, open, k) ==
    /\ stack \in Seq(Open) /\ entries \in Seq(Levels) /\ open \in Seq(Objects) /\ k \in Nat
    /\ Len(stack) = 1 + k + Len(open) /\ Len(entries) = Len(stack)
    /\ \A i \in 1..Len(stack) : stack[i].name = entries[i].name
    /\ \A i \in 1..(1 + k) : stack[i].bracket = BeginObject
    /\ \A i \in 1..Len(open) :
          stack[1 + k + i].bracket = Bracket(open[i]) /\ entries[1 + k + i].namespace = FALSE

LEMMA OneLonger ==
    ASSUME NEW S, NEW s \in Seq(S), NEW x \in S
    PROVE  /\ Append(s, x) \in Seq(S) /\ Len(Append(s, x)) = Len(s) + 1 /\ Len(s) \in Nat
           /\ Append(s, x)[Len(s) + 1] = x
           /\ \A i \in 1..Len(s) : Append(s, x)[i] = s[i]
BY AppendProperties

LEMMA SamePath ==
    ASSUME NEW stack, NEW entries, NEW open, NEW k, Nested(stack, entries, open, k)
    PROVE  \A seen, key, t : Noted(seen, entries, key, t) = Noted(seen, stack, key, t)
<1>1. DOMAIN stack = 1..Len(stack) /\ DOMAIN entries = 1..Len(stack)
  BY LenProperties DEF Nested
<1>2. \A i \in 1..Len(stack) : stack[i].name = entries[i].name
  BY DEF Nested
<1>3. Path(stack) = Path(entries)
  BY <1>1, <1>2 DEF Path
<1> QED
  BY <1>3 DEF Noted

LEMMA NestsIn ==
    ASSUME NEW stack, NEW entries, NEW open, NEW k, Nested(stack, entries, open, k),
           NEW op \in Objects, NEW key \in Tokens
    PROVE  Nested(Opened(stack, Bracket(op), key), Append(entries, [name |-> key, namespace |-> FALSE]),
                  Append(open, op), k)
<1> DEFINE x == [bracket |-> Bracket(op), name |-> key]
           y == [name |-> key, namespace |-> FALSE]
           xs == Append(stack, x)
           ys == Append(entries, y)
           ops == Append(open, op)
           n == Len(stack)
<1>1. /\ x \in Open /\ x.bracket = Bracket(op) /\ x.name = key
      /\ y \in Levels /\ y.name = key /\ y.namespace = FALSE
  BY DEF Open, Bracket, Levels
<1> HIDE DEF x, y
<1>2. /\ xs \in Seq(Open) /\ Len(xs) = n + 1 /\ n \in Nat /\ xs[n + 1] = x
      /\ \A i \in 1..n : xs[i] = stack[i]
  BY <1>1, OneLonger DEF Nested
<1>0. entries \in Seq(Levels) /\ Len(entries) = n
  BY DEF Nested
<1>3. /\ ys \in Seq(Levels) /\ Len(ys) = n + 1 /\ ys[n + 1] = y
      /\ \A i \in 1..n : ys[i] = entries[i]
  BY <1>0, <1>1, OneLonger
<1>4. /\ ops \in Seq(Objects) /\ Len(ops) = Len(open) + 1 /\ Len(open) \in Nat /\ ops[Len(open) + 1] = op
      /\ \A i \in 1..Len(open) : ops[i] = open[i]
  BY OneLonger DEF Nested
<1>5. k \in Nat /\ n = 1 + k + Len(open)
  BY DEF Nested
<1> HIDE DEF xs, ys, ops
<1>6. \A i \in 1..(n + 1) : xs[i].name = ys[i].name
  BY <1>1, <1>2, <1>3 DEF Nested
<1>7. \A i \in 1..(1 + k) : xs[i].bracket = BeginObject
  BY <1>2, <1>4, <1>5 DEF Nested
<1>8. \A i \in 1..(Len(open) + 1) : xs[1 + k + i].bracket = Bracket(ops[i]) /\ ys[1 + k + i].namespace = FALSE
  <2> SUFFICES ASSUME NEW i \in 1..(Len(open) + 1)
               PROVE  xs[1 + k + i].bracket = Bracket(ops[i]) /\ ys[1 + k + i].namespace = FALSE
    OBVIOUS
  <2>1. CASE i = Len(open) + 1
    <3>1. 1 + k + i = n + 1
      BY <1>4, <1>5, <2>1
    <3> QED
      BY <1>1, <1>2, <1>3, <1>4, <2>1, <3>1
  <2>2. CASE i # Len(open) + 1
    <3>1. i \in 1..Len(open) /\ 1 + k + i \in 1..n
      BY <1>4, <1>5, <2>2
    <3> QED
      BY <1>2, <1>3, <1>4, <3>1 DEF Nested
  <2> QED
    BY <2>1, <2>2
<1>9. Nested(xs, ys, ops, k)
  BY <1>2, <1>3, <1>4, <1>5, <1>6, <1>7, <1>8 DEF Nested
<1> QED
  BY <1>9 DEF Opened, xs, ys, ops, x, y

LEMMA NestsNamespace ==
    ASSUME NEW stack, NEW entries, NEW k, Nested(stack, entries, <<>>, k), NEW key \in Tokens
    PROVE  Nested(Opened(stack, BeginObject, key), Append(entries, [name |-> key, namespace |-> TRUE]),
                  <<>>, k + 1)
<1> DEFINE x == [bracket |-> BeginObject, name |-> key]
           y == [name |-> key, namespace |-> TRUE]
           xs == Append(stack, x)
           ys == Append(entries, y)
           none == <<>>
           n == Len(stack)
<1>1. /\ x \in Open /\ x.bracket = BeginObject /\ x.name = key
      /\ y \in Levels /\ y.name = key
  BY DEF Open, Levels
<1> HIDE DEF x, y
<1>2. /\ xs \in Seq(Open) /\ Len(xs) = n + 1 /\ n \in Nat /\ xs[n + 1] = x
      /\ \A i \in 1..n : xs[i] = stack[i]
  BY <1>1, OneLonger DEF Nested
<1>3. /\ ys \in Seq(Levels) /\ Len(ys) = n + 1 /\ ys[n + 1] = y
      /\ \A i \in 1..n : ys[i] = entries[i]
  BY <1>1, OneLonger DEF Nested
<1>4. none \in Seq(Objects) /\ Len(none) = 0 /\ Nested(stack, entries, none, k)
  BY EmptySeq
<1> HIDE DEF xs, ys, none
<1>5. k \in Nat /\ n = 1 + k
  BY <1>4 DEF Nested
<1>6. \A i \in 1..(n + 1) : xs[i].name = ys[i].name
  BY <1>1, <1>2, <1>3, <1>4 DEF Nested
<1>7. \A i \in 1..(1 + (k + 1)) : xs[i].bracket = BeginObject
  BY <1>1, <1>2, <1>4, <1>5 DEF Nested
<1>8. Nested(xs, ys, none, k + 1)
  BY <1>2, <1>3, <1>4, <1>5, <1>6, <1>7 DEF Nested
<1> QED
  BY <1>8 DEF Opened, xs, ys, none, x, y

LEMMA WithoutLast ==
    ASSUME NEW S, NEW s \in Seq(S), s # <<>>
    PROVE  /\ Len(s) \in Nat /\ Len(s) > 0
           /\ Front(s) \in Seq(S) /\ Len(Front(s)) = Len(s) - 1
           /\ \A i \in 1..(Len(s) - 1) : Front(s)[i] = s[i]
           /\ Front(s) = SubSeq(s, 1, Len(s) - 1)
<1>1. Len(s) \in Nat /\ Len(s) > 0
  OBVIOUS
<1>2. Front(s) = SubSeq(s, 1, Len(s) - 1)
  BY DEF Front
<1> DEFINE n == Len(s) - 1
           t == SubSeq(s, 1, n)
<1>3. n \in Nat /\ n \in Int /\ 1 \in Int /\ \A i \in 1..n : s[i] \in S
  BY <1>1
<1> HIDE DEF n
<1>4. /\ t \in Seq(S) /\ Len(t) = IF 1 <= n THEN n - 1 + 1 ELSE 0
      /\ \A i \in 1..(n - 1 + 1) : t[i] = s[1 + i - 1]
  BY <1>3, SubSeqProperties
<1> HIDE DEF t
<1>5. Len(t) = n /\ \A i \in 1..n : t[i] = s[i]
  BY <1>3, <1>4
<1> QED
  BY <1>1, <1>2, <1>4, <1>5 DEF n, t

\* The innermost bracket of the line is that of the innermost call.
LEMMA Innermost ==
    ASSUME NEW stack, NEW entries, NEW open, NEW k, Nested(stack, entries, open, k)
    PROVE  /\ stack # <<>>
           /\ open # <<>> => Last(stack).bracket = Bracket(Last(open)) /\ Last(entries).namespace = FALSE
           /\ open = <<>> => Last(stack).bracket = BeginObject
<1>1. /\ Len(stack) \in Nat /\ Len(open) \in Nat /\ k \in Nat
      /\ Len(stack) = 1 + k + Len(open) /\ Len(entries) = Len(stack)
  BY LenProperties DEF Nested
<1>2. stack # <<>>
  BY <1>1
<1>3. ASSUME open # <<>>
      PROVE  Last(stack).bracket = Bracket(Last(open)) /\ Last(entries).namespace = FALSE
  <2>1. Len(open) \in 1..Len(open)
    BY <1>1, <1>3, EmptySeq DEF Nested
  <2> QED
    BY <1>1, <2>1 DEF Nested, Last
<1>4. ASSUME open = <<>>
      PROVE  Last(stack).bracket = BeginObject
  <2>1. Len(open) = 0
    BY <1>4
  <2>2. Len(stack) \in 1..(1 + k)
    BY <1>1, <2>1
  <2> QED
    BY <2>2 DEF Nested, Last
<1> QED
  BY <1>2, <1>3, <1>4

LEMMA NestsOut ==
    ASSUME NEW stack, NEW entries, NEW open, NEW k, Nested(stack, entries, open, k), open # <<>>
    PROVE  Nested(Front(stack), Front(entries), Front(open), k)
<1> DEFINE xs == Front(stack)
           ys == Front(entries)
           ops == Front(open)
           n == Len(stack)
<1>1. /\ stack # <<>> /\ Len(open) \in Nat /\ Len(open) > 0 /\ ops \in Seq(Objects) /\ Len(ops) = Len(open) - 1
      /\ \A i \in 1..(Len(open) - 1) : ops[i] = open[i]
  BY Innermost, WithoutLast DEF Nested
<1>2. /\ n \in Nat /\ xs \in Seq(Open) /\ Len(xs) = n - 1
      /\ \A i \in 1..(n - 1) : xs[i] = stack[i]
  BY <1>1, WithoutLast DEF Nested
<1>3. entries # <<>>
  BY <1>1, EmptySeq DEF Nested
<1>4. ys \in Seq(Levels) /\ Len(ys) = n - 1 /\ \A i \in 1..(n - 1) : ys[i] = entries[i]
  BY <1>3, WithoutLast DEF Nested
<1>5. k \in Nat /\ n = 1 + k + Len(open)
  BY DEF Nested
<1> HIDE DEF xs, ys, ops
<1>6. \A i \in 1..(n - 1) : xs[i].name = ys[i].name
  BY <1>2, <1>4 DEF Nested
<1>7. \A i \in 1..(1 + k) : xs[i].bracket = BeginObject
  <2> SUFFICES ASSUME NEW i \in 1..(1 + k) PROVE xs[i].bracket = BeginObject
    OBVIOUS
  <2>1. i \in 1..(n - 1)
    BY <1>1, <1>5
  <2> QED
    BY <1>2, <2>1 DEF Nested
<1>8. \A i \in 1..(Len(open) - 1) : xs[1 + k + i].bracket = Bracket(ops[i]) /\ ys[1 + k + i].namespace = FALSE
  <2> SUFFICES ASSUME NEW i \in 1..(Len(open) - 1)
               PROVE  xs[1 + k + i].bracket = Bracket(ops[i]) /\ ys[1 + k + i].namespace = FALSE
    OBVIOUS
  <2>1. i \in 1..Len(open) /\ 1 + k + i \in 1..(n - 1)
    BY <1>1, <1>5
  <2> QED
    BY <1>1, <1>2, <1>4, <2>1 DEF Nested
<1>9. Nested(xs, ys, ops, k)
  BY <1>1, <1>2, <1>4, <1>5, <1>6, <1>7, <1>8 DEF Nested
<1> QED
  BY <1>9 DEF xs, ys, ops

(***************************************************************************)
(* One call after the other                                                *)
(***************************************************************************)
Enc(buf, k) == [buf |-> buf, openNamespaces |-> k]
Said(entries, seen) == [stack |-> entries, seen |-> seen]
Keyed(buf, call) == IF call.key = <<>> THEN buf ELSE addKey(buf, call.key)
IsBad(call) == call.op = "reflected" /\ call.val = Unencodable

LEMMA AddString ==
    ASSUME NEW buf, NEW k, NEW call, call.op = "string"
    PROVE  Add(Enc(buf, k), call) = Enc(addString(Keyed(buf, call), call.val), k)
BY DEF Enc, Add, Keyed

LEMMA AddNumber ==
    ASSUME NEW buf, NEW k, NEW call, call.op = "number"
    PROVE  Add(Enc(buf, k), call) = Enc(addNumber(Keyed(buf, call), call.val), k)
BY DEF Enc, Add, Keyed

LEMMA AddReflected ==
    ASSUME NEW buf, NEW k, NEW call, call.op = "reflected", ~IsBad(call)
    PROVE  Add(Enc(buf, k), call) = Enc(Append(addElementSeparator(Keyed(buf, call)), call.val), k)
BY DEF Enc, Add, Keyed, IsBad

LEMMA AddError ==
    ASSUME NEW buf, NEW k, NEW call, IsBad(call), NEW key, key = call.key \o <<"Error">>
    PROVE  Add(Enc(buf, k), call) = Enc(addString(addKey(buf, key), call.val), k)
BY DEF Enc, Add, IsBad

LEMMA AddOpen ==
    ASSUME NEW buf, NEW k, NEW call, call.op \in {"object", "array", "namespace"}
    PROVE  Add(Enc(buf, k), call) = Enc(Append(addElementSeparator(Keyed(buf, call)), Bracket(call.op)),
                                        IF call.op = "namespace" THEN k + 1 ELSE k)
BY DEF Enc, Add, Keyed, Opens, Bracket

LEMMA AddEnd ==
    ASSUME NEW buf, NEW k, NEW call, call.op = "end"
    PROVE  Add(Enc(buf, k), call) = Enc(Append(buf, call.val), k)
BY DEF Enc, Add

LEMMA MeantValue ==
    ASSUME NEW entries, NEW seen, NEW call, call.op \in {"string", "number", "reflected"}, ~IsBad(call)
    PROVE  Meant(Said(entries, seen), call) = Said(entries, Noted(seen, entries, call.key, call.val))
BY DEF Said, Meant, IsBad, Noted

LEMMA MeantError ==
    ASSUME NEW entries, NEW seen, NEW call, IsBad(call)
    PROVE  Meant(Said(entries, seen), call)
           = Said(entries, Noted(seen, entries, call.key \o <<"Error">>, call.val))
BY DEF Said, Meant, IsBad, Noted

LEMMA MeantOpen ==
    ASSUME NEW entries, NEW seen, NEW call, call.op \in {"object", "array", "namespace"}
    PROVE  Meant(Said(entries, seen), call)
           = Said(Append(entries, [name |-> call.key, namespace |-> call.op = "namespace"]),
                  Noted(seen, entries, call.key, Bracket(call.op)))
BY DEF Said, Meant, Noted, Bracket

LEMMA MeantEnd ==
    ASSUME NEW entries, NEW seen, NEW call, call.op = "end"
    PROVE  Meant(Said(entries, seen), call)
           = Said(SubSeq(entries, 1, SelectLastInSeq(entries, LAMBDA e : ~e.namespace) - 1), seen)
BY DEF Said, Meant

\* The end of an object that holds no namespaces.
LEMMA LastIsClosed ==
    ASSUME NEW entries \in Seq(Levels), entries # <<>>, Last(entries).namespace = FALSE
    PROVE  SubSeq(entries, 1, SelectLastInSeq(entries, LAMBDA e : ~e.namespace) - 1) = Front(entries)
<1> DEFINE I == {i \in 1..Len(entries) : ~entries[i].namespace}
<1>1. Len(entries) \in Nat /\ Len(entries) > 0 /\ Len(entries) \in I /\ I \in SUBSET (1..Len(entries))
  BY WithoutLast DEF Last
<1>2. SelectLastInSeq(entries, LAMBDA e : ~e.namespace) = Max(I)
  BY <1>1, Zenon DEF SelectLastInSeq
<1> HIDE DEF I
<1>3. Joining!Max(I) \in I /\ \A y \in I : Joining!Max(I) >= y
  BY <1>1, Joining!MaxIsGreatest
<1>4. Max(I) = Joining!Max(I)
  BY DEF Max, Joining!Max
<1>5. Max(I) = Len(entries)
  <2>1. Joining!Max(I) \in 1..Len(entries) /\ Joining!Max(I) >= Len(entries)
    BY <1>1, <1>3
  <2> QED
    BY <1>1, <1>4, <2>1
<1>6. Front(entries) = SubSeq(entries, 1, Len(entries) - 1)
  BY WithoutLast
<1> QED
  BY <1>2, <1>5, <1>6, Zenon

TokenCalls ==
    [op : {"string", "number", "reflected", "object", "array", "namespace", "end"},
     key : Tokens, val : Tokens]

LEMMA CallsOfStrings ==
    Calls \subseteq TokenCalls /\ Seq(Calls) \subseteq Seq(TokenCalls)
<1>1. STRING \subseteq Char
  BY Zenon DEF Char
<1>2. \A S, T : S \subseteq T => Seq(S) \subseteq Seq(T)
  BY SeqMonotonic
<1>3. Seq(STRING) \subseteq Tokens
  BY <1>1, <1>2, Zenon DEF Tokens
<1>4. Calls \subseteq TokenCalls
  BY <1>3 DEF Calls, TokenCalls
<1> QED
  BY <1>2, <1>4

LEMMA CallIs ==
    ASSUME NEW call \in TokenCalls
    PROVE  /\ call.op \in {"string", "number", "reflected", "object", "array", "namespace", "end"}
           /\ call.key \in Tokens /\ call.val \in Tokens
           /\ call.key \o <<"Error">> \in Tokens
<1>1. call.key \in Tokens /\ call.val \in Tokens
  BY DEF TokenCalls
<1>2. "Error" \in Char
  BY Zenon DEF Char
<1>3. <<"Error">> \in Tokens
  BY <1>2, OneOf, Zenon DEF Tokens
<1>4. \A s, t \in Tokens : s \o t \in Tokens
  BY ConcatProperties DEF Tokens
<1> QED
  BY <1>1, <1>3, <1>4 DEF TokenCalls

\* The encoder and what was logged, after the same calls, which leave open.
Tells(enc, m, open) ==
    \E buf, stack, entries, k, seen :
        /\ enc = Enc(buf, k) /\ m = Said(entries, seen)
        /\ Between(buf, stack, seen) /\ Nested(stack, entries, open, k)

LEMMA ValueFollows ==
    ASSUME NEW buf, NEW stack, NEW seen, Between(buf, stack, seen),
           NEW entries, NEW open, NEW k, Nested(stack, entries, open, k),
           NEW call \in TokenCalls, MayCall(open, call), call.op # "end"
    PROVE  Due(Keyed(buf, call), call.key, stack, seen)
<1>1. CASE open # <<>> /\ Last(open) = "array"
  <2>1. call.key = NoKey /\ Keyed(buf, call) = buf
    BY <1>1 DEF MayCall, Keyed, NoKey
  <2>2. Last(stack).bracket = BeginArray
    BY <1>1, Innermost DEF Bracket
  <2> QED
    BY <2>1, <2>2, DueInArray
<1>2. CASE ~(open # <<>> /\ Last(open) = "array")
  <2>1. call.key # <<>> /\ Keyed(buf, call) = addKey(buf, call.key)
    BY <1>2 DEF MayCall, Keyed
  <2>2. Last(stack).bracket = BeginObject
    BY <1>2, Innermost DEF Bracket
  <2> QED
    BY <2>1, <2>2, CallIs, DueInObject
<1> QED
  BY <1>1, <1>2

\* The name of a value that cannot be encoded is that of its error.
LEMMA ErrorFollows ==
    ASSUME NEW buf, NEW stack, NEW seen, Between(buf, stack, seen),
           NEW entries, NEW open, NEW k, Nested(stack, entries, open, k),
           NEW call \in TokenCalls, MayCall(open, call), IsBad(call)
    PROVE  Due(addKey(buf, call.key \o <<"Error">>), call.key \o <<"Error">>, stack, seen)
<1>1. ~(open # <<>> /\ Last(open) = "array")
  BY DEF MayCall, IsBad
<1>2. Last(stack).bracket = BeginObject
  BY <1>1, Innermost DEF Bracket
<1> DEFINE key == call.key \o <<"Error">>
<1>3. key \in Tokens
  BY CallIs
<1> HIDE DEF key
<1>4. Due(addKey(buf, key), key, stack, seen)
  BY <1>2, <1>3, DueInObject
<1> QED
  BY <1>4 DEF key

LEMMA NumberSeen ==
    ASSUME NEW buf, NEW key, NEW stack, NEW seen, Due(buf, key, stack, seen),
           NEW t \in Tokens, t # <<>>, IsWord(t)
    PROVE  Between(addNumber(buf, t), stack, Noted(seen, stack, key, t))
<1>1. CASE isNotFinite(t)
  BY <1>1, StringSeen DEF addNumber
<1>2. CASE ~isNotFinite(t)
  BY <1>2, WordSeen DEF addNumber
<1> QED
  BY <1>1, <1>2

LEMMA TellsValue ==
    ASSUME NEW enc, NEW m, NEW open, Tells(enc, m, open),
           NEW call \in TokenCalls, MayCall(open, call), call.op \in {"string", "number", "reflected"}
    PROVE  Tells(Add(enc, call), Meant(m, call), open)
<1>1. PICK buf, stack, entries, k, seen :
        /\ enc = Enc(buf, k) /\ m = Said(entries, seen)
        /\ Between(buf, stack, seen) /\ Nested(stack, entries, open, k)
  BY DEF Tells
<1>2. \A x, key, t : Noted(x, entries, key, t) = Noted(x, stack, key, t)
  BY <1>1, SamePath
<1>3. call.key \in Tokens /\ call.val \in Tokens
  BY CallIs
<1>4. CASE IsBad(call)
  <2> DEFINE key == call.key \o <<"Error">>
             all == Noted(seen, stack, key, call.val)
             b == addString(addKey(buf, key), call.val)
  <2>1. Due(addKey(buf, key), key, stack, seen)
    BY <1>1, <1>4, ErrorFollows
  <2>2. Add(enc, call) = Enc(b, k)
    BY <1>1, <1>4, AddError
  <2>3. Meant(m, call) = Said(entries, all)
    <3>1. Meant(m, call) = Said(entries, Noted(seen, entries, key, call.val))
      BY <1>1, <1>4, MeantError
    <3> QED
      BY <1>2, <3>1
  <2> HIDE DEF key
  <2>4. Between(b, stack, all)
    BY <1>3, <2>1, StringSeen
  <2> HIDE DEF all, b
  <2> QED
    BY <1>1, <2>2, <2>3, <2>4 DEF Tells
<1>5. CASE ~IsBad(call)
  <2> DEFINE all == Noted(seen, stack, call.key, call.val)
  <2>1. Due(Keyed(buf, call), call.key, stack, seen)
    BY <1>1, ValueFollows
  <2>2. Meant(m, call) = Said(entries, all)
    <3>1. Meant(m, call) = Said(entries, Noted(seen, entries, call.key, call.val))
      BY <1>1, <1>5, MeantValue
    <3> QED
      BY <1>2, <3>1
  <2>3. \E b : Add(enc, call) = Enc(b, k) /\ Between(b, stack, all)
    <3>1. CASE call.op = "string"
      <4>1. Add(enc, call) = Enc(addString(Keyed(buf, call), call.val), k)
        BY <1>1, <3>1, AddString
      <4> QED
        BY <1>3, <2>1, <4>1, StringSeen
    <3>2. CASE call.op = "number"
      <4>1. Add(enc, call) = Enc(addNumber(Keyed(buf, call), call.val), k)
        BY <1>1, <3>2, AddNumber
      <4>2. call.val # <<>> /\ IsWord(call.val)
        BY <3>2 DEF MayCall
      <4> QED
        BY <1>3, <2>1, <4>1, <4>2, NumberSeen
    <3>3. CASE call.op = "reflected"
      <4>1. Add(enc, call) = Enc(Append(addElementSeparator(Keyed(buf, call)), call.val), k)
        BY <1>1, <1>5, <3>3, AddReflected
      <4>2. call.val # <<>> /\ IsWord(call.val)
        BY <3>3 DEF MayCall
      <4> QED
        BY <1>3, <2>1, <4>1, <4>2, WordSeen
    <3> QED
      BY <3>1, <3>2, <3>3
  <2> HIDE DEF all
  <2> QED
    BY <1>1, <2>2, <2>3 DEF Tells
<1> QED
  BY <1>4, <1>5

LEMMA TellsOpen ==
    ASSUME NEW enc, NEW m, NEW open, Tells(enc, m, open),
           NEW call \in TokenCalls, MayCall(open, call), call.op \in {"object", "array", "namespace"},
           call.op = "namespace" => open = <<>>
    PROVE  Tells(Add(enc, call), Meant(m, call), Bracketed(open, call))
<1>1. PICK buf, stack, entries, k, seen :
        /\ enc = Enc(buf, k) /\ m = Said(entries, seen)
        /\ Between(buf, stack, seen) /\ Nested(stack, entries, open, k)
  BY DEF Tells
<1>2. \A x, key, t : Noted(x, entries, key, t) = Noted(x, stack, key, t)
  BY <1>1, SamePath
<1>3. call.key \in Tokens
  BY CallIs
<1> DEFINE t == Bracket(call.op)
           all == Noted(seen, stack, call.key, t)
           b == Append(addElementSeparator(Keyed(buf, call)), t)
           inner == Opened(stack, t, call.key)
           named == Append(entries, [name |-> call.key, namespace |-> call.op = "namespace"])
<1>4. Due(Keyed(buf, call), call.key, stack, seen)
  BY <1>1, ValueFollows
<1>5. Between(b, inner, all)
  <2>1. t \in {BeginObject, BeginArray}
    BY DEF Bracket
  <2> HIDE DEF t
  <2> QED
    BY <1>4, <2>1, BracketSeen
<1>6. Add(enc, call) = Enc(b, IF call.op = "namespace" THEN k + 1 ELSE k)
  BY <1>1, AddOpen
<1>7. Meant(m, call) = Said(named, all)
  <2>1. Meant(m, call) = Said(named, Noted(seen, entries, call.key, t))
    BY <1>1, MeantOpen
  <2> QED
    BY <1>2, <2>1
<1>8. CASE call.op = "namespace"
  <2>1. Bracketed(open, call) = <<>> /\ t = BeginObject
    BY <1>8 DEF Bracketed, Bracket
  <2>2. named = Append(entries, [name |-> call.key, namespace |-> TRUE])
    BY <1>8
  <2>3. Nested(inner, named, <<>>, k + 1)
    <3>1. Nested(stack, entries, <<>>, k)
      BY <1>1, <1>8
    <3>2. Nested(Opened(stack, BeginObject, call.key),
                 Append(entries, [name |-> call.key, namespace |-> TRUE]), <<>>, k + 1)
      BY <1>3, <3>1, NestsNamespace
    <3> QED
      BY <2>1, <2>2, <3>2
  <2> HIDE DEF t, all, b, inner, named
  <2>4. Add(enc, call) = Enc(b, k + 1)
    BY <1>6, <1>8
  <2>5. Nested(inner, named, Bracketed(open, call), k + 1)
    BY <2>1, <2>3
  <2> QED
    BY <1>5, <1>7, <2>4, <2>5 DEF Tells
<1>9. CASE call.op # "namespace"
  <2>1. call.op \in Objects /\ Bracketed(open, call) = Append(open, call.op)
    BY <1>9 DEF Bracketed, Objects
  <2>2. named = Append(entries, [name |-> call.key, namespace |-> FALSE])
    BY <1>9
  <2>3. Nested(inner, named, Append(open, call.op), k)
    <3>1. Nested(inner, Append(entries, [name |-> call.key, namespace |-> FALSE]), Append(open, call.op), k)
      BY <1>1, <1>3, <2>1, NestsIn
    <3> QED
      BY <2>2, <3>1
  <2> HIDE DEF t, all, b, inner, named
  <2>4. Add(enc, call) = Enc(b, k)
    BY <1>6, <1>9
  <2>5. Nested(inner, named, Bracketed(open, call), k)
    BY <2>1, <2>3
  <2> QED
    BY <1>5, <1>7, <2>4, <2>5 DEF Tells
<1> QED
  BY <1>8, <1>9

LEMMA TellsEnd ==
    ASSUME NEW enc, NEW m, NEW open, Tells(enc, m, open),
           NEW call \in TokenCalls, MayCall(open, call), call.op = "end"
    PROVE  Tells(Add(enc, call), Meant(m, call), Bracketed(open, call))
<1>1. PICK buf, stack, entries, k, seen :
        /\ enc = Enc(buf, k) /\ m = Said(entries, seen)
        /\ Between(buf, stack, seen) /\ Nested(stack, entries, open, k)
  BY DEF Tells
<1>2. open # <<>> /\ call.val = IF Last(open) = "array" THEN EndArray ELSE EndObject
  BY DEF MayCall
<1>3. Add(enc, call) = Enc(Append(buf, call.val), k)
  BY <1>1, AddEnd
<1>4. Bracketed(open, call) = Front(open)
  BY DEF Bracketed
<1>5. Nested(Front(stack), Front(entries), Front(open), k)
  BY <1>1, <1>2, NestsOut
<1>6. Between(Append(buf, call.val), Front(stack), seen)
  <2>1. Last(stack).bracket = IF Last(open) = "array" THEN BeginArray ELSE BeginObject
    BY <1>1, <1>2, Innermost DEF Bracket
  <2>2. /\ call.val \in {EndObject, EndArray}
        /\ Last(stack).bracket = IF call.val = EndObject THEN BeginObject ELSE BeginArray
    BY <1>2, <2>1, Distinct
  <2>3. Front(stack) # <<>>
    BY <1>5, Innermost
  <2> QED
    BY <1>1, <2>2, <2>3, BracketEnds
<1>7. Meant(m, call) = Said(Front(entries), seen)
  <2>1. entries \in Seq(Levels) /\ entries # <<>>
    <3>1. Len(entries) = Len(stack) /\ Len(stack) = 1 + k + Len(open) /\ k \in Nat /\ Len(open) \in Nat
      BY <1>1, LenProperties DEF Nested
    <3> QED
      BY <1>1, <3>1, EmptySeq DEF Nested
  <2>2. Last(entries).namespace = FALSE
    BY <1>1, <1>2, Innermost
  <2>3. SubSeq(entries, 1, SelectLastInSeq(entries, LAMBDA e : ~e.namespace) - 1) = Front(entries)
    BY <2>1, <2>2, LastIsClosed
  <2>4. Meant(m, call) = Said(SubSeq(entries, 1, SelectLastInSeq(entries, LAMBDA e : ~e.namespace) - 1), seen)
    BY <1>1, MeantEnd
  <2> QED
    BY <2>3, <2>4, Zenon
<1> QED
  BY <1>3, <1>4, <1>5, <1>6, <1>7 DEF Tells

LEMMA TellsNext ==
    ASSUME NEW enc, NEW m, NEW open, Tells(enc, m, open), NEW call \in TokenCalls, MayCall(open, call),
           call.op = "namespace" => open = <<>>
    PROVE  Tells(Add(enc, call), Meant(m, call), Bracketed(open, call))
<1>1. CASE call.op \in {"string", "number", "reflected"}
  <2>1. Bracketed(open, call) = open
    BY <1>1 DEF Bracketed
  <2> QED
    BY <1>1, <2>1, TellsValue
<1>2. CASE call.op \in {"object", "array", "namespace"}
  BY <1>2, TellsOpen
<1>3. CASE call.op = "end"
  BY <1>3, TellsEnd
<1> QED
  BY <1>1, <1>2, <1>3, CallIs

\* The line before its first field.
BeginLine == Enc(<<BeginObject>>, 0)

LEMMA TellsNothing ==
    Tells(BeginLine, NothingLogged, <<>>)
<1> DEFINE none == <<>>
           stack == Opened(none, BeginObject, NoKey)
           seen == Noted(none, none, NoKey, BeginObject)
           x == [bracket |-> BeginObject, name |-> NoKey]
           y == [name |-> NoKey, namespace |-> FALSE]
           all == <<BeginObject>>
<1>1. StartOfLine = At(none, NoKey, none, none) /\ ValueDue(At(none, NoKey, none, none))
  BY DEF StartOfLine, At, NoKey, ValueDue
<1>2. BeginObject \in Tokens
  BY StructuralTokens DEF Structural
<1>3. Read(all) = At(BeginObject, NoKey, stack, seen)
  <2>1. none \in Seq(Tokens) /\ Append(none, BeginObject) = all
    BY EmptySeq
  <2>2. Read(none) = StartOfLine
    BY ReadNone
  <2>3. Read(Append(none, BeginObject)) = Take(Read(none), BeginObject)
    <3> HIDE DEF none
    <3> QED
      BY <1>2, <2>1, ReadNext
  <2>4. Take(At(none, NoKey, none, none), BeginObject) = At(BeginObject, NoKey, stack, seen)
    <3> HIDE DEF none
    <3> QED
      BY <1>1, TakesOpen
  <2> HIDE DEF none, stack, seen, all
  <2> QED
    BY <1>1, <2>1, <2>2, <2>3, <2>4
<1>4. all \in Seq(Tokens) /\ all # <<>> /\ Last(all) = BeginObject
  BY <1>2 DEF Last
<1>5. NoKey \in Tokens
  BY EmptySeq DEF NoKey, Tokens
<1>6. x \in Open /\ x.bracket = BeginObject /\ y \in Levels /\ x.name = y.name
  BY <1>5 DEF Open, Levels
<1>7. stack = <<x>> /\ stack \in Seq(Open) /\ stack # <<>> /\ Last(stack) = x
  BY <1>6 DEF Opened, Last
<1>8. Between(all, stack, seen)
  <2> HIDE DEF stack, seen, all, x
  <2> QED
    BY <1>3, <1>4, <1>6, <1>7, PrevIs DEF Between, Shows
<1>9. Nested(stack, <<y>>, none, 0)
  <2>1. <<y>> \in Seq(Levels) /\ none \in Seq(Objects) /\ Len(none) = 0
    BY <1>6
  <2> HIDE DEF x, y, stack
  <2> QED
    BY <1>6, <1>7, <2>1 DEF Nested
<1>10. NothingLogged = Said(<<y>>, seen)
  <2> DEFINE w == <<Path(none), NoKey, BeginObject>>
  <2>1. Path(none) = <<>>
    BY DEF Path
  <2>2. w = << <<>>, <<>>, BeginObject >>
    BY <2>1 DEF NoKey
  <2>3. seen = <<w>>
    <3> HIDE DEF w
    <3> QED
      BY DEF Noted, w
  <2> HIDE DEF seen, w
  <2> QED
    BY <2>2, <2>3 DEF NothingLogged, Said, NoKey, y
<1> HIDE DEF stack, seen, all, x, y
<1> QED
  BY <1>8, <1>9, <1>10 DEF Tells, BeginLine, all

\* Whatever whole fields are logged.
LEMMA CallsTell ==
    ASSUME NEW calls \in Seq(TokenCalls), FieldsOK(calls), ~NamespaceInside(calls)
    PROVE  Tells(addFields(BeginLine, calls), MeantBy(calls), <<>>)
<1> DEFINE Told(s) == Tells(addFields(BeginLine, s), MeantBy(s), Brackets(s))
           T == {i \in 0..Len(calls) : Told(First(calls, i))}
<1>1. /\ Len(calls) \in Nat
      /\ First(calls, 0) = <<>> /\ First(calls, Len(calls)) = calls
      /\ \A i \in 0..Len(calls) : First(calls, i) \in Seq(TokenCalls)
      /\ \A i \in 1..Len(calls) : calls[i] \in TokenCalls /\ First(calls, i) = Append(First(calls, i - 1), calls[i])
  BY Beginnings
<1>2. Told(<<>>)
  BY TellsNothing, AddNone, MeantNone, BracketsNone
<1>3. ASSUME NEW s \in Seq(TokenCalls), NEW call \in TokenCalls, Told(s), MayCall(Brackets(s), call),
             call.op = "namespace" => Brackets(s) = <<>>
      PROVE  Told(Append(s, call))
  <2>1. Tells(Add(addFields(BeginLine, s), call), Meant(MeantBy(s), call), Bracketed(Brackets(s), call))
    BY <1>3, TellsNext
  <2> QED
    BY <2>1, AddNext, MeantNext, BracketsNext
<1>4. \A i \in 1..Len(calls) : /\ MayCall(Brackets(First(calls, i - 1)), calls[i])
                               /\ calls[i].op = "namespace" => Brackets(First(calls, i - 1)) = <<>>
  <2>1. \A i : Before(calls, i) = Brackets(First(calls, i - 1))
    BY DEF Before, First
  <2>2. DOMAIN calls = 1..Len(calls)
    BY LenProperties
  <2> QED
    BY <2>1, <2>2 DEF FieldsOK, NamespaceInside
<1> HIDE DEF Told
<1>5. 0 \in T /\ T \in SUBSET (0..Len(calls))
  BY <1>1, <1>2
<1>6. \A i \in 1..Len(calls) : i - 1 \in T => i \in T
  <2> SUFFICES ASSUME NEW i \in 1..Len(calls), i - 1 \in T PROVE i \in T
    OBVIOUS
  <2>1. i - 1 \in 0..Len(calls) /\ Told(First(calls, i - 1)) /\ i \in 0..Len(calls)
    BY <1>1
  <2>2. First(calls, i - 1) \in Seq(TokenCalls) /\ calls[i] \in TokenCalls
    BY <1>1, <2>1
  <2>3. Told(Append(First(calls, i - 1), calls[i]))
    BY <1>3, <1>4, <2>1, <2>2
  <2>4. Told(First(calls, i))
    BY <1>1, <2>3
  <2> QED
    BY <2>1, <2>4
<1>7. T = 0..Len(calls)
  <2> HIDE DEF T
  <2> QED
    BY <1>1, <1>5, <1>6, Joining!CountUp
<1>8. Len(calls) \in T
  <2> HIDE DEF T
  <2> QED
    BY <1>1, <1>7
<1>9. Told(calls)
  BY <1>1, <1>8
<1> QED
  BY <1>9 DEF Told, FieldsOK

(***************************************************************************)
(* The end of the line                                                     *)
(***************************************************************************)
Ends(j) == [i \in 1..j |-> EndObject]

LEMMA MoreEnds ==
    ASSUME NEW buf \in Seq(Tokens), NEW j \in Nat
    PROVE  /\ buf \o Ends(0) = buf
           /\ buf \o Ends(j + 1) = Append(buf \o Ends(j), EndObject)
           /\ buf \o Ends(j) \in Seq(Tokens)
<1>1. EndObject \in Tokens
  BY StructuralTokens DEF Structural
<1>2. Ends(j) \in Seq(Tokens) /\ Ends(0) = <<>> /\ Ends(j + 1) = Append(Ends(j), EndObject)
  BY <1>1 DEF Ends
<1>3. \A s \in Seq(Tokens) : buf \o Append(s, EndObject) = Append(buf \o s, EndObject)
  BY <1>1
<1>4. buf \o <<>> = buf
  OBVIOUS
<1> QED
  BY <1>2, <1>3, <1>4, ConcatProperties

AllObjects(stack, n) == Len(stack) = n /\ \A i \in 1..n : stack[i].bracket = BeginObject

LEMMA ClosesOne ==
    ASSUME NEW buf, NEW stack, NEW seen, Between(buf, stack, seen),
           NEW n \in Nat, n > 0, AllObjects(stack, n)
    PROVE  /\ Shows(Append(buf, EndObject), At(EndObject, NoKey, Front(stack), seen))
           /\ AllObjects(Front(stack), n - 1)
           /\ n > 1 => Between(Append(buf, EndObject), Front(stack), seen)
           /\ n = 1 => Front(stack) = <<>>
<1>1. stack \in Seq(Open) /\ stack # <<>>
  BY DEF Between
<1>2. /\ Front(stack) \in Seq(Open) /\ Len(Front(stack)) = n - 1
      /\ \A i \in 1..(n - 1) : Front(stack)[i] = stack[i]
  BY <1>1, WithoutLast DEF AllObjects
<1>3. Last(stack).bracket = BeginObject
  BY DEF Last, AllObjects
<1>4. /\ Shows(Append(buf, EndObject), At(EndObject, NoKey, Front(stack), seen))
      /\ Front(stack) # <<>> => Between(Append(buf, EndObject), Front(stack), seen)
  BY <1>3, BracketEnds
<1>5. AllObjects(Front(stack), n - 1)
  BY <1>2 DEF AllObjects
<1>6. n > 1 => Front(stack) # <<>>
  BY <1>2
<1>7. n = 1 => Front(stack) = <<>>
  BY <1>2
<1> QED
  BY <1>4, <1>5, <1>6, <1>7

\* j of n objects are closed.
Closing(buf, seen, n, j) ==
    \E stack, m : /\ m \in Nat /\ m = n - j /\ AllObjects(stack, m)
                  /\ Between(buf \o Ends(j), stack, seen)

LEMMA ClosingNext ==
    ASSUME NEW buf \in Seq(Tokens), NEW seen, NEW n \in Nat, NEW j \in Nat, j + 1 < n,
           Closing(buf, seen, n, j)
    PROVE  Closing(buf, seen, n, j + 1)
<1>1. PICK stack, m : /\ m \in Nat /\ m = n - j /\ AllObjects(stack, m)
                      /\ Between(buf \o Ends(j), stack, seen)
  BY DEF Closing
<1> DEFINE b == buf \o Ends(j)
<1>2. buf \o Ends(j + 1) = Append(b, EndObject)
  BY MoreEnds
<1>3. Between(b, stack, seen)
  BY <1>1
<1> HIDE DEF b
<1>4. m > 1 /\ m > 0 /\ m - 1 \in Nat /\ m - 1 = n - (j + 1)
  BY <1>1
<1>5. AllObjects(Front(stack), m - 1) /\ Between(Append(b, EndObject), Front(stack), seen)
  BY <1>1, <1>3, <1>4, ClosesOne
<1>6. Between(buf \o Ends(j + 1), Front(stack), seen)
  BY <1>2, <1>5, Zenon
<1> QED
  BY <1>4, <1>5, <1>6, Zenon DEF Closing

LEMMA Closes ==
    ASSUME NEW buf, NEW stack, NEW seen, Between(buf, stack, seen), NEW k \in Nat, NEW n, n = k + 1, AllObjects(stack, n)
    PROVE  LET st == Read(Append(buf \o Ends(k), EndObject))
           IN st.ok = TRUE /\ st.stack = <<>> /\ st.seen = seen
<1> DEFINE T == {j \in 0..k : Closing(buf, seen, n, j)}
<1>1. buf \in Seq(Tokens) /\ n \in Nat
  BY DEF Between, Shows
<1>2. Closing(buf, seen, n, 0)
  <2>1. Between(buf \o Ends(0), stack, seen)
    BY <1>1, MoreEnds
  <2>2. n = n - 0
    BY <1>1
  <2> QED
    BY <1>1, <2>1, <2>2, Zenon DEF Closing
<1>3. 0 \in T /\ T \in SUBSET (0..k)
  BY <1>2
<1>4. \A j \in 1..k : j - 1 \in T => j \in T
  <2> SUFFICES ASSUME NEW j \in 1..k, j - 1 \in T PROVE j \in T
    OBVIOUS
  <2> DEFINE i == j - 1
  <2>1. i \in Nat /\ i + 1 < n /\ i + 1 = j /\ Closing(buf, seen, n, i)
    OBVIOUS
  <2> HIDE DEF i
  <2>2. Closing(buf, seen, n, i + 1)
    BY <1>1, <2>1, ClosingNext
  <2> QED
    BY <2>1, <2>2
<1>5. T = 0..k
  <2> HIDE DEF T
  <2> QED
    BY <1>3, <1>4, Joining!CountUp
<1>6. k \in T
  <2> HIDE DEF T
  <2> QED
    BY <1>5
<1>7. PICK s, m : /\ m \in Nat /\ m = n - k /\ AllObjects(s, m)
                  /\ Between(buf \o Ends(k), s, seen)
  <2>1. Closing(buf, seen, n, k)
    BY <1>6
  <2> QED
    BY <2>1 DEF Closing
<1>8. m = 1 /\ m > 0
  BY <1>7
<1> DEFINE b == buf \o Ends(k)
<1>9. Between(b, s, seen) /\ AllObjects(s, m)
  BY <1>7
<1> HIDE DEF b
<1>10. Shows(Append(b, EndObject), At(EndObject, NoKey, Front(s), seen)) /\ Front(s) = <<>>
  BY <1>7, <1>8, <1>9, ClosesOne
<1> QED
  BY <1>10 DEF b, Shows, At

\* The line that ends after these calls.
Ended(enc) == Append(closeOpenNamespaces(enc).buf, EndObject)

LEMMA EndedIs ==
    ASSUME NEW buf, NEW k
    PROVE  Ended(Enc(buf, k)) = Append(buf \o Ends(k), EndObject)
BY DEF Ended, Enc, closeOpenNamespaces, Ends

LEMMA LineSays ==
    ASSUME NEW calls \in Seq(TokenCalls), FieldsOK(calls), ~NamespaceInside(calls)
    PROVE  SaysWhatWasLogged(Ended(addFields(BeginLine, calls)), calls)
<1>1. PICK buf, stack, entries, k, seen :
        /\ addFields(BeginLine, calls) = Enc(buf, k) /\ MeantBy(calls) = Said(entries, seen)
        /\ Between(buf, stack, seen) /\ Nested(stack, entries, <<>>, k)
  BY CallsTell DEF Tells
<1>2. k \in Nat /\ AllObjects(stack, k + 1)
  <2>1. /\ k \in Nat /\ Len(<<>>) = 0 /\ Len(stack) = 1 + k + Len(<<>>)
        /\ \A i \in 1..(1 + k) : stack[i].bracket = BeginObject
    BY <1>1 DEF Nested
  <2> QED
    BY <2>1 DEF AllObjects
<1> DEFINE line == Ended(addFields(BeginLine, calls))
<1>3. line = Append(buf \o Ends(k), EndObject)
  BY <1>1, EndedIs
<1>4. Meaning(calls) = seen
  BY <1>1 DEF Meaning, Said
<1> HIDE DEF line
<1>5. Read(line).ok = TRUE /\ Read(line).stack = <<>> /\ Read(line).seen = seen
  BY <1>1, <1>2, <1>3, Closes
<1>6. SaysWhatWasLogged(line, calls)
  BY <1>4, <1>5 DEF SaysWhatWasLogged
<1> QED
  BY <1>6 DEF line

(***************************************************************************)
(* The context comes first: what a clone of its encoder adds to, after a   *)
(* bracket, is what it would have been with the bracket from the start     *)
(***************************************************************************)
Led(buf) == <<BeginObject>> \o buf

LEMMA LedIs ==
    ASSUME NEW buf \in Seq(Tokens)
    PROVE  /\ Led(buf) \in Seq(Tokens) /\ Led(buf) # <<>>
           /\ buf = <<>> => Last(Led(buf)) = BeginObject
           /\ buf # <<>> => Last(Led(buf)) = Last(buf)
           /\ \A t \in Tokens : Append(buf, t) \in Seq(Tokens) /\ Led(Append(buf, t)) = Append(Led(buf), t)
<1>1. BeginObject \in Tokens
  BY StructuralTokens DEF Structural
<1> HIDE DEF Tokens
<1>2. <<BeginObject>> \in Seq(Tokens) /\ Len(<<BeginObject>>) = 1 /\ <<BeginObject>>[1] = BeginObject
  BY <1>1
<1> DEFINE b == <<BeginObject>>
<1>3. b \in Seq(Tokens) /\ Len(b) = 1 /\ b[1] = BeginObject
  BY <1>2
<1> HIDE DEF b
<1> DEFINE n == Len(buf)
           c == b \o buf
<1>4. /\ n \in Nat /\ c \in Seq(Tokens) /\ Len(c) = 1 + n
      /\ \A i \in 1..(1 + n) : c[i] = IF i <= 1 THEN b[i] ELSE buf[i - 1]
  <2>1. /\ b \o buf \in Seq(Tokens) /\ Len(b \o buf) = Len(b) + Len(buf)
        /\ \A i \in 1..Len(b) + Len(buf) :
              (b \o buf)[i] = IF i <= Len(b) THEN b[i] ELSE buf[i - Len(b)]
    BY <1>3, ConcatProperties
  <2>2. n \in Nat
    BY DEF n
  <2> QED
    BY <1>3, <2>1, <2>2
<1>5. Led(buf) = c
  BY DEF Led, b
<1> HIDE DEF c
<1>6. Led(buf) \in Seq(Tokens) /\ Led(buf) # <<>>
  BY <1>4, <1>5
<1>7. buf = <<>> => Last(Led(buf)) = BeginObject
  <2>1. buf = <<>> => n = 0
    OBVIOUS
  <2> HIDE DEF n
  <2> QED
    BY <1>3, <1>4, <1>5, <2>1 DEF Last
<1>8. buf # <<>> => Last(Led(buf)) = Last(buf)
  <2>1. buf # <<>> => n \in 1..n /\ 1 + n \in 1..(1 + n) /\ 1 + n > 1 /\ 1 + n - 1 = n
    BY <1>4, EmptySeq
  <2> QED
    BY <1>4, <1>5, <2>1 DEF Last
<1>9. ASSUME NEW t \in Tokens
      PROVE  Append(buf, t) \in Seq(Tokens) /\ Led(Append(buf, t)) = Append(Led(buf), t)
  <2>1. b \o Append(buf, t) = Append(b \o buf, t)
    BY <1>3
  <2> QED
    BY <1>5, <2>1 DEF Led, b, c
<1> QED
  BY <1>6, <1>7, <1>8, <1>9

LEMMA SeparatorLed ==
    ASSUME NEW buf \in Seq(Tokens)
    PROVE  /\ addElementSeparator(buf) \in Seq(Tokens)
           /\ addElementSeparator(Led(buf)) = Led(addElementSeparator(buf))
<1>1. ValueSeparator \in Tokens
  BY StructuralTokens DEF Structural
<1>2. CASE buf = <<>>
  <2>1. addElementSeparator(buf) = buf /\ addElementSeparator(Led(buf)) = Led(buf)
    BY <1>2, LedIs DEF addElementSeparator
  <2> QED
    BY <2>1
<1>3. CASE buf # <<>>
  <2>1. Led(buf) # <<>> /\ Last(Led(buf)) = Last(buf)
    BY <1>3, LedIs
  <2>2. Append(buf, ValueSeparator) \in Seq(Tokens)
        /\ Led(Append(buf, ValueSeparator)) = Append(Led(buf), ValueSeparator)
    BY <1>1, LedIs
  <2>3. CASE Last(buf) \in {BeginObject, BeginArray, NameSeparator, ValueSeparator}
    <3>1. addElementSeparator(buf) = buf /\ addElementSeparator(Led(buf)) = Led(buf)
      BY <2>1, <2>3 DEF addElementSeparator
    <3> QED
      BY <3>1
  <2>4. CASE Last(buf) \notin {BeginObject, BeginArray, NameSeparator, ValueSeparator}
    <3>1. addElementSeparator(buf) = Append(buf, ValueSeparator)
          /\ addElementSeparator(Led(buf)) = Append(Led(buf), ValueSeparator)
      BY <1>3, <2>1, <2>4 DEF addElementSeparator
    <3> QED
      BY <2>2, <3>1
  <2> QED
    BY <2>3, <2>4
<1> QED
  BY <1>2, <1>3

LEMMA ValueLed ==
    ASSUME NEW buf \in Seq(Tokens), NEW t \in Tokens
    PROVE  /\ Append(addElementSeparator(buf), t) \in Seq(Tokens)
           /\ Append(addElementSeparator(Led(buf)), t) = Led(Append(addElementSeparator(buf), t))
<1> DEFINE b == addElementSeparator(buf)
<1>1. b \in Seq(Tokens) /\ addElementSeparator(Led(buf)) = Led(b)
  BY SeparatorLed
<1> HIDE DEF b
<1>2. Append(b, t) \in Seq(Tokens) /\ Led(Append(b, t)) = Append(Led(b), t)
  BY <1>1, LedIs
<1> QED
  BY <1>1, <1>2 DEF b

LEMMA StringLed ==
    ASSUME NEW buf \in Seq(Tokens), NEW s \in Tokens
    PROVE  /\ addString(buf, s) \in Seq(Tokens)
           /\ addString(Led(buf), s) = Led(addString(buf, s))
<1>1. Quoted(s) \in Tokens
  BY QuotedIs
<1>2. \A b : addString(b, s) = Append(addElementSeparator(b), Quoted(s))
  BY DEF addString, Quoted
<1> QED
  BY <1>1, <1>2, ValueLed

LEMMA KeyLed ==
    ASSUME NEW buf \in Seq(Tokens), NEW key \in Tokens
    PROVE  /\ addKey(buf, key) \in Seq(Tokens)
           /\ addKey(Led(buf), key) = Led(addKey(buf, key))
<1> DEFINE b == addString(buf, key)
<1>1. b \in Seq(Tokens) /\ addString(Led(buf), key) = Led(b)
  BY StringLed
<1>2. NameSeparator \in Tokens
  BY StructuralTokens DEF Structural
<1> HIDE DEF b
<1>3. Append(b, NameSeparator) \in Seq(Tokens) /\ Led(Append(b, NameSeparator)) = Append(Led(b), NameSeparator)
  BY <1>1, <1>2, LedIs
<1> QED
  BY <1>1, <1>3 DEF b, addKey

LEMMA KeyedLed ==
    ASSUME NEW buf \in Seq(Tokens), NEW call, call.key \in Tokens
    PROVE  Keyed(buf, call) \in Seq(Tokens) /\ Keyed(Led(buf), call) = Led(Keyed(buf, call))
<1>1. CASE call.key = <<>>
  BY <1>1 DEF Keyed
<1>2. CASE call.key # <<>>
  BY <1>2, KeyLed DEF Keyed
<1> QED
  BY <1>1, <1>2

LEMMA NumberLed ==
    ASSUME NEW buf \in Seq(Tokens), NEW t \in Tokens
    PROVE  /\ addNumber(buf, t) \in Seq(Tokens)
           /\ addNumber(Led(buf), t) = Led(addNumber(buf, t))
<1>1. CASE isNotFinite(t)
  BY <1>1, StringLed DEF addNumber
<1>2. CASE ~isNotFinite(t)
  BY <1>2, ValueLed DEF addNumber
<1> QED
  BY <1>1, <1>2

LEMMA AddLed ==
    ASSUME NEW buf \in Seq(Tokens), NEW k \in Nat, NEW call \in TokenCalls
    PROVE  \E b \in Seq(Tokens), l \in Nat :
              Add(Enc(buf, k), call) = Enc(b, l) /\ Add(Enc(Led(buf), k), call) = Enc(Led(b), l)
<1> DEFINE Goal == \E b \in Seq(Tokens), l \in Nat :
              Add(Enc(buf, k), call) = Enc(b, l) /\ Add(Enc(Led(buf), k), call) = Enc(Led(b), l)
<1>1. call.key \in Tokens /\ call.val \in Tokens /\ call.key \o <<"Error">> \in Tokens
  BY CallIs
<1> DEFINE u == Keyed(buf, call)
<1>2. u \in Seq(Tokens) /\ Keyed(Led(buf), call) = Led(u)
  BY <1>1, KeyedLed
<1> HIDE DEF u
<1>3. CASE call.op = "string"
  <2> DEFINE b == addString(u, call.val)
  <2>1. b \in Seq(Tokens) /\ addString(Led(u), call.val) = Led(b)
    BY <1>1, <1>2, StringLed
  <2>2. Add(Enc(buf, k), call) = Enc(b, k) /\ Add(Enc(Led(buf), k), call) = Enc(Led(b), k)
    BY <1>2, <1>3, <2>1, AddString DEF u
  <2> HIDE DEF b
  <2> QED
    BY <2>1, <2>2
<1>4. CASE call.op = "number"
  <2> DEFINE b == addNumber(u, call.val)
  <2>1. b \in Seq(Tokens) /\ addNumber(Led(u), call.val) = Led(b)
    BY <1>1, <1>2, NumberLed
  <2>2. Add(Enc(buf, k), call) = Enc(b, k) /\ Add(Enc(Led(buf), k), call) = Enc(Led(b), k)
    BY <1>2, <1>4, <2>1, AddNumber DEF u
  <2> HIDE DEF b
  <2> QED
    BY <2>1, <2>2
<1>5. CASE call.op = "reflected" /\ ~IsBad(call)
  <2> DEFINE b == Append(addElementSeparator(u), call.val)
  <2>1. b \in Seq(Tokens) /\ Append(addElementSeparator(Led(u)), call.val) = Led(b)
    BY <1>1, <1>2, ValueLed
  <2>2. Add(Enc(buf, k), call) = Enc(b, k) /\ Add(Enc(Led(buf), k), call) = Enc(Led(b), k)
    BY <1>2, <1>5, <2>1, AddReflected DEF u
  <2> HIDE DEF b
  <2> QED
    BY <2>1, <2>2
<1>6. CASE IsBad(call)
  <2> DEFINE key == call.key \o <<"Error">>
             v == addKey(buf, key)
             b == addString(v, call.val)
  <2>1. key \in Tokens
    BY <1>1
  <2>2. /\ Add(Enc(buf, k), call) = Enc(b, k)
        /\ Add(Enc(Led(buf), k), call) = Enc(addString(addKey(Led(buf), key), call.val), k)
    BY <1>6, AddError
  <2> HIDE DEF key
  <2>4. v \in Seq(Tokens) /\ addKey(Led(buf), key) = Led(v)
    BY <2>1, KeyLed
  <2> HIDE DEF v
  <2>3. b \in Seq(Tokens) /\ addString(Led(v), call.val) = Led(b)
    BY <1>1, <2>4, StringLed
  <2> HIDE DEF b
  <2> QED
    BY <2>2, <2>3, <2>4
<1>7. CASE call.op \in {"object", "array", "namespace"}
  <2> DEFINE t == Bracket(call.op)
             b == Append(addElementSeparator(u), t)
             l == IF call.op = "namespace" THEN k + 1 ELSE k
  <2>1. t \in Tokens
    BY StructuralTokens DEF Structural, Bracket
  <2> HIDE DEF t
  <2>2. b \in Seq(Tokens) /\ Append(addElementSeparator(Led(u)), t) = Led(b)
    BY <1>2, <2>1, ValueLed
  <2>4. l \in Nat
    OBVIOUS
  <2> HIDE DEF l
  <2>3. Add(Enc(buf, k), call) = Enc(b, l) /\ Add(Enc(Led(buf), k), call) = Enc(Led(b), l)
    <3>1. Add(Enc(buf, k), call) = Enc(b, l)
      BY <1>2, <1>7, <2>2, AddOpen DEF u, t, l
    <3>2. Add(Enc(Led(buf), k), call) = Enc(Append(addElementSeparator(Keyed(Led(buf), call)), t), l)
      BY <1>7, AddOpen DEF t, l
    <3> QED
      BY <1>2, <2>2, <3>1, <3>2
  <2> HIDE DEF b
  <2> QED
    BY <2>2, <2>3, <2>4
<1>8. CASE call.op = "end"
  <2> DEFINE b == Append(buf, call.val)
  <2>1. b \in Seq(Tokens) /\ Append(Led(buf), call.val) = Led(b)
    BY <1>1, LedIs
  <2>2. Add(Enc(buf, k), call) = Enc(b, k) /\ Add(Enc(Led(buf), k), call) = Enc(Led(b), k)
    BY <1>8, <2>1, AddEnd
  <2> HIDE DEF b
  <2> QED
    BY <2>1, <2>2
<1> QED
  BY <1>3, <1>4, <1>5, <1>6, <1>7, <1>8, CallIs
LEMMA FieldsLed ==
    ASSUME NEW buf \in Seq(Tokens), NEW k \in Nat, NEW calls \in Seq(TokenCalls)
    PROVE  \E b \in Seq(Tokens), l \in Nat :
              addFields(Enc(buf, k), calls) = Enc(b, l) /\ addFields(Enc(Led(buf), k), calls) = Enc(Led(b), l)
<1> DEFINE Alike(enc, led) == \E b \in Seq(Tokens), l \in Nat : enc = Enc(b, l) /\ led = Enc(Led(b), l)
           Both(s) == Alike(addFields(Enc(buf, k), s), addFields(Enc(Led(buf), k), s))
           T == {i \in 0..Len(calls) : Both(First(calls, i))}
<1>1. /\ Len(calls) \in Nat
      /\ First(calls, 0) = <<>> /\ First(calls, Len(calls)) = calls
      /\ \A i \in 0..Len(calls) : First(calls, i) \in Seq(TokenCalls)
      /\ \A i \in 1..Len(calls) : calls[i] \in TokenCalls /\ First(calls, i) = Append(First(calls, i - 1), calls[i])
  BY Beginnings
<1>2. Both(<<>>)
  BY AddNone
<1>3. ASSUME NEW enc, NEW led, Alike(enc, led), NEW call \in TokenCalls
      PROVE  Alike(Add(enc, call), Add(led, call))
  BY <1>3, AddLed
<1> HIDE DEF Alike
<1>4. ASSUME NEW s \in Seq(TokenCalls), NEW call \in TokenCalls, Both(s)
      PROVE  Both(Append(s, call))
  BY <1>3, <1>4, AddNext
<1> HIDE DEF Both
<1>5. 0 \in T /\ T \in SUBSET (0..Len(calls))
  BY <1>1, <1>2
<1>6. \A i \in 1..Len(calls) : i - 1 \in T => i \in T
  <2> SUFFICES ASSUME NEW i \in 1..Len(calls), i - 1 \in T PROVE i \in T
    OBVIOUS
  <2>1. i - 1 \in 0..Len(calls) /\ Both(First(calls, i - 1)) /\ i \in 0..Len(calls)
    BY <1>1
  <2>2. First(calls, i - 1) \in Seq(TokenCalls) /\ calls[i] \in TokenCalls
    BY <1>1, <2>1
  <2>3. Both(Append(First(calls, i - 1), calls[i]))
    BY <1>4, <2>1, <2>2
  <2>4. Both(First(calls, i))
    BY <1>1, <2>3
  <2> QED
    BY <2>1, <2>4
<1>7. T = 0..Len(calls)
  <2> HIDE DEF T
  <2> QED
    BY <1>1, <1>5, <1>6, Joining!CountUp
<1>8. Len(calls) \in T
  <2> HIDE DEF T
  <2> QED
    BY <1>1, <1>7
<1>9. Both(calls)
  BY <1>1, <1>8
<1> QED
  BY <1>9 DEF Both, Alike

\* The line of an entry is the one of all its calls, those of the context first.
LEMMA EntryText ==
    ASSUME NEW context \in Seq(TokenCalls), NEW calls \in Seq(TokenCalls)
    PROVE  EncodeEntry(addFields(NewEncoder, context), calls)
              = Ended(addFields(BeginLine, context \o calls))
<1>1. NewEncoder = Enc(<<>>, 0) /\ <<>> \in Seq(Tokens) /\ Led(<<>>) = <<BeginObject>>
  <2>1. BeginObject \in Tokens
    BY StructuralTokens DEF Structural
  <2> HIDE DEF Tokens
  <2>2. <<BeginObject>> \in Seq(Tokens)
    BY <2>1
  <2>3. Led(<<>>) = <<BeginObject>>
    BY <2>2, ConcatEmptySeq DEF Led
  <2> QED
    BY <2>3 DEF NewEncoder, Enc
<1> DEFINE none == <<>>
<1>2. NewEncoder = Enc(none, 0) /\ none \in Seq(Tokens) /\ BeginLine = Enc(Led(none), 0)
  BY <1>1 DEF BeginLine
<1> HIDE DEF none
<1>3. PICK b \in Seq(Tokens), l \in Nat :
         addFields(NewEncoder, context) = Enc(b, l) /\ addFields(BeginLine, context) = Enc(Led(b), l)
  BY <1>2, FieldsLed
<1>4. [Enc(b, l) EXCEPT !.buf = <<BeginObject>> \o Enc(b, l).buf] = Enc(Led(b), l)
  <2> DEFINE more == Led(b)
  <2>1. Enc(b, l).buf = b /\ [Enc(b, l) EXCEPT !.buf = more] = Enc(more, l)
    <3> HIDE DEF more
    <3> QED
      BY DEF Enc
  <2> QED
    BY <2>1, Zenon DEF Led
<1>5. EncodeEntry(Enc(b, l), calls) = Ended(addFields(Enc(Led(b), l), calls))
  BY <1>4 DEF EncodeEntry, Ended
<1>6. addFields(BeginLine, context \o calls) = addFields(addFields(BeginLine, context), calls)
  BY AddMore
<1> QED
  BY <1>3, <1>5, <1>6

\* Whole fields after whole fields are whole fields.
LEMMA FieldsMore ==
    ASSUME NEW calls \in Seq(TokenCalls), NEW more \in Seq(TokenCalls), FieldsOK(calls), FieldsOK(more)
    PROVE  calls \o more \in Seq(TokenCalls) /\ FieldsOK(calls \o more)
<1> DEFINE all == calls \o more
           n == Len(calls)
           k == Len(more)
<1>1. /\ n \in Nat /\ k \in Nat /\ DOMAIN calls = 1..n /\ DOMAIN more = 1..k
      /\ all \in Seq(TokenCalls) /\ DOMAIN all = 1..(n + k)
      /\ \A i \in 1..n : all[i] = calls[i]
      /\ \A i \in 1..k : all[n + i] = more[i]
  BY ConcatProperties, LenProperties
<1>2. \A i \in 1..n : First(all, i - 1) = First(calls, i - 1)
  BY DEF First
<1>3. \A i \in 1..k : First(all, n + i - 1) = calls \o First(more, i - 1) /\ First(more, i - 1) \in Seq(TokenCalls)
  BY DEF First
<1>4. Brackets(calls) = <<>> /\ Brackets(more) = <<>>
  BY DEF FieldsOK
<1>5. Brackets(all) = <<>>
  BY <1>4, BracketsMore
<1> HIDE DEF all, n, k
<1>6. ASSUME NEW i \in 1..(n + k) PROVE MayCall(Before(all, i), all[i])
  <2>1. CASE i \in 1..n
    <3>1. Before(all, i) = Before(calls, i) /\ all[i] = calls[i]
      BY <1>1, <1>2, <2>1 DEF Before, First
    <3>2. MayCall(Before(calls, i), calls[i])
      BY <1>1, <2>1 DEF FieldsOK
    <3> QED
      BY <3>1, <3>2
  <2>2. CASE i \notin 1..n
    <3>1. PICK j \in 1..k : i = n + j
      <4>1. i - n \in 1..k /\ i = n + (i - n)
        BY <1>1, <2>2
      <4> QED
        BY <4>1
    <3>2. First(all, i - 1) = calls \o First(more, j - 1) /\ First(more, j - 1) \in Seq(TokenCalls)
      <4>1. First(all, n + j - 1) = calls \o First(more, j - 1) /\ First(more, j - 1) \in Seq(TokenCalls)
        BY <1>3, Zenon
      <4>2. i - 1 = n + j - 1
        BY <1>1, <3>1
      <4> DEFINE m == n + j - 1
      <4>3. First(all, m) = calls \o First(more, j - 1) /\ First(more, j - 1) \in Seq(TokenCalls) /\ i - 1 = m
        BY <4>1, <4>2, Zenon
      <4> HIDE DEF m
      <4> QED
        BY <4>3
    <3>6. all[i] = more[j]
      BY <1>1, <3>1
    <3>3. Brackets(calls \o First(more, j - 1)) = Brackets(First(more, j - 1))
      BY <1>4, <3>2, BracketsMore
    <3>4. Before(all, i) = Before(more, j)
      BY <3>2, <3>3 DEF Before, First
    <3>5. MayCall(Before(more, j), more[j])
      BY <1>1, <3>1 DEF FieldsOK
    <3> QED
      BY <3>4, <3>5, <3>6
  <2> QED
    BY <2>1, <2>2
<1> QED
  BY <1>1, <1>5, <1>6 DEF FieldsOK, all

(***************************************************************************)
(* What a reader saw stays seen, whatever follows                          *)
(***************************************************************************)
Among(seen, x) == (\E S : seen \in Seq(S)) /\ \E i \in DOMAIN seen : seen[i] = x
Sees(st, x) == "seen" \in DOMAIN st /\ Among(st.seen, x)

LEMMA StaysAmong ==
    ASSUME NEW seen, NEW x, Among(seen, x), NEW y
    PROVE  Among(Append(seen, y), x)
<1>1. PICK S : seen \in Seq(S)
  BY DEF Among
<1>2. PICK i \in DOMAIN seen : seen[i] = x
  BY DEF Among
<1> DEFINE U == S \cup {y}
<1>3. seen \in Seq(U) /\ y \in U
  BY <1>1, SeqMonotonic
<1> HIDE DEF U
<1> DEFINE more == Append(seen, y)
<1>4. /\ more \in Seq(U) /\ Len(more) = Len(seen) + 1
      /\ \A j \in 1..Len(seen) : more[j] = seen[j]
  BY <1>3, AppendProperties
<1>5. Len(seen) \in Nat /\ DOMAIN seen = 1..Len(seen) /\ DOMAIN more = 1..Len(more)
  BY <1>3, <1>4, LenProperties
<1> HIDE DEF more
<1>6. i \in DOMAIN more /\ more[i] = x
  BY <1>2, <1>4, <1>5
<1>7. Among(more, x)
  BY <1>4, <1>6 DEF Among
<1> QED
  BY <1>7 DEF more

LEMMA TakeSees ==
    ASSUME NEW st, NEW t, NEW x, Sees(st, x)
    PROVE  Sees(Take(st, t), x)
<1>1. /\ "seen" \in DOMAIN Take(st, t)
      /\ Take(st, t).seen = st.seen \/ \E y : Take(st, t).seen = Append(st.seen, y)
  BY DEF Sees, Take
<1>2. \A y : Among(Append(st.seen, y), x)
  BY StaysAmong DEF Sees
<1> QED
  BY <1>1, <1>2 DEF Sees

\* Sets of texts that an encoder does not leave: it only ever adds tokens.
Growing(B) == B \subseteq Seq(Tokens) /\ \A b \in B, t \in Tokens : Append(b, t) \in B

LEMMA SeparatorIn ==
    ASSUME NEW B, Growing(B), NEW buf \in B
    PROVE  addElementSeparator(buf) \in B
BY StructuralTokens DEF Structural, Growing, addElementSeparator

LEMMA ValueIn ==
    ASSUME NEW B, Growing(B), NEW buf \in B, NEW t \in Tokens
    PROVE  Append(addElementSeparator(buf), t) \in B
BY SeparatorIn DEF Growing

LEMMA StringIn ==
    ASSUME NEW B, Growing(B), NEW buf \in B, NEW s \in Tokens
    PROVE  addString(buf, s) \in B
<1>1. Quoted(s) \in Tokens
  BY QuotedIs
<1> QED
  BY <1>1, ValueIn DEF addString, Quoted

LEMMA KeyIn ==
    ASSUME NEW B, Growing(B), NEW buf \in B, NEW key \in Tokens
    PROVE  addKey(buf, key) \in B
<1>1. NameSeparator \in Tokens
  BY StructuralTokens DEF Structural
<1>2. addString(buf, key) \in B
  BY StringIn
<1> QED
  BY <1>1, <1>2 DEF Growing, addKey

LEMMA AddIn ==
    ASSUME NEW B, Growing(B), NEW buf \in B, NEW k \in Nat, NEW call \in TokenCalls
    PROVE  \E b \in B, l \in Nat : Add(Enc(buf, k), call) = Enc(b, l)
<1>1. call.key \in Tokens /\ call.val \in Tokens /\ call.key \o <<"Error">> \in Tokens
  BY CallIs
<1>2. Keyed(buf, call) \in B
  BY <1>1, KeyIn DEF Keyed
<1>3. CASE call.op = "string"
  <2>1. addString(Keyed(buf, call), call.val) \in B
    BY <1>1, <1>2, StringIn
  <2> QED
    BY <1>3, <2>1, AddString
<1>4. CASE call.op = "number"
  <2>1. addNumber(Keyed(buf, call), call.val) \in B
    BY <1>1, <1>2, StringIn, ValueIn DEF addNumber
  <2> QED
    BY <1>4, <2>1, AddNumber
<1>5. CASE call.op = "reflected" /\ ~IsBad(call)
  <2>1. Append(addElementSeparator(Keyed(buf, call)), call.val) \in B
    BY <1>1, <1>2, ValueIn
  <2> QED
    BY <1>5, <2>1, AddReflected
<1>6. CASE IsBad(call)
  <2> DEFINE key == call.key \o <<"Error">>
  <2>1. key \in Tokens
    BY <1>1
  <2>2. Add(Enc(buf, k), call) = Enc(addString(addKey(buf, key), call.val), k)
    BY <1>6, AddError
  <2> HIDE DEF key
  <2>3. addKey(buf, key) \in B
    BY <2>1, KeyIn
  <2>4. addString(addKey(buf, key), call.val) \in B
    BY <1>1, <2>3, StringIn
  <2> QED
    BY <2>2, <2>4
<1>7. CASE call.op \in {"object", "array", "namespace"}
  <2> DEFINE t == Bracket(call.op)
             b == Append(addElementSeparator(Keyed(buf, call)), t)
             l == IF call.op = "namespace" THEN k + 1 ELSE k
  <2>1. t \in Tokens
    BY StructuralTokens DEF Structural, Bracket
  <2>2. Add(Enc(buf, k), call) = Enc(b, l)
    BY <1>7, AddOpen
  <2>3. l \in Nat
    OBVIOUS
  <2> HIDE DEF t, l
  <2>4. b \in B
    BY <1>2, <2>1, ValueIn
  <2> HIDE DEF b
  <2> QED
    BY <2>2, <2>3, <2>4
<1>8. CASE call.op = "end"
  <2>1. Append(buf, call.val) \in B
    BY <1>1 DEF Growing
  <2> QED
    BY <1>8, <2>1, AddEnd
<1> QED
  BY <1>3, <1>4, <1>5, <1>6, <1>7, <1>8, CallIs

LEMMA FieldsIn ==
    ASSUME NEW B, Growing(B), NEW buf \in B, NEW k \in Nat, NEW calls \in Seq(TokenCalls)
    PROVE  \E b \in B, l \in Nat : addFields(Enc(buf, k), calls) = Enc(b, l)
<1> DEFINE In(enc) == \E b \in B, l \in Nat : enc = Enc(b, l)
           All(s) == In(addFields(Enc(buf, k), s))
           T == {i \in 0..Len(calls) : All(First(calls, i))}
<1>1. /\ Len(calls) \in Nat
      /\ First(calls, 0) = <<>> /\ First(calls, Len(calls)) = calls
      /\ \A i \in 0..Len(calls) : First(calls, i) \in Seq(TokenCalls)
      /\ \A i \in 1..Len(calls) : calls[i] \in TokenCalls /\ First(calls, i) = Append(First(calls, i - 1), calls[i])
  BY Beginnings
<1>2. All(<<>>)
  BY AddNone
<1>3. ASSUME NEW enc, In(enc), NEW call \in TokenCalls
      PROVE  In(Add(enc, call))
  BY <1>3, AddIn
<1> HIDE DEF In
<1>4. ASSUME NEW s \in Seq(TokenCalls), NEW call \in TokenCalls, All(s)
      PROVE  All(Append(s, call))
  BY <1>3, <1>4, AddNext
<1> HIDE DEF All
<1>5. 0 \in T /\ T \in SUBSET (0..Len(calls))
  BY <1>1, <1>2
<1>6. \A i \in 1..Len(calls) : i - 1 \in T => i \in T
  <2> SUFFICES ASSUME NEW i \in 1..Len(calls), i - 1 \in T PROVE i \in T
    OBVIOUS
  <2>1. i - 1 \in 0..Len(calls) /\ All(First(calls, i - 1)) /\ i \in 0..Len(calls)
    BY <1>1
  <2>2. First(calls, i - 1) \in Seq(TokenCalls) /\ calls[i] \in TokenCalls
    BY <1>1, <2>1
  <2>3. All(Append(First(calls, i - 1), calls[i]))
    BY <1>4, <2>1, <2>2
  <2>4. All(First(calls, i))
    BY <1>1, <2>3
  <2> QED
    BY <2>1, <2>4
<1>7. T = 0..Len(calls)
  <2> HIDE DEF T
  <2> QED
    BY <1>1, <1>5, <1>6, Joining!CountUp
<1>8. Len(calls) \in T
  <2> HIDE DEF T
  <2> QED
    BY <1>1, <1>7
<1>9. All(calls)
  BY <1>1, <1>8
<1> QED
  BY <1>9 DEF All, In

LEMMA EndedIn ==
    ASSUME NEW B, Growing(B), NEW buf \in B, NEW k \in Nat
    PROVE  Ended(Enc(buf, k)) \in B
<1> DEFINE T == {j \in 0..k : buf \o Ends(j) \in B}
<1>1. buf \in Seq(Tokens) /\ \A b \in B : Append(b, EndObject) \in B
  BY StructuralTokens DEF Structural, Growing
<1>2. 0 \in T /\ T \in SUBSET (0..k)
  <2>1. 0 \in Nat /\ 0 \in 0..k
    OBVIOUS
  <2>2. buf \o Ends(0) = buf
    BY <1>1, <2>1, MoreEnds
  <2> QED
    BY <2>1, <2>2
<1>3. \A j \in 1..k : j - 1 \in T => j \in T
  <2> SUFFICES ASSUME NEW j \in 1..k, j - 1 \in T PROVE buf \o Ends(j) \in B
    OBVIOUS
  <2> DEFINE i == j - 1
  <2>1. i \in Nat /\ j = i + 1 /\ buf \o Ends(i) \in B
    OBVIOUS
  <2> HIDE DEF i
  <2>2. buf \o Ends(i + 1) = Append(buf \o Ends(i), EndObject)
    BY <1>1, <2>1, MoreEnds
  <2> QED
    BY <1>1, <2>1, <2>2
<1>4. T = 0..k
  <2> HIDE DEF T
  <2> QED
    BY <1>2, <1>3, Joining!CountUp
<1>5. k \in T
  <2> HIDE DEF T
  <2> QED
    BY <1>4
<1> QED
  BY <1>1, <1>5, EndedIs

\* What comes first is said, whatever is logged after it.
LEMMA FirstIsSaid ==
    ASSUME NEW call \in TokenCalls, call.op = "string", call.key # <<>>, NEW calls \in Seq(TokenCalls)
    PROVE  \E s \in Range(Read(Ended(addFields(BeginLine, <<call>> \o calls))).seen) :
              s[2] = call.key /\ s[3] = call.val
<1> DEFINE nothing == NothingLogged.seen
           around == NothingLogged.stack
           x == <<Path(around), call.key, call.val>>
           B == {b \in Seq(Tokens) : Sees(Read(b), x)}
           none == <<>>
<1>1. Growing(B)
  <2> HIDE DEF x
  <2>1. ASSUME NEW b \in Seq(Tokens), Sees(Read(b), x), NEW t \in Tokens
        PROVE  Append(b, t) \in Seq(Tokens) /\ Sees(Read(Append(b, t)), x)
    <3>1. Append(b, t) \in Seq(Tokens)
      <4> HIDE DEF Tokens
      <4> QED
        OBVIOUS
    <3>2. Sees(Take(Read(b), t), x)
      BY <2>1, TakeSees
    <3> QED
      BY <3>1, <3>2, ReadNext
  <2> QED
    BY <2>1 DEF Growing
<1>2. Tells(Add(BeginLine, call), Meant(NothingLogged, call), none)
  <2>1. MayCall(none, call)
    BY DEF MayCall
  <2>2. Tells(BeginLine, NothingLogged, none)
    BY TellsNothing
  <2>3. call.op \in {"string", "number", "reflected"}
    OBVIOUS
  <2> HIDE DEF none
  <2> QED
    BY <2>1, <2>2, <2>3, TellsValue
<1>3. Meant(NothingLogged, call) = Said(around, Append(nothing, x))
  <2>1. NothingLogged = Said(around, nothing)
    BY DEF NothingLogged, Said
  <2>2. ~IsBad(call)
    BY DEF IsBad
  <2> HIDE DEF around, nothing
  <2>3. Meant(Said(around, nothing), call) = Said(around, Noted(nothing, around, call.key, call.val))
    BY <2>2, MeantValue
  <2> QED
    BY <2>1, <2>3 DEF Noted, x
<1>4. Among(Append(nothing, x), x)
  <2> DEFINE first == << <<>>, <<>>, BeginObject >>
             S == {first, x}
  <2>1. nothing \in Seq(S) /\ x \in S
    <3>1. nothing = <<first>>
      BY DEF NothingLogged
    <3> HIDE DEF first, x
    <3> QED
      BY <3>1
  <2> HIDE DEF S, nothing, x
  <2>2. Append(nothing, x) \in Seq(S) /\ Append(nothing, x)[Len(nothing) + 1] = x
        /\ Len(nothing) + 1 \in 1..Len(Append(nothing, x))
    BY <2>1, AppendProperties
  <2>3. DOMAIN Append(nothing, x) = 1..Len(Append(nothing, x))
    BY <2>2, LenProperties
  <2> QED
    BY <2>2, <2>3 DEF Among
<1> HIDE DEF x, nothing, around
<1>5. PICK buf, k : Add(BeginLine, call) = Enc(buf, k) /\ buf \in B /\ k \in Nat
  <2>1. PICK buf, stack, entries, k, seen :
          /\ Add(BeginLine, call) = Enc(buf, k) /\ Meant(NothingLogged, call) = Said(entries, seen)
          /\ Between(buf, stack, seen) /\ Nested(stack, entries, none, k)
    BY <1>2 DEF Tells
  <2>2. seen = Append(nothing, x)
    BY <1>3, <2>1 DEF Said
  <2>3. PICK prev : Shows(buf, At(prev, NoKey, stack, seen))
    BY <2>1 DEF Between
  <2>4. Sees(Read(buf), x) /\ buf \in Seq(Tokens)
    BY <1>4, <2>2, <2>3 DEF Sees, Shows, At
  <2>5. k \in Nat
    BY <2>1 DEF Nested
  <2> QED
    BY <2>1, <2>4, <2>5
<1>6. addFields(BeginLine, <<call>> \o calls) = addFields(Enc(buf, k), calls)
  <2>1. none \in Seq(TokenCalls) /\ <<call>> = Append(none, call) /\ <<call>> \in Seq(TokenCalls)
    OBVIOUS
  <2>2. addFields(BeginLine, none) = BeginLine
    BY AddNone
  <2> HIDE DEF none
  <2>3. addFields(BeginLine, <<call>>) = Add(BeginLine, call)
    <3>1. addFields(BeginLine, Append(none, call)) = Add(addFields(BeginLine, none), call)
      BY <2>1, AddNext
    <3> QED
      BY <2>1, <2>2, <3>1
  <2> DEFINE one == <<call>>
  <2>4. one \in Seq(TokenCalls) /\ addFields(BeginLine, one) = Add(BeginLine, call)
    BY <2>1, <2>3
  <2> HIDE DEF one
  <2>5. addFields(BeginLine, one \o calls) = addFields(addFields(BeginLine, one), calls)
    BY <2>4, AddMore
  <2> QED
    BY <1>5, <2>4, <2>5 DEF one
<1> DEFINE line == Ended(addFields(BeginLine, <<call>> \o calls))
<1>7. line \in B
  <2> HIDE DEF B
  <2>1. PICK b \in B, l \in Nat : addFields(Enc(buf, k), calls) = Enc(b, l)
    BY <1>1, <1>5, FieldsIn
  <2>2. Ended(Enc(b, l)) \in B
    BY <1>1, EndedIn
  <2> QED
    BY <1>6, <2>1, <2>2
<1> HIDE DEF line
<1>8. x \in Range(Read(line).seen)
  BY <1>7 DEF Sees, Among, Range
<1>9. x[2] = call.key /\ x[3] = call.val
  BY DEF x
<1> QED
  BY <1>8, <1>9 DEF line

\* No field at all, and one string of an object.
LEMMA NoFields ==
    FieldsOK(<<>>)
<1>1. Brackets(<<>>) = <<>>
  BY BracketsNone
<1> QED
  BY <1>1 DEF FieldsOK

LEMMA OneField ==
    ASSUME NEW call \in TokenCalls, call.op = "string", call.key # <<>>
    PROVE  <<call>> \in Seq(TokenCalls) /\ FieldsOK(<<call>>)
<1> DEFINE none == <<>>
           one == <<call>>
<1>1. none \in Seq(TokenCalls) /\ one = Append(none, call) /\ one \in Seq(TokenCalls)
      /\ DOMAIN one = {1} /\ one[1] = call
  OBVIOUS
<1>2. Brackets(none) = none
  BY BracketsNone
<1>3. MayCall(none, call) /\ Bracketed(none, call) = none
  BY DEF MayCall, Bracketed
<1>4. Before(one, 1) = Brackets(none)
  <2>1. SubSeq(one, 1, 1 - 1) = none
    OBVIOUS
  <2> HIDE DEF one, none
  <2> QED
    BY <2>1 DEF Before
<1> HIDE DEF none, one
<1>5. Brackets(one) = none
  BY <1>1, <1>2, <1>3, BracketsNext
<1>6. FieldsOK(one)
  BY <1>1, <1>2, <1>3, <1>4, <1>5 DEF FieldsOK, none
<1> QED
  BY <1>1, <1>6 DEF one
==============================================================================
