------------------------------- MODULE Params --------------------------------
(***************************************************************************)
(* How a request becomes the struct of its handler: BaseHandler's          *)
(* ParseRequest, with src/utils/bind.go, conv.go and default.go.           *)
(*                                                                         *)
(* A text is the sequence of its parts between commas, each a number or    *)
(* Word, which is anything else.  A value is a sequence of numbers: one    *)
(* for a scalar, none for a nil pointer or a nil slice.  Words of the      *)
(* machine have WordBits bits.                                             *)
(***************************************************************************)
EXTENDS Integers, Sequences

CONSTANTS
    Word,
    WordBits,
    Struct      \* Struct[f]: kind, bits, shape, tags, default and rule of field f

Fields == DOMAIN Struct

Shapes == {"scalar", "pointer", "slice"}
Kinds == {"int", "uint", "bool", "custom"}

IsText(text) == text \in Seq(Int \cup {Word})

ASSUME WordAssumption == Word \notin Int

ASSUME StructAssumption ==
    /\ WordBits \in Nat \ {0}
    /\ \A f \in Fields :
          /\ Struct[f].kind \in Kinds
          /\ Struct[f].bits \in 1..WordBits
          /\ Struct[f].shape \in Shapes
          /\ Struct[f].required \in BOOLEAN
          /\ IsText(Struct[f].default)

\* What is so of the powers of two.
ASSUME PowersAssumption ==
    \A n \in 1..WordBits :
        /\ 2^n \in Nat /\ 2^(n - 1) \in Nat
        /\ 2^n = 2 * 2^(n - 1)
        /\ 0 < 2^(n - 1) /\ 2^(n - 1) <= 2^(WordBits - 1)

\* The sources of a request: its body, its query and its route.  A null and
\* an empty array of JSON are left out: default.go takes the one for no value
\* and the other for a value, and both are the empty sequence here.
InputsOK(in) ==
    /\ UNION {DOMAIN in.json, DOMAIN in.query, DOMAIN in.rest} \subseteq Fields
    /\ \A f \in DOMAIN in.json : IsText(in.json[f]) /\ in.json[f] # <<>>
    /\ \A f \in DOMAIN in.query : IsText(in.query[f]) /\ in.query[f] # <<>>
    /\ \A f \in DOMAIN in.rest : IsText(in.rest[f]) /\ in.rest[f] # <<>>

Least(lo, hi, n) == IF n < lo THEN lo ELSE IF n > hi THEN hi ELSE n

(***************************************************************************)
(* conv.go: a text that is no number is 0, one that is too large is the    *)
(* limit of 64 bits.                                                       *)
(***************************************************************************)
IsNumber(text) == Len(text) = 1 /\ text[1] # Word

GetInt64(text) ==
    IF IsNumber(text) THEN Least(-(2^(WordBits - 1)), 2^(WordBits - 1) - 1, text[1]) ELSE 0

\* A sign is no digit for ParseUint.
GetUint64(text) ==
    IF IsNumber(text) /\ text[1] >= 0 THEN Least(0, 2^WordBits - 1, text[1]) ELSE 0

GetBool(text) == IF text = <<1>> THEN 1 ELSE 0

(***************************************************************************)
(* bind.go                                                                 *)
(***************************************************************************)
\* SetInt and SetUint of reflect keep the low bits.
SetInt(n, bits) == ((n + 2^(bits - 1)) % (2^bits)) - 2^(bits - 1)
SetUint(n, bits) == n % (2^bits)

bindScalar(f, text) ==
    CASE Struct[f].kind = "int" -> SetInt(GetInt64(text), Struct[f].bits)
      [] Struct[f].kind = "uint" -> SetUint(GetUint64(text), Struct[f].bits)
      [] Struct[f].kind = "bool" -> GetBool(text)
      [] OTHER -> text[1]

bindValue(f, text) ==
    IF Struct[f].shape = "slice"
    THEN [i \in DOMAIN text |-> bindScalar(f, <<text[i]>>)]
    ELSE <<bindScalar(f, text)>>

\* A type that unmarshals itself is the only one that refuses a text.
Refuses(f, text) ==
    /\ Struct[f].kind = "custom"
    /\ IF Struct[f].shape = "slice" THEN \E i \in DOMAIN text : text[i] = Word
                                    ELSE ~IsNumber(text)

Bound(tag, input) == {f \in DOMAIN input : tag \in Struct[f].tags}

BindFails(tag, input) == \E f \in Bound(tag, input) : Refuses(f, input[f])

Bind(value, tag, input) ==
    [f \in Fields |-> IF f \in Bound(tag, input) THEN bindValue(f, input[f]) ELSE value[f]]

(***************************************************************************)
(* default.go                                                              *)
(***************************************************************************)
Zero(f) == IF Struct[f].shape = "scalar" THEN <<0>> ELSE <<>>

SetDefaults(value) ==
    [f \in Fields |-> IF value[f] = Zero(f) /\ Struct[f].default # <<>>
                      THEN bindValue(f, Struct[f].default) ELSE value[f]]

\* A default that its own field refuses.
DefaultFails(value) ==
    \E f \in Fields : value[f] = Zero(f) /\ Struct[f].default # <<>> /\ Refuses(f, Struct[f].default)

(***************************************************************************)
(* ParseRequest of base_handler.go                                         *)
(***************************************************************************)
\* The numbers that a field can hold.
InRange(f, n) ==
    CASE Struct[f].kind = "int" -> n \in -(2^(Struct[f].bits - 1))..(2^(Struct[f].bits - 1) - 1)
      [] Struct[f].kind = "uint" -> n \in 0..(2^Struct[f].bits - 1)
      [] Struct[f].kind = "bool" -> n \in {0, 1}
      [] OTHER -> TRUE

Fits(f, text) ==
    /\ \A i \in DOMAIN text : text[i] # Word /\ InRange(f, text[i])
    /\ Struct[f].shape = "slice" \/ Len(text) = 1

\* A JSON body, where a number that does not fit is an error.
parseBodyFails(in) ==
    \/ ~in.isJSON
    \/ ~in.syntax
    \/ \E f \in DOMAIN in.json : ~Fits(f, in.json[f])

\* Any error becomes ErrBadParam, but that of a default ErrServerInternal.
Failed == [ok |-> FALSE, error |-> "param", value |-> <<>>]
FailedInside == [Failed EXCEPT !.error = "internal"]
Parsed(value) == [ok |-> TRUE, error |-> "none", value |-> value]

ParseRequest_query_last(in) ==
    LET zero == [f \in Fields |-> Zero(f)]
        body == [f \in Fields |-> IF f \in DOMAIN in.json THEN in.json[f] ELSE zero[f]]
        rest == Bind(body, "rest", in.rest)
        query == Bind(rest, "query", in.query)
        full == SetDefaults(query)
    IN IF \/ in.length # 0 /\ parseBodyFails(in)
          \/ BindFails("query", in.query)
          \/ BindFails("rest", in.rest)
       THEN Failed
       ELSE IF DefaultFails(query) THEN FailedInside
       ELSE IF \E f \in Fields : Struct[f].required /\ full[f] = Zero(f) THEN Failed
       ELSE Parsed(full)

\* The query comes without its empty values, and a field may be required by
\* the rules of govalidator.
ParseRequest(in) ==
    LET zero == [f \in Fields |-> Zero(f)]
        body == [f \in Fields |-> IF in.length # 0 /\ f \in DOMAIN in.json
                                  THEN in.json[f] ELSE zero[f]]
        query == Bind(body, "query", in.query)
        rest == Bind(query, "rest", in.rest)
        full == SetDefaults(rest)
    IN IF \/ in.length # 0 /\ parseBodyFails(in)
          \/ BindFails("query", in.query)
          \/ BindFails("rest", in.rest)
       THEN Failed
       ELSE IF DefaultFails(rest) THEN FailedInside
       ELSE IF \E f \in Fields : Struct[f].required /\ full[f] = Zero(f) THEN Failed
       ELSE Parsed(full)

(***************************************************************************)
(* What a reader of a request expects of field f: what the strongest       *)
(* source that names it wrote, as it was written.                          *)
(***************************************************************************)
Given(tag, input, f) == f \in Bound(tag, input)

Written(in, f) ==
    CASE Given("rest", in.rest, f) -> in.rest[f]
      [] ~Given("rest", in.rest, f) /\ Given("query", in.query, f) -> in.query[f]
      [] ~Given("rest", in.rest, f) /\ ~Given("query", in.query, f)
         /\ in.length # 0 /\ f \in DOMAIN in.json -> in.json[f]
      [] OTHER -> <<>>

AsWritten(in, f, value) ==
    LET text == Written(in, f)
    IN /\ text # <<>> /\ text # Zero(f) /\ Fits(f, text) => value = text
       /\ text \in {<<>>, Zero(f)} =>
             value = IF Struct[f].default # <<>> THEN Struct[f].default ELSE Zero(f)
==============================================================================
