-------------------------------- MODULE Reply --------------------------------
(***************************************************************************)
(* The errors of kate (src/error_info.go, src/errors.go) and the answers   *)
(* that BaseHandler and RESTHandler make of them.                          *)
(*                                                                         *)
(* An error is the sequence of the layers that errors.As meets: <<"wrap">> *)
(* (fmt.Errorf with %w), <<"plain">> (any other error), <<"simple", code>> *)
(* (errSimple), <<"data", code>> (errWithData), <<"status", status>>       *)
(* (errWithHTTPStatus).  What an answer says is its envelope: the errno    *)
(* and whether there is data.                                              *)
(***************************************************************************)
EXTENDS Integers, Sequences, SequencesExt

ErrSuccess == <<<<"simple", 0>>>>
ErrServerInternal == <<<<"simple", -1>>>>
ErrBadParam == <<<<"simple", -2>>>>

WithHTTPStatus(err, status) == <<<<"status", status>>>> \o err
NewHTTPError(status, errno) == WithHTTPStatus(<<<<"simple", errno>>>>, status)

\* The statuses that end an answer and let it have a body.
FinalStatuses == (200..999) \ {204, 304}

\* The errors there are: a layer with a status has an ErrorInfo in it.
IsError(err) ==
    LET infos == {"simple", "data"} \X Int
        others == {<<"wrap">>, <<"plain">>}
    IN /\ err # <<>>
       /\ err \in Seq(others \cup infos \cup ({"status"} \X FinalStatuses))
       /\ Last(err) \in infos \/ Range(err) \subseteq others

\* errors.As with a target that the layers of these kinds implement.
As(err, kinds) ==
    LET i == SelectInSeq(err, LAMBDA layer : layer[1] \in kinds)
    IN IF i = 0 THEN <<>> ELSE SubSeq(err, i, Len(err))

\* A layer with a status passes Code on to the error in it.
Code(info) == Last(info)[2]

Info(err) ==
    LET info == As(err, {"simple", "data", "status"})
    IN IF info = <<>> THEN ErrServerInternal ELSE info

HasData(info) == As(info, {"data"}) # <<>>

errorResult(err) == [errno |-> Code(Info(err)), data |-> HasData(Info(err))]

httpStatusOf(info) ==
    LET carrier == As(info, {"status"})
    IN IF carrier # <<>> THEN Head(carrier)[2]
       ELSE IF Code(info) = -2 THEN 400 ELSE 500
==============================================================================
