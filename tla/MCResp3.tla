------------------------------ MODULE MCResp3 ------------------------------
(* Model of Resp3Transport: which reply shapes the server uses. *)
EXTENDS Resp3Transport

Scalar(kind) == [kind |-> kind, items |-> <<>>]
Array(items) == [kind |-> "agg", items |-> items]

(* Everything a conforming reply can look like without an error in front   *)
(* of other elements; an error as the last element included.               *)
CleanShapes == {Scalar("val"), Scalar("err"), Array(<<"val", "err">>)}

(* The same with an error in front of another element, as in the reply to  *)
(* an EXEC one of whose commands failed.                                   *)
NestedErrorShapes == {Scalar("val"), Array(<<"err", "val">>)}
=============================================================================
