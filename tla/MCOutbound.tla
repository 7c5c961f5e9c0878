----------------------------- MODULE MCOutbound -----------------------------
(***************************************************************************)
(* Instances of Outbound for TLC.  Call b1 has one row and b2 has two, to  *)
(* different numbers.  In the pair instances there is one call of two      *)
(* rows, to different numbers or to the same number twice.                 *)
(***************************************************************************)
EXTENDS Outbound, TLC

CONSTANTS b1, b2, w1, w2, v1, v2

MCRow == 1..3
MCRowsOf == (b1 :> {1}) @@ (b2 :> {2, 3})
MCTo == <<"x", "x", "y">>

PairRowsOf == b1 :> {1, 2}
OneRowsOf == b1 :> {1}
PairTo == <<"x", "y">>
SameTo == <<"x", "x">>
====
