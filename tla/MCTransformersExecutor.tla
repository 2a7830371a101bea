----------------------- MODULE MCTransformersExecutor -----------------------
(***************************************************************************)
(* Two requests on a pool that is too small for both at their longest; r1  *)
(* decodes speculatively, r2 samples.  The reply of r1 begins with a       *)
(* character of two tokens and ends with the repetition guard, which the   *)
(* draft loop does not know.  If its third token is a wrong one, which     *)
(* does not end it, the fourth is a stop token, which ends the drafts too; *)
(* and if that is wrong as well, the budget ends it.  r2 meets eos.        *)
(***************************************************************************)
EXTENDS TransformersExecutor

CONSTANTS r1, r2

TwoReq == {r1, r2}
GreedyReq == {r1}
Lengths == (r1 :> 3) @@ (r2 :> 2)
Budgets == (r1 :> 5) @@ (r2 :> 3)
Replies == (r1 :> <<"first", "rest", "repeated", "stop", "char", "char", "char", "char">>)
           @@ (r2 :> <<"special", "eos", "char", "char">>)
WrongKinds == (r1 :> "char") @@ (r2 :> "char")
=============================================================================
