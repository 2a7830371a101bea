-------------------------- MODULE MCGraphExecutor --------------------------
(***************************************************************************)
(* Four requests on a static K/V array of ten positions: two greedy      *)
(* ones, of which r1 fills its bucket and r3 is padded, a sampled          *)
(* background one, and one whose prompt no prefill graph takes.            *)
(***************************************************************************)
EXTENDS GraphExecutor, TLC

CONSTANTS r1, r2, r3, r4

FourReq == {r1, r2, r3, r4}
MixedKind == (r1 :> "foreground") @@ (r2 :> "background") @@ (r3 :> "foreground")
             @@ (r4 :> "background")
Budgets == (r1 :> 10) @@ (r2 :> 2) @@ (r3 :> 4) @@ (r4 :> 1)
Lengths == (r1 :> 1) @@ (r2 :> 4) @@ (r3 :> 3) @@ (r4 :> 5)
GreedyReq == {r1, r3}
=============================================================================
