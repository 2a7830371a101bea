------------------------------ MODULE MCRuntime ------------------------------
(***************************************************************************)
(* Instances of the runtime for TLC: three requests that differ in kind,   *)
(* session, prompt and budget.  Every request may be cancelled, by either  *)
(* id, or abandoned, at any time, unless a run says otherwise.             *)
(***************************************************************************)
EXTENDS RuntimeProperties, TLC

CONSTANTS r1, r2, r3, s1, s2

\* The first n words of one text: of two prompts one is a prefix of the other.
Words(n) == [i \in 1 .. n |-> <<r1, -i>>]

ThreeReq == {r1, r2, r3}

\* Two foreground requests of one session and a background one.
MixedKind == (r1 :> "foreground") @@ (r2 :> "background") @@ (r3 :> "foreground")
\* With a branch request, which the API accepts too.
BranchKind == (r1 :> "foreground") @@ (r2 :> "branch") @@ (r3 :> "background")

SharedSession == (r1 :> s1) @@ (r2 :> s2) @@ (r3 :> s1)
OneSession == (r1 :> s1) @@ (r2 :> s1) @@ (r3 :> s1)

MixedMax == (r1 :> 2) @@ (r2 :> 2) @@ (r3 :> 1)
SmallMax == (r1 :> 2) @@ (r2 :> 1) @@ (r3 :> 1)

MixedPrompt == (r1 :> Words(2)) @@ (r2 :> Words(3)) @@ (r3 :> Words(1))
SharedPrompt == (r1 :> Words(3)) @@ (r2 :> Words(3)) @@ (r3 :> Words(1))

NoReaders == {}
AllButOne == {r1, r3}

=============================================================================
