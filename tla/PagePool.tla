------------------------------ MODULE PagePool ------------------------------
(***************************************************************************)
(* What a client of the KV page allocator may rely on, without the deque,  *)
(* the set and the counter array that the code keeps: every page has a     *)
(* number of references, a page is handed out only when it has none, and   *)
(* it comes back when the last reference is dropped.                       *)
(***************************************************************************)
EXTENDS Integers

CONSTANT Page       \* the physical page ids

VARIABLE refs       \* refs[p]: how many references to page p are held

Idle == {p \in Page : refs[p] = 0}

Init == refs = [p \in Page |-> 0]

\* Some pages that nobody references are handed out, each with one reference.
Acquire(granted) ==
  /\ granted \subseteq Idle
  /\ refs' = [p \in Page |-> IF p \in granted THEN 1 ELSE refs[p]]

\* A holder of a page shares it.
Share(p) ==
  /\ p \notin Idle
  /\ refs' = [refs EXCEPT ![p] = @ + 1]

\* A holder gives its reference back.
Release(p) ==
  /\ p \notin Idle
  /\ refs' = [refs EXCEPT ![p] = @ - 1]

Next == \/ \E granted \in SUBSET Page : Acquire(granted)
        \/ \E p \in Page : Share(p) \/ Release(p)

Spec == Init /\ [][Next]_refs
=============================================================================
