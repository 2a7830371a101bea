---------------------------- MODULE PageAllocator ----------------------------
(***************************************************************************)
(* The reference-counted allocator of fixed-size KV pages                  *)
(* (src/solort/cache/page_allocator.py).  Three structures describe one    *)
(* pool: the deque free_pages, the set used_pages and the array ref_count; *)
(* alloc, incref and decref update them by hand and must keep them in      *)
(* agreement.  free(pages) is a loop of decref that an invalid page aborts *)
(* half way, so it is modelled one decref at a time: freeing holds the     *)
(* pages the running call has still to release.                            *)
(***************************************************************************)
EXTENDS Integers, Sequences

CONSTANT NumPages

ASSUME NumPagesAssumption == NumPages \in Nat \ {0}

Page == 0 .. NumPages - 1

VARIABLES free_pages,   \* the deque of free page ids: popped left, appended right
          used_pages,   \* the set of allocated page ids
          ref_count,    \* ref_count[p], for every page
          freeing       \* pages a running free() has still to release

vars == <<free_pages, used_pages, ref_count, freeing>>

Elements(s) == {s[i] : i \in 1 .. Len(s)}

Init ==
  /\ free_pages = [i \in 1 .. NumPages |-> i - 1]
  /\ used_pages = {}
  /\ ref_count = [p \in Page |-> 0]
  /\ freeing = <<>>

-----------------------------------------------------------------------------
\* (Slips that the checks must notice stand before the definition they
\* alter; nothing else uses them.)

\* Slip: only the range of the page id is tested.
AllocatedInRange(p) == p \in Page

\* _validate_allocated: the range test, then the two structures.
Allocated(p) == /\ p \in Page
                /\ ref_count[p] > 0
                /\ p \in used_pages

\* Slip: the pages that are handed out are read from one end of the deque, those
\* that are removed are taken from the other.
GrantedFromRight(n) == SubSeq(free_pages, Len(free_pages) - n + 1, Len(free_pages))

\* The pages that alloc(n) pops, in the order in which it returns them.
Granted(n) == SubSeq(free_pages, 1, n)

\* alloc(n) for n >= 1; with n = 0 it returns at once, with too few free
\* pages it raises before it pops anything.
Alloc(n) ==
  /\ freeing = <<>>
  /\ n > 0
  /\ n <= Len(free_pages)
  /\ free_pages' = SubSeq(free_pages, n + 1, Len(free_pages))
  /\ used_pages' = used_pages \cup Elements(Granted(n))
  /\ ref_count' = [p \in Page |-> IF p \in Elements(Granted(n)) THEN 1 ELSE ref_count[p]]
  /\ UNCHANGED freeing

\* incref(p) of an allocated page; any other page raises.
Incref(p) ==
  /\ freeing = <<>>
  /\ Allocated(p)
  /\ ref_count' = [ref_count EXCEPT ![p] = @ + 1]
  /\ UNCHANGED <<free_pages, used_pages, freeing>>

\* Slip: the last reference returns the page to the deque but leaves it in
\* the set.
DropKeepsUsed(p) ==
  /\ ref_count' = [ref_count EXCEPT ![p] = @ - 1]
  /\ free_pages' = IF ref_count[p] = 1 THEN Append(free_pages, p) ELSE free_pages
  /\ UNCHANGED used_pages

\* The body of decref once the page is validated: the last reference moves
\* the page from the set to the end of the deque.
Drop(p) ==
  /\ ref_count' = [ref_count EXCEPT ![p] = @ - 1]
  /\ IF ref_count[p] = 1
       THEN /\ used_pages' = used_pages \ {p}
            /\ free_pages' = Append(free_pages, p)
       ELSE UNCHANGED <<used_pages, free_pages>>

Decref(p) ==
  /\ freeing = <<>>
  /\ Allocated(p)
  /\ Drop(p)
  /\ UNCHANGED freeing

\* free(pages) is called ...
FreeCall(pages) ==
  /\ freeing = <<>>
  /\ freeing' = pages
  /\ UNCHANGED <<free_pages, used_pages, ref_count>>

\* ... releases its next page ...
FreeNext ==
  /\ freeing # <<>>
  /\ Allocated(Head(freeing))
  /\ Drop(Head(freeing))
  /\ freeing' = Tail(freeing)

\* ... or meets a page that is not allocated and raises: what it has already
\* released stays released, the rest of the list keeps its references.
FreeRaises ==
  /\ freeing # <<>>
  /\ ~ Allocated(Head(freeing))
  /\ freeing' = <<>>
  /\ UNCHANGED <<free_pages, used_pages, ref_count>>

Next == \/ \E n \in 1 .. NumPages : Alloc(n)
        \/ \E p \in Page : Incref(p) \/ Decref(p)
        \/ \E pages \in Seq(Int) : FreeCall(pages)
        \/ FreeNext
        \/ FreeRaises

Spec == Init /\ [][Next]_vars

-----------------------------------------------------------------------------
(* Types: counters never go negative, pages are in range.                  *)
TypeOK ==
  /\ free_pages \in Seq(Page)
  /\ used_pages \subseteq Page
  /\ ref_count \in [Page -> Nat]
  /\ freeing \in Seq(Int)

NoDuplicateFree ==
  \A i, j \in 1 .. Len(free_pages) : free_pages[i] = free_pages[j] => i = j

\* The three structures describe the same pool: a page is in the deque exactly
\* once when it has no reference, in the set exactly when it has one.  alloc
\* and decref edit the three separately; were they to disagree, a page would
\* be handed to two sequences or lost to both.
PoolConsistent ==
  /\ NoDuplicateFree
  /\ \A p \in Page : /\ p \in used_pages <=> ref_count[p] > 0
                     /\ p \in Elements(free_pages) <=> ref_count[p] = 0

\* The allocator implements the abstract pool: no call sequence, with pages
\* listed twice in free(), invalid ids or an aborted free(), hands out a
\* page that is still referenced.
Pool == INSTANCE PagePool WITH refs <- ref_count
ImplementsPool == Pool!Spec
=============================================================================
