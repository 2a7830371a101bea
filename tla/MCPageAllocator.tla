--------------------------- MODULE MCPageAllocator ---------------------------
(***************************************************************************)
(* A small pool.  free() is called with every list of at most MaxFree ids, *)
(* the invalid ids -1 and NumPages and repeated pages included.            *)
(***************************************************************************)
EXTENDS PageAllocator

CONSTANTS MaxRefs, MaxFree

FreeLists == UNION {[1 .. k -> -1 .. NumPages] : k \in 1 .. MaxFree}

MCNext == \/ \E n \in 1 .. NumPages : Alloc(n)
          \/ \E p \in Page : /\ ref_count[p] < MaxRefs
                             /\ Incref(p)
          \/ \E p \in Page : Decref(p)
          \/ \E pages \in FreeLists : FreeCall(pages)
          \/ FreeNext
          \/ FreeRaises

MCSpec == Init /\ [][MCNext]_vars
=============================================================================
