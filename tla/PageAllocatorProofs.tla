------------------------- MODULE PageAllocatorProofs -------------------------
(***************************************************************************)
(* Proofs about the page allocator, for every number of pages.  TypeOK and *)
(* PoolConsistent are inductive together; the refinement of PagePool then  *)
(* follows, because the pages alloc pops are exactly unreferenced pages.   *)
(***************************************************************************)
EXTENDS PageAllocator, SequenceTheorems, TLAPS

\* The two halves into which alloc(n) cuts the deque.
LEMMA DequeSplit ==
  ASSUME TypeOK, NEW n \in Nat, n <= Len(free_pages)
  PROVE  LET rest == SubSeq(free_pages, n + 1, Len(free_pages))
         IN /\ Granted(n) \in Seq(Page)
            /\ Len(Granted(n)) = n
            /\ \A i \in 1 .. n : Granted(n)[i] = free_pages[i]
            /\ rest \in Seq(Page)
            /\ Len(rest) = Len(free_pages) - n
            /\ \A i \in 1 .. Len(free_pages) - n : rest[i] = free_pages[n + i]
<1> DEFINE rest == SubSeq(free_pages, n + 1, Len(free_pages))
<1>1. /\ Len(free_pages) \in Nat
      /\ \A i \in 1 .. Len(free_pages) : free_pages[i] \in Page
  BY LenProperties, ElementOfSeq DEF TypeOK
<1>2. /\ Granted(n) \in Seq(Page)
      /\ Len(Granted(n)) = n
      /\ \A i \in 1 .. n : Granted(n)[i] = free_pages[i]
  <2>1. \A i \in 1 .. n : free_pages[i] \in Page
    BY <1>1
  <2> QED
    BY <1>1, <2>1, SubSeqProperties, Z3 DEF Granted
<1>3. /\ rest \in Seq(Page)
      /\ Len(rest) = Len(free_pages) - n
      /\ \A i \in 1 .. Len(free_pages) - n : rest[i] = free_pages[n + i]
  <2>1. \A i \in n + 1 .. Len(free_pages) : free_pages[i] \in Page
    BY <1>1
  <2>2. /\ n + 1 \in Int
        /\ Len(free_pages) \in Int
    BY <1>1
  <2>3. /\ rest \in Seq(Page)
        /\ Len(rest) = IF n + 1 <= Len(free_pages) THEN Len(free_pages) - (n + 1) + 1 ELSE 0
        /\ \A i \in 1 .. Len(free_pages) - (n + 1) + 1 : rest[i] = free_pages[(n + 1) + i - 1]
    BY <2>1, <2>2, SubSeqProperties
  <2> HIDE DEF rest
  <2> QED
    BY <1>1, <2>3
<1> QED
  BY <1>2, <1>3

LEMMA InitTypeOK == Init => TypeOK
<1> SUFFICES ASSUME Init PROVE TypeOK
  OBVIOUS
<1>1. free_pages \in Seq(Page)
  BY NumPagesAssumption, SeqDef DEF Init, Page
<1> QED
  BY <1>1 DEF Init, TypeOK

LEMMA NextTypeOK == TypeOK /\ [Next]_vars => TypeOK'
<1> SUFFICES ASSUME TypeOK, [Next]_vars PROVE TypeOK'
  OBVIOUS
<1>1. ASSUME NEW n \in 1 .. NumPages, Alloc(n) PROVE TypeOK'
  <2>1. n \in Nat /\ n <= Len(free_pages)
    BY <1>1, NumPagesAssumption DEF Alloc
  <2>2. /\ free_pages' \in Seq(Page)
        /\ \A i \in 1 .. Len(Granted(n)) : Granted(n)[i] \in Page
    BY <1>1, <2>1, DequeSplit, ElementOfSeq DEF Alloc
  <2> QED
    BY <1>1, <2>2 DEF Alloc, TypeOK, Elements
<1>2. ASSUME NEW p \in Page, Incref(p) PROVE TypeOK'
  BY <1>2 DEF Incref, Allocated, TypeOK
<1>3. ASSUME NEW p, Allocated(p), Drop(p), freeing' \in Seq(Int) PROVE TypeOK'
  <2>1. free_pages' \in Seq(Page)
    <3>1. p \in Page /\ free_pages \in Seq(Page)
      BY <1>3 DEF Allocated, TypeOK
    <3>2. Append(free_pages, p) \in Seq(Page)
      BY <3>1, AppendProperties
    <3> QED
      BY <1>3, <3>1, <3>2 DEF Drop
  <2> QED
    BY <1>3, <2>1 DEF Drop, Allocated, TypeOK
<1>4. ASSUME NEW p \in Page, Decref(p) PROVE TypeOK'
  BY <1>3, <1>4 DEF Decref, TypeOK
<1>5. ASSUME NEW pages \in Seq(Int), FreeCall(pages) PROVE TypeOK'
  BY <1>5 DEF FreeCall, TypeOK
<1>6. CASE FreeNext
  <2>1. freeing' \in Seq(Int)
    BY <1>6, HeadTailProperties DEF FreeNext, TypeOK
  <2> QED
    BY <1>3, <1>6, <2>1 DEF FreeNext
<1>7. CASE FreeRaises
  BY <1>7 DEF FreeRaises, TypeOK
<1>8. CASE UNCHANGED vars
  BY <1>8 DEF vars, TypeOK
<1> QED
  BY <1>1, <1>2, <1>4, <1>5, <1>6, <1>7, <1>8 DEF Next

-----------------------------------------------------------------------------
LEMMA InitConsistent == Init => PoolConsistent
<1> SUFFICES ASSUME Init PROVE PoolConsistent
  OBVIOUS
<1>1. /\ Len(free_pages) = NumPages
      /\ \A i \in 1 .. NumPages : free_pages[i] = i - 1
  BY NumPagesAssumption DEF Init
<1>2. NoDuplicateFree
  BY <1>1, NumPagesAssumption DEF NoDuplicateFree
<1>3. ASSUME NEW p \in Page PROVE p \in Elements(free_pages)
  <2>1. p + 1 \in 1 .. Len(free_pages) /\ free_pages[p + 1] = p
    BY <1>1, NumPagesAssumption DEF Page
  <2> QED
    BY <2>1 DEF Elements
<1>4. ASSUME NEW p \in Page PROVE ref_count[p] = 0 /\ p \notin used_pages
  BY DEF Init
<1> QED
  BY <1>2, <1>3, <1>4 DEF PoolConsistent

LEMMA AllocConsistent ==
  ASSUME TypeOK, PoolConsistent, NEW n \in Nat, Alloc(n)
  PROVE  PoolConsistent'
<1> DEFINE rest == SubSeq(free_pages, n + 1, Len(free_pages))
<1>1. n \in Nat /\ n <= Len(free_pages) /\ Len(free_pages) \in Nat
  BY NumPagesAssumption, LenProperties DEF Alloc, TypeOK
<1>2. /\ Len(Granted(n)) = n
      /\ \A i \in 1 .. n : Granted(n)[i] = free_pages[i]
      /\ Len(free_pages') = Len(free_pages) - n
      /\ \A i \in 1 .. Len(free_pages) - n : free_pages'[i] = free_pages[n + i]
  BY <1>1, DequeSplit DEF Alloc
<1>3. NoDuplicateFree'
  <2> SUFFICES ASSUME NEW i \in 1 .. Len(free_pages'), NEW j \in 1 .. Len(free_pages'),
                      free_pages'[i] = free_pages'[j]
               PROVE  i = j
    BY DEF NoDuplicateFree
  <2>1. free_pages[n + i] = free_pages[n + j]
    BY <1>1, <1>2
  <2>2. n + i \in 1 .. Len(free_pages) /\ n + j \in 1 .. Len(free_pages)
    BY <1>1, <1>2
  <2>3. n + i = n + j
    BY <2>1, <2>2 DEF PoolConsistent, NoDuplicateFree
  <2> QED
    BY <1>1, <1>2, <2>3
<1>4. ASSUME NEW p \in Page
      PROVE  p \in Elements(free_pages) <=> p \in Elements(Granted(n)) \/ p \in Elements(free_pages')
  <2>1. ASSUME NEW k \in 1 .. Len(free_pages), free_pages[k] = p
        PROVE  p \in Elements(Granted(n)) \/ p \in Elements(free_pages')
    <3>1. CASE k <= n
      BY <1>1, <1>2, <2>1, <3>1 DEF Elements
    <3>2. CASE k > n
      <4>1. k - n \in 1 .. Len(free_pages) - n /\ free_pages'[k - n] = p
        BY <1>1, <1>2, <2>1, <3>2
      <4> QED
        BY <1>2, <4>1 DEF Elements
    <3> QED
      BY <1>1, <3>1, <3>2
  <2>2. ASSUME NEW k \in 1 .. Len(Granted(n)), Granted(n)[k] = p PROVE p \in Elements(free_pages)
    BY <1>1, <1>2, <2>2 DEF Elements
  <2>3. ASSUME NEW k \in 1 .. Len(free_pages'), free_pages'[k] = p PROVE p \in Elements(free_pages)
    <3>1. n + k \in 1 .. Len(free_pages) /\ free_pages[n + k] = p
      BY <1>1, <1>2, <2>3
    <3> QED
      BY <3>1 DEF Elements
  <2> QED
    BY <2>1, <2>2, <2>3 DEF Elements
<1>5. ASSUME NEW p \in Page, p \in Elements(Granted(n)), p \in Elements(free_pages') PROVE FALSE
  <2>1. PICK i \in 1 .. n : free_pages[i] = p
    BY <1>2, <1>5 DEF Elements
  <2>2. PICK j \in 1 .. Len(free_pages) - n : free_pages[n + j] = p
    BY <1>2, <1>5 DEF Elements
  <2>3. i \in 1 .. Len(free_pages) /\ n + j \in 1 .. Len(free_pages)
    BY <1>1
  <2>4. i = n + j
    BY <2>1, <2>2, <2>3 DEF PoolConsistent, NoDuplicateFree
  <2> QED
    BY <1>1, <2>4
<1>6. ASSUME NEW p \in Page
      PROVE  /\ p \in used_pages' <=> ref_count'[p] > 0
             /\ p \in Elements(free_pages') <=> ref_count'[p] = 0
  <2>1. ref_count[p] \in Nat
    BY DEF TypeOK
  <2>2. /\ ref_count'[p] = IF p \in Elements(Granted(n)) THEN 1 ELSE ref_count[p]
        /\ p \in used_pages' <=> p \in used_pages \/ p \in Elements(Granted(n))
    BY DEF Alloc
  <2> QED
    BY <1>4, <1>5, <2>1, <2>2 DEF PoolConsistent
<1>7. Elements(free_pages)' = Elements(free_pages')
  BY DEF Elements
<1> QED
  BY <1>3, <1>6, <1>7 DEF PoolConsistent

LEMMA DropConsistent ==
  ASSUME TypeOK, PoolConsistent, NEW p, Allocated(p), Drop(p)
  PROVE  PoolConsistent'
<1>1. p \in Page /\ ref_count[p] \in Nat /\ ref_count[p] > 0
  BY DEF Allocated, TypeOK
<1>2. \A q \in Page : /\ ref_count[q] \in Nat
                      /\ ref_count'[q] = IF q = p THEN ref_count[p] - 1 ELSE ref_count[q]
  BY <1>1 DEF Drop, TypeOK
<1>3. CASE ref_count[p] = 1
  <2>1. /\ used_pages' = used_pages \ {p}
        /\ free_pages' = Append(free_pages, p)
    BY <1>3 DEF Drop
  <2>2. /\ Len(free_pages) \in Nat
        /\ Len(free_pages') = Len(free_pages) + 1
        /\ \A i \in 1 .. Len(free_pages) : free_pages'[i] = free_pages[i]
        /\ free_pages'[Len(free_pages) + 1] = p
    BY <1>1, <2>1, AppendProperties, LenProperties DEF TypeOK
  <2>3. \A i \in 1 .. Len(free_pages) : free_pages[i] # p
    BY <1>1 DEF PoolConsistent, Elements
  <2>4. NoDuplicateFree'
    BY <2>2, <2>3 DEF PoolConsistent, NoDuplicateFree
  <2>5. ASSUME NEW q \in Page
        PROVE  q \in Elements(free_pages') <=> q \in Elements(free_pages) \/ q = p
    BY <2>2 DEF Elements
  <2>6. Elements(free_pages)' = Elements(free_pages')
    BY DEF Elements
  <2>7. ASSUME NEW q \in Page
        PROVE  /\ q \in used_pages' <=> ref_count'[q] > 0
               /\ q \in Elements(free_pages') <=> ref_count'[q] = 0
    BY <1>1, <1>2, <1>3, <2>1, <2>5 DEF PoolConsistent
  <2> QED
    BY <2>4, <2>6, <2>7 DEF PoolConsistent
<1>4. CASE ref_count[p] # 1
  <2>1. /\ used_pages' = used_pages
        /\ free_pages' = free_pages
    BY <1>4 DEF Drop
  <2>2. NoDuplicateFree' /\ Elements(free_pages)' = Elements(free_pages)
    BY <2>1 DEF PoolConsistent, NoDuplicateFree, Elements
  <2>3. ASSUME NEW q \in Page
        PROVE  /\ q \in used_pages' <=> ref_count'[q] > 0
               /\ q \in Elements(free_pages)' <=> ref_count'[q] = 0
    BY <1>1, <1>2, <1>4, <2>1, <2>2 DEF PoolConsistent
  <2> QED
    BY <2>2, <2>3 DEF PoolConsistent
<1> QED
  BY <1>3, <1>4

LEMMA UntouchedConsistent ==
  ASSUME PoolConsistent, UNCHANGED <<free_pages, used_pages, ref_count>>
  PROVE  PoolConsistent'
BY DEF PoolConsistent, NoDuplicateFree, Elements

LEMMA NextConsistent == TypeOK /\ PoolConsistent /\ [Next]_vars => PoolConsistent'
<1> SUFFICES ASSUME TypeOK, PoolConsistent, [Next]_vars PROVE PoolConsistent'
  OBVIOUS
<1>1. ASSUME NEW n \in 1 .. NumPages, Alloc(n) PROVE PoolConsistent'
  BY <1>1, AllocConsistent, NumPagesAssumption
<1>2. ASSUME NEW p \in Page, Incref(p) PROVE PoolConsistent'
  <2>1. /\ used_pages' = used_pages /\ free_pages' = free_pages
        /\ ref_count[p] \in Nat /\ ref_count[p] > 0
        /\ \A q \in Page : ref_count'[q] = IF q = p THEN ref_count[p] + 1 ELSE ref_count[q]
    BY <1>2 DEF Incref, Allocated, TypeOK
  <2>2. NoDuplicateFree' /\ Elements(free_pages)' = Elements(free_pages)
    BY <2>1 DEF PoolConsistent, NoDuplicateFree, Elements
  <2>3. ASSUME NEW q \in Page
        PROVE  /\ q \in used_pages' <=> ref_count'[q] > 0
               /\ q \in Elements(free_pages)' <=> ref_count'[q] = 0
    BY <2>1, <2>2 DEF PoolConsistent
  <2> QED
    BY <2>2, <2>3 DEF PoolConsistent
<1>3. ASSUME NEW p \in Page, Decref(p) PROVE PoolConsistent'
  BY <1>3, DropConsistent DEF Decref
<1>4. CASE FreeNext
  BY <1>4, DropConsistent DEF FreeNext
<1>5. ASSUME NEW pages \in Seq(Int), FreeCall(pages) PROVE PoolConsistent'
  BY <1>5, UntouchedConsistent DEF FreeCall
<1>6. CASE FreeRaises
  BY <1>6, UntouchedConsistent DEF FreeRaises
<1>7. CASE UNCHANGED vars
  BY <1>7, UntouchedConsistent DEF vars
<1> QED
  BY <1>1, <1>2, <1>3, <1>4, <1>5, <1>6, <1>7 DEF Next

\* Every reachable state of the allocator is well typed: reference counts
\* never go negative, whatever sequence of alloc, incref, decref and free.
THEOREM TypeCorrect == Spec => []TypeOK
BY InitTypeOK, NextTypeOK, PTL DEF Spec

\* The deque, the set and the counters of page_allocator.py always agree, for
\* every pool size and every sequence of calls, failing ones included.
THEOREM Consistency == Spec => []PoolConsistent
<1>1. Init => TypeOK /\ PoolConsistent
  BY InitTypeOK, InitConsistent
<1>2. TypeOK /\ PoolConsistent /\ [Next]_vars => (TypeOK /\ PoolConsistent)'
  BY NextTypeOK, NextConsistent
<1> QED
  BY <1>1, <1>2, PTL DEF Spec

-----------------------------------------------------------------------------
LEMMA InitRefines == Init => Pool!Init
BY DEF Init, Pool!Init

LEMMA NextRefines == TypeOK /\ PoolConsistent /\ [Next]_vars => [Pool!Next]_ref_count
<1> SUFFICES ASSUME TypeOK, PoolConsistent, [Next]_vars PROVE [Pool!Next]_ref_count
  OBVIOUS
<1>1. ASSUME NEW n \in 1 .. NumPages, Alloc(n) PROVE Pool!Next
  <2>1. n \in Nat /\ n <= Len(free_pages) /\ Len(free_pages) \in Nat
    BY <1>1, NumPagesAssumption, LenProperties DEF Alloc, TypeOK
  <2>2. Elements(Granted(n)) \subseteq Pool!Idle
    <3> SUFFICES ASSUME NEW i \in 1 .. Len(Granted(n)) PROVE Granted(n)[i] \in Pool!Idle
      BY DEF Elements
    <3>1. i \in 1 .. Len(free_pages) /\ Granted(n)[i] = free_pages[i] /\ free_pages[i] \in Page
      BY <2>1, DequeSplit, ElementOfSeq, SMTT(20) DEF TypeOK
    <3> QED
      BY <3>1 DEF PoolConsistent, Elements, Pool!Idle
  <2>3. Pool!Acquire(Elements(Granted(n))) /\ Elements(Granted(n)) \in SUBSET Page
    BY <1>1, <2>2 DEF Alloc, Pool!Acquire, Pool!Idle
  <2> QED
    BY <2>3 DEF Pool!Next
<1>2. ASSUME NEW p \in Page, Incref(p) PROVE Pool!Next
  <2>1. Pool!Share(p)
    BY <1>2 DEF Incref, Allocated, TypeOK, Pool!Share, Pool!Idle
  <2> QED
    BY <2>1 DEF Pool!Next
<1>3. ASSUME NEW p, Allocated(p), Drop(p) PROVE Pool!Next
  <2>1. p \in Page /\ Pool!Release(p)
    BY <1>3 DEF Drop, Allocated, TypeOK, Pool!Release, Pool!Idle
  <2> QED
    BY <2>1 DEF Pool!Next
<1>4. ASSUME NEW p \in Page, Decref(p) PROVE Pool!Next
  BY <1>3, <1>4 DEF Decref
<1>5. CASE FreeNext
  BY <1>3, <1>5 DEF FreeNext
<1>6. ASSUME NEW pages \in Seq(Int), FreeCall(pages) PROVE UNCHANGED ref_count
  BY <1>6 DEF FreeCall
<1>7. CASE FreeRaises
  BY <1>7 DEF FreeRaises
<1>8. CASE UNCHANGED vars
  BY <1>8 DEF vars
<1> QED
  BY <1>1, <1>2, <1>4, <1>5, <1>6, <1>7, <1>8 DEF Next

\* The allocator implements the abstract pool of PagePool.tla: whatever the
\* calls, alloc only hands out pages that nobody holds a reference to.
THEOREM Refinement == Spec => ImplementsPool
<1>1. Spec => [](TypeOK /\ PoolConsistent)
  BY TypeCorrect, Consistency, PTL
<1>2. TypeOK /\ PoolConsistent /\ [Next]_vars => [Pool!Next]_ref_count
  BY NextRefines
<1> QED
  BY <1>1, <1>2, InitRefines, PTL DEF Spec, ImplementsPool, Pool!Spec
=============================================================================
