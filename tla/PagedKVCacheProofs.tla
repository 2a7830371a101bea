------------------------- MODULE PagedKVCacheProofs -------------------------
(***************************************************************************)
(* Proofs about the paged KV cache, for every set of sequences, pool and   *)
(* page size.  PagesOwnedOnce is not inductive: a rollback needs to know   *)
(* what an open transaction holds (TxnHolds), and the loop in free() that  *)
(* the pages it has still to release are in no block table (Owned).        *)
(***************************************************************************)
EXTENDS PagedKVCache, SequenceTheorems, TLAPS

PoolFacts == INSTANCE PageAllocatorProofs

Page == Pool!Page

PoolInv ==
  /\ free_pages \in Seq(Page)
  /\ used_pages \subseteq Page
  /\ ref_count \in [Page -> Nat]
  /\ Pool!PoolConsistent

Tables ==
  /\ block_table \in [Owner -> Seq(Page)]
  /\ freeing \in Seq(Page)

\* The transaction holds the end of the block table, from the length on that
\* the table had before it; before it the table was the rest.
TxnHolds ==
  \A s \in Owner : txn[s].open =>
    LET len == txn[s].original_block_len
    IN /\ len \in 0 .. Len(block_table[s])
       /\ txn[s].before = SubSeq(block_table[s], 1, len)
       /\ txn[s].pages = SubSeq(block_table[s], len + 1, Len(block_table[s]))

TxnType == txn \in [Owner -> [pages : Seq(Page), original_block_len : Nat,
                              before : Seq(Page), open : BOOLEAN]]

Owned ==
  /\ \A s, t \in Owner : \A i \in 1 .. Len(block_table[s]), j \in 1 .. Len(block_table[t]) :
       block_table[s][i] = block_table[t][j] => s = t /\ i = j
  /\ \A i, j \in 1 .. Len(freeing) : freeing[i] = freeing[j] => i = j
  /\ \A s \in Owner : \A i \in 1 .. Len(block_table[s]), j \in 1 .. Len(freeing) :
       block_table[s][i] # freeing[j]
  /\ \A p \in Page :
       p \in used_pages <=> \/ \E s \in Owner : \E i \in 1 .. Len(block_table[s]) :
                                 p = block_table[s][i]
                            \/ \E j \in 1 .. Len(freeing) : p = freeing[j]
  /\ \A p \in used_pages : ref_count[p] = 1

KVInv == PoolInv /\ Tables /\ TxnType /\ TxnHolds /\ Owned

KVAssumption == NumPages \in Nat \ {0}

-----------------------------------------------------------------------------
(* How many pages a number of tokens needs *)

LEMMA DivFacts ==
  \A a \in Nat, k \in Nat \ {0} :
    a \div k \in Nat /\ k * (a \div k) <= a /\ a < k * (a \div k) + k
BY SMT

LEMMA NextMultiple == \A p, q \in Nat, k \in Nat \ {0} : p > q => k * p >= k * q + k
BY SMT

LEMMA DivMonotonic ==
  ASSUME NEW a \in Nat, NEW b \in Nat, NEW k \in Nat \ {0}, a <= b
  PROVE  a \div k <= b \div k
<1>1. a \div k \in Nat /\ k * (a \div k) <= a /\ a < k * (a \div k) + k
  BY DivFacts
<1>2. b \div k \in Nat /\ k * (b \div k) <= b /\ b < k * (b \div k) + k
  BY DivFacts
<1> QED
  BY <1>1, <1>2, NextMultiple

LEMMA PagesType == \A n \in Nat : PagesRequired(n) \in Nat
<1> SUFFICES ASSUME NEW n \in Nat PROVE PagesRequired(n) \in Nat
  OBVIOUS
<1>1. n + PageSize - 1 \in Nat
  BY PageSizeAssumption
<1> QED
  BY <1>1, DivFacts, PageSizeAssumption DEF PagesRequired

\* More tokens do not need fewer pages.
LEMMA PagesMonotonic ==
  ASSUME NEW a \in Nat, NEW b \in Nat, a <= b
  PROVE  PagesRequired(a) <= PagesRequired(b)
<1>1. CASE a = 0
  BY <1>1, PagesType DEF PagesRequired
<1>2. CASE a > 0
  <2>1. a + PageSize - 1 \in Nat /\ b + PageSize - 1 \in Nat /\ a + PageSize - 1 <= b + PageSize - 1
    BY PageSizeAssumption
  <2>2. (a + PageSize - 1) \div PageSize <= (b + PageSize - 1) \div PageSize
    BY <2>1, DivMonotonic, PageSizeAssumption
  <2> QED
    BY <1>2, <2>2 DEF PagesRequired
<1> QED
  BY <1>1, <1>2

-----------------------------------------------------------------------------
(* What the sequences are *)

LEMMA TableFacts ==
  ASSUME Tables
  PROVE  /\ \A s \in Owner : /\ Len(block_table[s]) \in Nat
                             /\ \A i \in 1 .. Len(block_table[s]) : block_table[s][i] \in Page
         /\ Len(freeing) \in Nat
         /\ \A j \in 1 .. Len(freeing) : freeing[j] \in Page
BY LenProperties, ElementOfSeq DEF Tables

LEMMA InvImpliesOwnedOnce == KVInv => PagesOwnedOnce
BY DEF KVInv, Owned, PagesOwnedOnce, Pool!Elements, Page

\* What is stated of the pages depends on these variables alone.
LEMMA PagesUntouched ==
  ASSUME PoolInv, Tables, Owned,
         UNCHANGED <<free_pages, used_pages, ref_count, freeing, block_table>>
  PROVE  PoolInv' /\ Tables' /\ Owned'
<1>1. PoolInv'
  BY DEF PoolInv, Pool!PoolConsistent, Pool!NoDuplicateFree, Pool!Elements
<1>2. Tables'
  BY DEF Tables
<1>3. \A s, t \in Owner : \A i \in 1 .. Len(block_table'[s]), j \in 1 .. Len(block_table'[t]) :
        block_table'[s][i] = block_table'[t][j] => s = t /\ i = j
  BY DEF Owned
<1>4. \A i, j \in 1 .. Len(freeing') : freeing'[i] = freeing'[j] => i = j
  BY DEF Owned
<1>5. \A s \in Owner : \A i \in 1 .. Len(block_table'[s]), j \in 1 .. Len(freeing') :
        block_table'[s][i] # freeing'[j]
  BY DEF Owned
<1>6. \A p \in Page :
        p \in used_pages' <=> \/ \E s \in Owner : \E i \in 1 .. Len(block_table'[s]) :
                                   p = block_table'[s][i]
                              \/ \E j \in 1 .. Len(freeing') : p = freeing'[j]
  BY DEF Owned
<1>7. \A p \in used_pages' : ref_count'[p] = 1
  BY DEF Owned
<1> QED
  BY <1>1, <1>2, <1>3, <1>4, <1>5, <1>6, <1>7 DEF Owned

-----------------------------------------------------------------------------
(* alloc *)

\* The pages alloc hands out are distinct, belong to nobody, and get one
\* reference; the pool stays consistent.
LEMMA AllocFacts ==
  ASSUME PoolInv, freeing = <<>>, KVAssumption, NEW n \in Nat, Pool!Alloc(n)
  PROVE  LET granted == Pool!Granted(n)
         IN /\ PoolInv'
            /\ granted \in Seq(Page)
            /\ Len(granted) = n
            /\ \A i \in 1 .. n : granted[i] \notin used_pages
            /\ \A i, j \in 1 .. n : granted[i] = granted[j] => i = j
            /\ \A p \in Page : p \in used_pages' <=> p \in used_pages \/ \E i \in 1 .. n : p = granted[i]
            /\ \A p \in Page : ref_count'[p] = IF \E i \in 1 .. n : p = granted[i] THEN 1 ELSE ref_count[p]
<1> DEFINE granted == Pool!Granted(n)
           rest == SubSeq(free_pages, n + 1, Len(free_pages))
<1>1. PoolFacts!TypeOK /\ PoolFacts!PoolConsistent /\ PoolFacts!Alloc(n)
  <2>1. freeing \in Seq(Int)
    OBVIOUS
  <2> QED
    BY <2>1
    DEF PoolInv, Page, Pool!Page, Pool!PoolConsistent, Pool!NoDuplicateFree, Pool!Elements,
        Pool!Alloc, Pool!Granted, PoolFacts!TypeOK, PoolFacts!Page, PoolFacts!PoolConsistent,
        PoolFacts!NoDuplicateFree, PoolFacts!Elements, PoolFacts!Alloc, PoolFacts!Granted
<1>2. n <= Len(free_pages) /\ Len(free_pages) \in Nat
  BY LenProperties DEF Pool!Alloc, PoolInv
<1>3. /\ granted \in Seq(Page)
      /\ Len(granted) = n
      /\ \A i \in 1 .. n : granted[i] = free_pages[i]
      /\ rest \in Seq(Page)
  <2>1. /\ PoolFacts!Granted(n) \in Seq(PoolFacts!Page)
        /\ Len(PoolFacts!Granted(n)) = n
        /\ \A i \in 1 .. n : PoolFacts!Granted(n)[i] = free_pages[i]
        /\ rest \in Seq(PoolFacts!Page)
    BY <1>1, <1>2, PoolFacts!DequeSplit, PageSizeAssumption, Zenon
    DEF KVAssumption, PoolFacts!NumPagesAssumption
  <2> QED
    BY <2>1 DEF Pool!Granted, PoolFacts!Granted, Page, Pool!Page, PoolFacts!Page
<1>4. Pool!PoolConsistent'
  <2>1. PoolFacts!PoolConsistent'
    BY <1>1, PoolFacts!AllocConsistent, Zenon DEF KVAssumption, PoolFacts!NumPagesAssumption
  <2> QED
    BY <2>1
    DEF Pool!PoolConsistent, Pool!NoDuplicateFree, Pool!Elements, Pool!Page,
        PoolFacts!PoolConsistent, PoolFacts!NoDuplicateFree, PoolFacts!Elements, PoolFacts!Page
<1> HIDE DEF granted, rest
<1>5. /\ free_pages' = rest
      /\ used_pages' = used_pages \cup Pool!Elements(granted)
      /\ ref_count' = [p \in Page |-> IF p \in Pool!Elements(granted) THEN 1 ELSE ref_count[p]]
  BY DEF Pool!Alloc, granted, rest, Page
<1>6. \A i \in 1 .. n : granted[i] \in Page
  BY <1>3, ElementOfSeq
<1>7. \A p : p \in Pool!Elements(granted) <=> \E i \in 1 .. n : p = granted[i]
  BY <1>3 DEF Pool!Elements
<1>8. PoolInv'
  <2>1. used_pages' \subseteq Page
    BY <1>5, <1>6, <1>7 DEF PoolInv
  <2>2. ref_count' \in [Page -> Nat]
    BY <1>5 DEF PoolInv
  <2> QED
    BY <1>3, <1>4, <1>5, <2>1, <2>2 DEF PoolInv, Page, Pool!Page
<1>9. ASSUME NEW i \in 1 .. n PROVE granted[i] \notin used_pages
  <2>1. i \in 1 .. Len(free_pages) /\ granted[i] = free_pages[i] /\ granted[i] \in Page
    BY <1>2, <1>3, <1>6
  <2> QED
    BY <2>1 DEF PoolInv, Pool!PoolConsistent, Pool!Elements, Page
<1>10. ASSUME NEW i \in 1 .. n, NEW j \in 1 .. n, granted[i] = granted[j] PROVE i = j
  <2>1. /\ i \in 1 .. Len(free_pages) /\ granted[i] = free_pages[i]
        /\ j \in 1 .. Len(free_pages) /\ granted[j] = free_pages[j]
    BY <1>2, <1>3
  <2>2. Pool!NoDuplicateFree
    BY DEF PoolInv, Pool!PoolConsistent
  <2> QED
    BY <1>10, <2>1, <2>2 DEF Pool!NoDuplicateFree
<1> QED
  BY <1>3, <1>5, <1>7, <1>8, <1>9, <1>10 DEF granted

\* The elements of a concatenation, as a single fact.
LEMMA ConcatElements ==
  \A S : \A s, t \in Seq(S) :
    /\ s \o t \in Seq(S)
    /\ Len(s \o t) = Len(s) + Len(t)
    /\ \A i \in 1 .. Len(s) + Len(t) :
         (s \o t)[i] = IF i <= Len(s) THEN s[i] ELSE t[i - Len(s)]
BY ConcatProperties

\* A block table that grows keeps what it had; what it gets belonged to nobody.
LEMMA EnsureCapacityFacts ==
  ASSUME PoolInv, Tables, Owned, freeing = <<>>, KVAssumption,
         NEW q \in Owner, NEW n \in Nat, Fits(q, n), EnsureCapacity(q, n)
  PROVE  /\ PoolInv' /\ Tables' /\ Owned' /\ freeing' = <<>>
         /\ \A s \in Owner \ {q} : block_table'[s] = block_table[s]
         /\ Len(block_table'[q]) >= Len(block_table[q])
         /\ \A i \in 1 .. Len(block_table[q]) : block_table'[q][i] = block_table[q][i]
<1> DEFINE m == Missing(q, n)
           granted == Pool!Granted(m)
<1>1. m \in Int
  BY PageSizeAssumption, TableFacts DEF Missing, PagesRequired
<1>2. CASE m <= 0
  <2>1. UNCHANGED <<free_pages, used_pages, ref_count, freeing, block_table>>
    BY <1>2 DEF EnsureCapacity, poolVars
  <2> QED
    BY <1>2, <2>1, PagesUntouched, TableFacts
<1>3. CASE m > 0
  <2>1. /\ m \in Nat /\ Pool!Alloc(m)
        /\ block_table' = [block_table EXCEPT ![q] = block_table[q] \o granted]
        /\ freeing' = <<>>
    BY <1>1, <1>3 DEF EnsureCapacity, Pool!Alloc
  <2>2. /\ PoolInv'
        /\ granted \in Seq(Page)
        /\ Len(granted) = m
        /\ \A i \in 1 .. m : granted[i] \notin used_pages
        /\ \A i, j \in 1 .. m : granted[i] = granted[j] => i = j
        /\ \A p \in Page : p \in used_pages' <=> p \in used_pages \/ \E i \in 1 .. m : p = granted[i]
        /\ \A p \in Page : ref_count'[p] = IF \E i \in 1 .. m : p = granted[i] THEN 1 ELSE ref_count[p]
    BY <2>1, AllocFacts
  <2> HIDE DEF m, granted
  <2>3. /\ block_table[q] \in Seq(Page)
        /\ Len(block_table[q]) \in Nat
        /\ \A s \in Owner \ {q} : block_table'[s] = block_table[s]
        /\ block_table'[q] = block_table[q] \o granted
    BY <2>1, TableFacts DEF Tables
  <2>4. /\ block_table'[q] \in Seq(Page)
        /\ Len(block_table'[q]) = Len(block_table[q]) + m
        /\ \A i \in 1 .. Len(block_table[q]) + m :
             block_table'[q][i] = IF i <= Len(block_table[q]) THEN block_table[q][i]
                                                              ELSE granted[i - Len(block_table[q])]
    <3>1. /\ block_table[q] \o granted \in Seq(Page)
          /\ Len(block_table[q] \o granted) = Len(block_table[q]) + Len(granted)
          /\ \A i \in 1 .. Len(block_table[q]) + Len(granted) :
               (block_table[q] \o granted)[i] = IF i <= Len(block_table[q])
                                                 THEN block_table[q][i]
                                                 ELSE granted[i - Len(block_table[q])]
      <4>1. block_table[q] \in Seq(Page) /\ granted \in Seq(Page)
        BY <2>2, <2>3
      <4> QED
        BY <4>1, ConcatElements, Zenon
    <3>2. block_table'[q] = block_table[q] \o granted /\ Len(granted) = m
      BY <2>2, <2>3
    <3> QED
      BY <3>1, <3>2, Zenon
  <2>5. Tables'
    BY <2>1, <2>4 DEF Tables
  <2> DEFINE Old(s, i) == /\ i \in 1 .. Len(block_table[s])
                          /\ block_table'[s][i] = block_table[s][i]
                          /\ block_table'[s][i] \in used_pages
             New(s, i) == /\ s = q /\ i - Len(block_table[q]) \in 1 .. m
                          /\ block_table'[s][i] = granted[i - Len(block_table[q])]
                          /\ block_table'[s][i] \notin used_pages
  <2>6. \A s \in Owner : \A i \in 1 .. Len(block_table[s]) : block_table[s][i] \in used_pages
    BY TableFacts DEF Owned
  <2>7. ASSUME NEW s \in Owner, NEW i \in 1 .. Len(block_table'[s]) PROVE Old(s, i) \/ New(s, i)
    <3>1. CASE s # q
      BY <2>3, <2>6, <3>1
    <3>2. CASE s = q /\ i <= Len(block_table[q])
      BY <2>3, <2>4, <2>6, <3>2
    <3>3. CASE s = q /\ i > Len(block_table[q])
      <4>1. i - Len(block_table[q]) \in 1 .. m
        BY <2>1, <2>3, <2>4, <3>3
      <4> QED
        BY <2>2, <2>3, <2>4, <3>3, <4>1
    <3> QED
      BY <2>3, <3>1, <3>2, <3>3
  <2>8. ASSUME NEW s \in Owner, NEW t \in Owner,
               NEW i \in 1 .. Len(block_table'[s]), NEW j \in 1 .. Len(block_table'[t]),
               block_table'[s][i] = block_table'[t][j]
        PROVE  s = t /\ i = j
    <3>1. CASE Old(s, i) /\ Old(t, j)
      <4>1. /\ i \in 1 .. Len(block_table[s]) /\ j \in 1 .. Len(block_table[t])
            /\ block_table[s][i] = block_table[t][j]
        BY <2>8, <3>1
      <4>2. \A u, v \in Owner : \A k \in 1 .. Len(block_table[u]), l \in 1 .. Len(block_table[v]) :
              block_table[u][k] = block_table[v][l] => u = v /\ k = l
        BY DEF Owned
      <4> QED
        BY <4>1, <4>2
    <3>2. CASE New(s, i) /\ New(t, j)
      <4>1. i - Len(block_table[q]) = j - Len(block_table[q])
        BY <2>2, <2>8, <3>2
      <4> QED
        BY <2>3, <3>2, <4>1
    <3>3. CASE (Old(s, i) /\ New(t, j)) \/ (New(s, i) /\ Old(t, j))
      BY <2>8, <3>3
    <3> HIDE DEF Old, New
    <3> QED
      BY <2>7, <3>1, <3>2, <3>3
  <2>9. ASSUME NEW p \in Page
        PROVE  p \in used_pages' <=> \E s \in Owner : \E i \in 1 .. Len(block_table'[s]) :
                                       p = block_table'[s][i]
    <3>1. ASSUME p \in used_pages
          PROVE  \E s \in Owner : \E i \in 1 .. Len(block_table'[s]) : p = block_table'[s][i]
      <4>1. PICK s \in Owner : \E i \in 1 .. Len(block_table[s]) : p = block_table[s][i]
        BY <3>1 DEF Owned
      <4> PICK i \in 1 .. Len(block_table[s]) : p = block_table[s][i]
        BY <4>1
      <4>2. CASE s = q
        BY <2>1, <2>3, <2>4, <4>2
      <4>3. CASE s # q
        BY <2>3, <4>3
      <4> QED
        BY <4>2, <4>3
    <3>2. ASSUME NEW k \in 1 .. m, p = granted[k]
          PROVE  \E s \in Owner : \E i \in 1 .. Len(block_table'[s]) : p = block_table'[s][i]
      <4>1. /\ Len(block_table[q]) + k \in 1 .. Len(block_table'[q])
            /\ block_table'[q][Len(block_table[q]) + k] = p
        BY <2>1, <2>3, <2>4, <3>2
      <4> QED
        BY <4>1
    <3>3. ASSUME NEW s \in Owner, NEW i \in 1 .. Len(block_table'[s]), p = block_table'[s][i]
          PROVE  p \in used_pages'
      BY <2>2, <2>7, <3>3
    <3> QED
      BY <2>2, <3>1, <3>2, <3>3
  <2>10. ASSUME NEW p \in used_pages' PROVE ref_count'[p] = 1
    <3>1. p \in Page
      BY <2>2 DEF PoolInv
    <3>2. CASE p \in used_pages
      BY <2>2, <3>1, <3>2 DEF Owned
    <3>3. CASE p \notin used_pages
      BY <2>2, <3>1, <3>3
    <3> QED
      BY <3>2, <3>3
  <2>11. Owned'
    BY <2>1, <2>8, <2>9, <2>10 DEF Owned
  <2> QED
    BY <2>1, <2>2, <2>3, <2>4, <2>5, <2>11
<1> QED
  BY <1>1, <1>2, <1>3

-----------------------------------------------------------------------------
(* One step preserves the invariant *)

\* An open transaction of another sequence does not notice a growth; and no
\* transaction of the sequence itself is open.
LEMMA GrowthKeepsTxns ==
  ASSUME Tables, TxnType, TxnHolds, NEW q \in Owner, ~ txn[q].open,
         \A s \in Owner \ {q} : block_table'[s] = block_table[s],
         NEW s \in Owner, txn[s].open
  PROVE  LET len == txn[s].original_block_len
         IN /\ len \in 0 .. Len(block_table'[s])
            /\ txn[s].before = SubSeq(block_table'[s], 1, len)
            /\ txn[s].pages = SubSeq(block_table'[s], len + 1, Len(block_table'[s]))
<1>1. s # q /\ block_table'[s] = block_table[s]
  OBVIOUS
<1> QED
  BY <1>1 DEF TxnHolds

LEMMA GrowStep ==
  ASSUME KVInv, KVAssumption, NEW q \in Owner, NEW n \in Nat, Grow(q, n)
  PROVE  KVInv'
<1>1. /\ PoolInv' /\ Tables' /\ Owned'
      /\ \A s \in Owner \ {q} : block_table'[s] = block_table[s]
  BY EnsureCapacityFacts DEF Grow, Idle, KVInv
<1>2. txn' = txn /\ ~ txn[q].open
  BY DEF Grow
<1>3. TxnType'
  BY <1>2 DEF KVInv, TxnType
<1>4. TxnHolds'
  BY <1>1, <1>2, GrowthKeepsTxns DEF KVInv, TxnHolds
<1> QED
  BY <1>1, <1>3, <1>4 DEF KVInv

LEMMA BeginStep ==
  ASSUME KVInv, KVAssumption, NEW q \in Owner, NEW n \in Nat, Begin(q, n)
  PROVE  KVInv'
<1> DEFINE old == block_table[q]
           new == block_table'[q]
<1>1. /\ PoolInv' /\ Tables' /\ Owned'
      /\ \A s \in Owner \ {q} : block_table'[s] = block_table[s]
      /\ Len(new) >= Len(old)
      /\ \A i \in 1 .. Len(old) : new[i] = old[i]
  BY EnsureCapacityFacts DEF Begin, Idle, KVInv
<1>2. /\ old \in Seq(Page) /\ Len(old) \in Nat
      /\ new \in Seq(Page) /\ Len(new) \in Nat
  BY <1>1, LenProperties DEF KVInv, Tables
<1> DEFINE t == [pages |-> SubSeq(new, Len(old) + 1, Len(new)), original_block_len |-> Len(old),
                 before |-> old, open |-> TRUE]
<1>3. txn' = [txn EXCEPT ![q] = t] /\ ~ txn[q].open
  BY DEF Begin, NewPages, OriginalLen
<1>4. SubSeq(new, Len(old) + 1, Len(new)) \in Seq(Page)
  <2>1. \A i \in Len(old) + 1 .. Len(new) : new[i] \in Page
    BY <1>2, ElementOfSeq
  <2> HIDE DEF old, new
  <2> QED
    BY <1>2, <2>1, SubSeqProperties
<1>5. old = SubSeq(new, 1, Len(old))
  <2> HIDE DEF old, new
  <2>1. \A i \in 1 .. Len(old) : new[i] \in Page
    BY <1>1, <1>2, ElementOfSeq
  <2>2. /\ SubSeq(new, 1, Len(old)) \in Seq(Page)
        /\ Len(SubSeq(new, 1, Len(old))) = IF 1 <= Len(old) THEN Len(old) - 1 + 1 ELSE 0
        /\ \A i \in 1 .. Len(old) - 1 + 1 : SubSeq(new, 1, Len(old))[i] = new[1 + i - 1]
    BY <1>2, <2>1, SubSeqProperties
  <2>3. Len(SubSeq(new, 1, Len(old))) = Len(old)
    BY <1>2, <2>2
  <2>4. \A i \in 1 .. Len(old) : SubSeq(new, 1, Len(old))[i] = old[i]
    BY <1>1, <1>2, <2>2
  <2> QED
    BY <1>2, <2>2, <2>3, <2>4, SeqEqual
<1>6. txn'[q] = t /\ \A s \in Owner \ {q} : txn'[s] = txn[s]
  BY <1>3 DEF KVInv, TxnType
<1>7. TxnType'
  <2>1. t \in [pages : Seq(Page), original_block_len : Nat, before : Seq(Page), open : BOOLEAN]
    BY <1>2, <1>4
  <2> HIDE DEF t
  <2> QED
    BY <1>3, <2>1 DEF KVInv, TxnType
<1>8. TxnHolds'
  <2> SUFFICES ASSUME NEW s \in Owner, txn'[s].open
               PROVE  LET len == txn'[s].original_block_len
                      IN /\ len \in 0 .. Len(block_table'[s])
                         /\ txn'[s].before = SubSeq(block_table'[s], 1, len)
                         /\ txn'[s].pages = SubSeq(block_table'[s], len + 1, Len(block_table'[s]))
    BY DEF TxnHolds
  <2>1. CASE s = q
    <3>1. /\ txn'[s].original_block_len = Len(old)
          /\ txn'[s].before = old
          /\ txn'[s].pages = SubSeq(new, Len(old) + 1, Len(new))
      <4>1. txn'[s] = t
        BY <1>6, <2>1
      <4> HIDE DEF old, new
      <4> QED
        BY <4>1
    <3>2. block_table'[s] = new
      BY <2>1
    <3> HIDE DEF old, new, t
    <3>3. Len(old) \in 0 .. Len(new)
      BY <1>1, <1>2
    <3> QED
      BY <1>5, <3>1, <3>2, <3>3
  <2>2. CASE s # q
    BY <1>1, <1>3, <1>6, <2>2, GrowthKeepsTxns DEF KVInv
  <2> QED
    BY <2>1, <2>2
<1> QED
  BY <1>1, <1>7, <1>8 DEF KVInv

LEMMA CommitStep ==
  ASSUME KVInv, NEW q \in Owner, Commit(q)
  PROVE  KVInv'
<1>1. /\ txn' = [txn EXCEPT ![q] = NoTxn]
      /\ UNCHANGED <<free_pages, used_pages, ref_count, freeing, block_table>>
  BY DEF Commit, poolVars
<1>2. NoTxn \in [pages : Seq(Page), original_block_len : Nat, before : Seq(Page), open : BOOLEAN]
  BY EmptySeq DEF NoTxn
<1>3. TxnType'
  BY <1>1, <1>2 DEF KVInv, TxnType
<1>4. txn'[q].open = FALSE /\ \A s \in Owner \ {q} : txn'[s] = txn[s]
  BY <1>1 DEF KVInv, TxnType, NoTxn
<1>5. TxnHolds'
  BY <1>1, <1>4 DEF KVInv, TxnHolds
<1>6. PoolInv' /\ Tables' /\ Owned'
  BY <1>1, PagesUntouched DEF KVInv
<1> QED
  BY <1>3, <1>5, <1>6 DEF KVInv

\* What a rollback gives back are the pages behind the old end of the table.
LEMMA RollbackStep ==
  ASSUME KVInv, NEW q \in Owner, Rollback(q)
  PROVE  KVInv' /\ block_table' = [block_table EXCEPT ![q] = txn[q].before]
<1> DEFINE table == block_table[q]
           len == txn[q].original_block_len
           pages == txn[q].pages
<1>1. /\ freeing = <<>> /\ txn[q].open
      /\ txn' = [txn EXCEPT ![q] = NoTxn]
  BY DEF Rollback, Idle
<1>2. /\ table \in Seq(Page) /\ Len(table) \in Nat
      /\ \A i \in 1 .. Len(table) : table[i] \in Page
      /\ len \in 0 .. Len(table)
      /\ txn[q].before = SubSeq(table, 1, len)
      /\ pages = SubSeq(table, len + 1, Len(table))
  BY <1>1, TableFacts DEF KVInv, Tables, TxnHolds
<1>3. TxnType' /\ txn'[q].open = FALSE /\ \A s \in Owner \ {q} : txn'[s] = txn[s]
  <2>1. NoTxn \in [pages : Seq(Page), original_block_len : Nat, before : Seq(Page), open : BOOLEAN]
    BY EmptySeq DEF NoTxn
  <2>2. NoTxn.open = FALSE
    BY DEF NoTxn
  <2> QED
    BY <1>1, <2>1, <2>2 DEF KVInv, TxnType
<1> HIDE DEF table, len, pages
<1>4. /\ pages \in Seq(Page)
      /\ Len(pages) = Len(table) - len
      /\ \A i \in 1 .. Len(table) - len : pages[i] = table[len + i]
  <2>1. /\ pages \in Seq(Page)
        /\ Len(pages) = IF len + 1 <= Len(table) THEN Len(table) - (len + 1) + 1 ELSE 0
        /\ \A i \in 1 .. Len(table) - (len + 1) + 1 : pages[i] = table[(len + 1) + i - 1]
    BY <1>2, SubSeqProperties
  <2> QED
    BY <1>2, <2>1
<1>5. /\ SubSeq(table, 1, len) \in Seq(Page)
      /\ Len(SubSeq(table, 1, len)) = len
      /\ \A i \in 1 .. len : SubSeq(table, 1, len)[i] = table[i]
  <2>1. /\ SubSeq(table, 1, len) \in Seq(Page)
        /\ Len(SubSeq(table, 1, len)) = IF 1 <= len THEN len - 1 + 1 ELSE 0
        /\ \A i \in 1 .. len - 1 + 1 : SubSeq(table, 1, len)[i] = table[1 + i - 1]
    BY <1>2, SubSeqProperties
  <2> QED
    BY <1>2, <2>1
<1>6. CASE pages = <<>>
  <2>1. UNCHANGED <<free_pages, used_pages, ref_count, freeing, block_table>>
    BY <1>6 DEF Rollback, poolVars, pages
  <2>2. len = Len(table)
    <3>1. Len(pages) = 0
      BY <1>6
    <3> QED
      BY <1>2, <1>4, <3>1
  <2>3. txn[q].before = block_table[q]
    BY <1>2, <2>2, SubSeqFull DEF table
  <2>4. PoolInv' /\ Tables' /\ Owned'
    BY <2>1, PagesUntouched DEF KVInv
  <2>6. TxnHolds'
    BY <1>3, <2>1 DEF KVInv, TxnHolds
  <2>7. block_table' = [block_table EXCEPT ![q] = txn[q].before]
    BY <2>1, <2>3 DEF KVInv, Tables
  <2> QED
    BY <1>3, <2>4, <2>6, <2>7 DEF KVInv
<1>7. CASE pages # <<>>
  <2>1. /\ block_table' = [block_table EXCEPT ![q] = SubSeq(table, 1, len)]
        /\ freeing' = pages
        /\ UNCHANGED <<free_pages, used_pages, ref_count>>
    BY <1>7 DEF Rollback, Pool!FreeCall, pages, table, len
  <2>2. /\ block_table'[q] = SubSeq(table, 1, len)
        /\ \A s \in Owner \ {q} : block_table'[s] = block_table[s]
    BY <2>1 DEF KVInv, Tables
  <2>3. PoolInv'
    BY <2>1 DEF KVInv, PoolInv, Pool!PoolConsistent, Pool!NoDuplicateFree, Pool!Elements
  <2>4. Tables'
    BY <1>4, <1>5, <2>1 DEF KVInv, Tables
  <2>5. TxnHolds'
    BY <1>3, <2>2 DEF KVInv, TxnHolds
  <2>6. \A s \in Owner : \A i \in 1 .. Len(block_table'[s]) :
          /\ i \in 1 .. Len(block_table[s])
          /\ block_table'[s][i] = block_table[s][i]
          /\ s = q => i <= len
    BY <1>2, <1>5, <2>2 DEF table
  <2>7. \A j \in 1 .. Len(freeing') :
          /\ len + j \in 1 .. Len(block_table[q])
          /\ freeing'[j] = block_table[q][len + j]
    BY <1>2, <1>4, <2>1 DEF table
  <2>8. \A s, t \in Owner : \A i \in 1 .. Len(block_table[s]), j \in 1 .. Len(block_table[t]) :
          block_table[s][i] = block_table[t][j] => s = t /\ i = j
    BY DEF KVInv, Owned
  <2>9. \A s, t \in Owner : \A i \in 1 .. Len(block_table'[s]), j \in 1 .. Len(block_table'[t]) :
          block_table'[s][i] = block_table'[t][j] => s = t /\ i = j
    BY <2>6, <2>8
  <2>10. ASSUME NEW i \in 1 .. Len(freeing'), NEW j \in 1 .. Len(freeing'), freeing'[i] = freeing'[j]
         PROVE  i = j
    <3>1. len + i = len + j
      BY <2>7, <2>8, <2>10
    <3> QED
      BY <1>2, <3>1
  <2>11. ASSUME NEW s \in Owner, NEW i \in 1 .. Len(block_table'[s]), NEW j \in 1 .. Len(freeing')
         PROVE  block_table'[s][i] # freeing'[j]
    <3>1. SUFFICES ASSUME block_table'[s][i] = freeing'[j] PROVE FALSE
      OBVIOUS
    <3>2. s = q /\ i = len + j
      BY <2>6, <2>7, <2>8, <3>1, SMTT(30)
    <3>3. i <= len
      BY <2>6, <3>2
    <3> QED
      BY <1>2, <3>2, <3>3
  <2>12. ASSUME NEW p \in Page
         PROVE  p \in used_pages' <=> \/ \E s \in Owner : \E i \in 1 .. Len(block_table'[s]) :
                                           p = block_table'[s][i]
                                      \/ \E j \in 1 .. Len(freeing') : p = freeing'[j]
    <3>1. p \in used_pages' <=> \E s \in Owner : \E i \in 1 .. Len(block_table[s]) : p = block_table[s][i]
      BY <1>1, <2>1 DEF KVInv, Owned
    <3>2. ASSUME NEW s \in Owner, NEW i \in 1 .. Len(block_table[s]), p = block_table[s][i]
          PROVE  \/ \E t \in Owner : \E k \in 1 .. Len(block_table'[t]) : p = block_table'[t][k]
                 \/ \E j \in 1 .. Len(freeing') : p = freeing'[j]
      <4>1. CASE s # q
        <5>1. i \in 1 .. Len(block_table'[s]) /\ p = block_table'[s][i]
          BY <2>2, <3>2, <4>1
        <5> QED
          BY <5>1
      <4>2. CASE s = q /\ i <= len
        <5>1. i \in 1 .. Len(block_table'[s]) /\ p = block_table'[s][i]
          BY <1>2, <1>5, <2>2, <3>2, <4>2 DEF table
        <5> QED
          BY <5>1
      <4>3. CASE s = q /\ i > len
        <5>1. i - len \in 1 .. Len(freeing') /\ p = freeing'[i - len]
          BY <1>2, <1>4, <2>1, <3>2, <4>3 DEF table
        <5> QED
          BY <5>1
      <4>4. i <= len \/ i > len
        BY <1>2
      <4> QED
        BY <4>1, <4>2, <4>3, <4>4, Zenon
    <3>3. ASSUME NEW s \in Owner, NEW i \in 1 .. Len(block_table'[s]), p = block_table'[s][i]
          PROVE  p \in used_pages'
      BY <2>6, <3>1, <3>3
    <3>4. ASSUME NEW j \in 1 .. Len(freeing'), p = freeing'[j]
          PROVE  p \in used_pages'
      BY <2>7, <3>1, <3>4
    <3> QED
      BY <3>1, <3>2, <3>3, <3>4
  <2>13. \A p \in used_pages' : ref_count'[p] = 1
    BY <2>1 DEF KVInv, Owned
  <2>14. Owned'
    BY <2>9, <2>10, <2>11, <2>12, <2>13 DEF Owned
  <2>15. block_table' = [block_table EXCEPT ![q] = txn[q].before]
    BY <1>2, <2>1
  <2> QED
    BY <1>3, <2>3, <2>4, <2>5, <2>14, <2>15 DEF KVInv
<1> QED
  BY <1>6, <1>7

\* free() releases the next page: it was in no table, and now nobody has it.
LEMMA FreeKeeps ==
  ASSUME KVInv, KVAssumption, FreeStep
  PROVE  KVInv'
<1> DEFINE p == Head(freeing)
<1>1. /\ freeing # <<>> /\ Pool!Allocated(p) /\ Pool!Drop(p) /\ freeing' = Tail(freeing)
      /\ block_table' = block_table /\ txn' = txn
  BY DEF FreeStep, Pool!FreeNext
<1>2. /\ freeing \in Seq(Page) /\ Len(freeing) \in Nat
      /\ p = freeing[1] /\ 1 \in 1 .. Len(freeing) /\ p \in Page
      /\ Tail(freeing) \in Seq(Page)
      /\ Len(Tail(freeing)) = Len(freeing) - 1
      /\ \A j \in 1 .. Len(freeing) - 1 : Tail(freeing)[j] = freeing[j + 1]
  BY <1>1, HeadTailProperties, LenProperties, EmptySeq DEF KVInv, Tables
<1>3. ref_count[p] = 1
  <2>1. p \in used_pages
    BY <1>1 DEF Pool!Allocated
  <2> QED
    BY <2>1 DEF KVInv, Owned
<1> HIDE DEF p
<1>4. /\ ref_count' = [ref_count EXCEPT ![p] = @ - 1]
      /\ used_pages' = used_pages \ {p}
      /\ free_pages' = Append(free_pages, p)
  BY <1>1, <1>3 DEF Pool!Drop
<1>5. Pool!PoolConsistent'
  <2>1. PoolFacts!PoolConsistent /\ PoolFacts!Allocated(p) /\ PoolFacts!Drop(p)
    BY <1>1
    DEF KVInv, PoolInv, Pool!PoolConsistent, Pool!NoDuplicateFree, Pool!Elements, Pool!Page,
        Pool!Allocated, Pool!Drop, PoolFacts!PoolConsistent, PoolFacts!NoDuplicateFree,
        PoolFacts!Elements, PoolFacts!Page, PoolFacts!Allocated, PoolFacts!Drop
  <2>2. PoolFacts!TypeOK
    <3>1. freeing \in Seq(Int)
      <4>1. Page \subseteq Int
        BY DEF Page, Pool!Page, KVAssumption
      <4> QED
        BY <1>2, <4>1, <1>1, SeqMonotonic DEF KVInv, Tables
    <3> QED
      BY <3>1 DEF KVInv, PoolInv, Page, Pool!Page, PoolFacts!TypeOK, PoolFacts!Page
  <2>3. PoolFacts!PoolConsistent'
    BY <2>1, <2>2, PoolFacts!DropConsistent, Zenon DEF KVAssumption, PoolFacts!NumPagesAssumption
  <2> QED
    BY <2>3
    DEF Pool!PoolConsistent, Pool!NoDuplicateFree, Pool!Elements, Pool!Page,
        PoolFacts!PoolConsistent, PoolFacts!NoDuplicateFree, PoolFacts!Elements, PoolFacts!Page
<1>6. PoolInv'
  <2>1. free_pages' \in Seq(Page)
    BY <1>2, <1>4, AppendProperties DEF KVInv, PoolInv
  <2>2. used_pages' \subseteq Page
    BY <1>4 DEF KVInv, PoolInv
  <2>3. ref_count' \in [Page -> Nat]
    BY <1>2, <1>3, <1>4 DEF KVInv, PoolInv
  <2> QED
    BY <1>5, <2>1, <2>2, <2>3 DEF PoolInv, Page, Pool!Page
<1>7. Tables' /\ TxnType' /\ TxnHolds'
  BY <1>1, <1>2 DEF KVInv, Tables, TxnType, TxnHolds
<1>8. Owned'
  <2>1. \A j \in 1 .. Len(freeing') : /\ j + 1 \in 1 .. Len(freeing)
                                      /\ freeing'[j] = freeing[j + 1]
                                      /\ j + 1 # 1
    BY <1>1, <1>2
  <2>2. /\ \A i, j \in 1 .. Len(freeing) : freeing[i] = freeing[j] => i = j
        /\ \A s \in Owner : \A i \in 1 .. Len(block_table[s]), j \in 1 .. Len(freeing) :
             block_table[s][i] # freeing[j]
    BY DEF KVInv, Owned
  <2>3. ASSUME NEW i \in 1 .. Len(freeing'), NEW j \in 1 .. Len(freeing'), freeing'[i] = freeing'[j]
        PROVE  i = j
    <3>1. i + 1 = j + 1
      BY <2>1, <2>2, <2>3
    <3> QED
      BY <3>1
  <2>4. \A s \in Owner : \A i \in 1 .. Len(block_table'[s]), j \in 1 .. Len(freeing') :
          block_table'[s][i] # freeing'[j]
    BY <1>1, <2>1, <2>2
  <2>5. ASSUME NEW x \in Page
        PROVE  x \in used_pages' <=>
                 (\E s \in Owner : \E i \in 1 .. Len(block_table'[s]) : x = block_table'[s][i])
                 \/ (\E j \in 1 .. Len(freeing') : x = freeing'[j])
    <3>1. x \in used_pages <=>
            (\E s \in Owner : \E i \in 1 .. Len(block_table[s]) : x = block_table[s][i])
            \/ (\E j \in 1 .. Len(freeing) : x = freeing[j])
      BY DEF KVInv, Owned
    <3>2. \A s \in Owner : \A i \in 1 .. Len(block_table[s]) : block_table[s][i] # p
      BY <1>2, <2>2
    <3>3. (\E j \in 1 .. Len(freeing') : x = freeing'[j]) <=> x # p /\ \E j \in 1 .. Len(freeing) : x = freeing[j]
      <4>1. ASSUME NEW j \in 1 .. Len(freeing'), x = freeing'[j]
            PROVE  x # p /\ \E k \in 1 .. Len(freeing) : x = freeing[k]
        BY <1>2, <2>1, <2>2, <4>1
      <4>2. ASSUME x # p, NEW j \in 1 .. Len(freeing), x = freeing[j]
            PROVE  \E k \in 1 .. Len(freeing') : x = freeing'[k]
        <5>1. j - 1 \in 1 .. Len(freeing') /\ freeing'[j - 1] = x
          BY <1>1, <1>2, <4>2
        <5> QED
          BY <5>1
      <4> QED
        BY <4>1, <4>2
    <3> QED
      BY <1>1, <1>4, <3>1, <3>2, <3>3
  <2>6. \A x \in used_pages' : ref_count'[x] = 1
    BY <1>4 DEF KVInv, Owned, PoolInv
  <2>7. \A s, t \in Owner : \A i \in 1 .. Len(block_table'[s]), j \in 1 .. Len(block_table'[t]) :
          block_table'[s][i] = block_table'[t][j] => s = t /\ i = j
    BY <1>1 DEF KVInv, Owned
  <2> QED
    BY <2>3, <2>4, <2>5, <2>6, <2>7 DEF Owned
<1> QED
  BY <1>6, <1>7, <1>8 DEF KVInv

LEMMA InitInv == KVInit /\ KVAssumption => KVInv
<1> SUFFICES ASSUME KVInit, KVAssumption PROVE KVInv
  OBVIOUS
<1>1. PoolFacts!Init
  BY DEF KVInit, Pool!Init, Pool!Page, PoolFacts!Init, PoolFacts!Page
<1>2. PoolFacts!PoolConsistent /\ PoolFacts!TypeOK
  BY <1>1, PoolFacts!InitConsistent, PoolFacts!InitTypeOK, Zenon
  DEF KVAssumption, PoolFacts!NumPagesAssumption
<1>3. PoolInv
  BY <1>2
  DEF PoolInv, Page, Pool!PoolConsistent, Pool!NoDuplicateFree, Pool!Elements, Pool!Page,
      PoolFacts!PoolConsistent, PoolFacts!NoDuplicateFree, PoolFacts!Elements, PoolFacts!Page,
      PoolFacts!TypeOK
<1>4. /\ freeing = <<>> /\ used_pages = {}
      /\ block_table = [s \in Owner |-> <<>>]
      /\ txn = [s \in Owner |-> NoTxn]
  BY DEF KVInit, Pool!Init
<1>5. <<>> \in Seq(Page) /\ Len(<<>>) = 0
  BY EmptySeq
<1>6. Tables
  BY <1>4, <1>5 DEF Tables
<1>7. TxnType /\ TxnHolds
  BY <1>4, <1>5 DEF TxnType, TxnHolds, NoTxn
<1>8. Owned
  BY <1>4, <1>5 DEF Owned
<1> QED
  BY <1>3, <1>6, <1>7, <1>8 DEF KVInv

LEMMA StepInv == KVInv /\ KVAssumption /\ [KVNext]_kvVars => KVInv'
<1> SUFFICES ASSUME KVInv, KVAssumption, [KVNext]_kvVars PROVE KVInv'
  OBVIOUS
<1>1. ASSUME UNCHANGED kvVars PROVE KVInv'
  <2>1. PoolInv' /\ Tables' /\ Owned'
    BY <1>1, PagesUntouched DEF KVInv, kvVars, poolVars
  <2>2. TxnType' /\ TxnHolds'
    BY <1>1 DEF KVInv, TxnType, TxnHolds, kvVars, poolVars
  <2> QED
    BY <2>1, <2>2 DEF KVInv
<1> QED
  BY <1>1, GrowStep, BeginStep, CommitStep, RollbackStep, FreeKeeps DEF KVNext

\* For every pool and page size: as long as its callers keep to the protocol of
\* KVNext, the cache neither leaks a page nor puts one into two block tables.
THEOREM OwnedOnce == ASSUME KVAssumption PROVE KVSpec => []PagesOwnedOnce
<1>1. KVInit => KVInv
  BY InitInv
<1>2. KVInv /\ [KVNext]_kvVars => KVInv'
  BY StepInv
<1> QED
  BY <1>1, <1>2, InvImpliesOwnedOnce, PTL DEF KVSpec

\* Rolling back restores the block table of the sequence and touches no other,
\* whatever other sequences did while the transaction was open.
THEOREM ExactRollback == ASSUME KVAssumption PROVE KVSpec => RollbackIsExact
<1>1. KVInit => KVInv
  BY InitInv
<1>2. KVInv /\ [KVNext]_kvVars => KVInv'
  BY StepInv
<1>3. KVInv => \A s \in Owner : Rollback(s) =>
                 block_table' = [block_table EXCEPT ![s] = txn[s].before]
  BY RollbackStep
<1> QED
  BY <1>1, <1>2, <1>3, PTL DEF KVSpec, RollbackIsExact
=============================================================================
