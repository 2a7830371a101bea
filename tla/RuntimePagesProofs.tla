-------------------------- MODULE RuntimePagesProofs --------------------------
(***************************************************************************)
(* Pages in the runtime, for every pool and page size: it hands them out   *)
(* exclusively, and no more than a request needs, so that requests fail    *)
(* only when they need more than the pool has; and what a sequence takes   *)
(* from the prefix cache stays there and fits it.  The facts about the     *)
(* allocator itself are those of PageAllocatorProofs, those about the number*)
(* of pages for some tokens those of PagedKVCacheProofs.                   *)
(***************************************************************************)
EXTENDS RuntimeProofs, FiniteSetTheorems

PoolFacts == INSTANCE PageAllocatorProofs WITH freeing <- <<>>

KVFacts == INSTANCE PagedKVCacheProofs WITH Owner <- Req, freeing <- <<>>, txn <- <<>>

LEMMA PoolAlloc ==
  ASSUME KVTypeOK, KV!Pool!PoolConsistent, NEW n \in Nat, KV!Pool!Alloc(n)
  PROVE  KV!Pool!PoolConsistent'
<1>1. PoolFacts!TypeOK
  BY DEF KVTypeOK, KV!Pool!TypeOK, KV!Pool!Page, PoolFacts!TypeOK, PoolFacts!Page
<1>2. PoolFacts!PoolConsistent
  BY DEF KV!Pool!PoolConsistent, KV!Pool!NoDuplicateFree, KV!Pool!Elements, KV!Pool!Page,
         PoolFacts!PoolConsistent, PoolFacts!NoDuplicateFree, PoolFacts!Elements, PoolFacts!Page
<1>3. PoolFacts!Alloc(n)
  BY DEF KV!Pool!Alloc, KV!Pool!Elements, KV!Pool!Granted, KV!Pool!Page,
         PoolFacts!Alloc, PoolFacts!Elements, PoolFacts!Granted, PoolFacts!Page
<1>4. PoolFacts!PoolConsistent'
  BY <1>1, <1>2, <1>3, PoolFacts!AllocConsistent, RuntimeAssumption, Zenon
     DEF PoolFacts!NumPagesAssumption
<1> QED
  BY <1>4
  DEF KV!Pool!PoolConsistent, KV!Pool!NoDuplicateFree, KV!Pool!Elements, KV!Pool!Page,
         PoolFacts!PoolConsistent, PoolFacts!NoDuplicateFree, PoolFacts!Elements, PoolFacts!Page

\* The pages that alloc(n) grants are distinct and belong to nobody.
LEMMA GrantedAreFree ==
  ASSUME KVTypeOK, KV!Pool!PoolConsistent, NEW n \in Nat, KV!Pool!Alloc(n)
  PROVE  LET granted == KV!Pool!Granted(n)
         IN  /\ granted \in Seq(KV!Pool!Page)
             /\ Len(granted) = n
             /\ \A i \in 1 .. n : granted[i] \notin used_pages
             /\ \A i, j \in 1 .. n : granted[i] = granted[j] => i = j
<1> DEFINE granted == KV!Pool!Granted(n)
<1>1. /\ n <= Len(free_pages) /\ Len(free_pages) \in Nat
      /\ \A i \in 1 .. Len(free_pages) : free_pages[i] \in KV!Pool!Page
  BY LenProperties, ElementOfSeq DEF KVTypeOK, KV!Pool!TypeOK, KV!Pool!Alloc
<1>2. /\ granted \in Seq(KV!Pool!Page)
      /\ Len(granted) = n
      /\ \A i \in 1 .. n : granted[i] = free_pages[i]
  <2>1. \A i \in 1 .. n : free_pages[i] \in KV!Pool!Page
    BY <1>1
  <2> QED
    BY <1>1, <2>1, SubSeqProperties, Z3 DEF KV!Pool!Granted
<1> HIDE DEF granted
<1>3. ASSUME NEW i \in 1 .. n PROVE granted[i] \notin used_pages
  <2>1. i \in 1 .. Len(free_pages) /\ free_pages[i] \in KV!Pool!Page
    BY <1>1
  <2>2. ref_count[free_pages[i]] = 0
    BY <2>1 DEF KV!Pool!PoolConsistent, KV!Pool!Elements
  <2> QED
    BY <1>2, <2>1, <2>2 DEF KV!Pool!PoolConsistent
<1>4. ASSUME NEW i \in 1 .. n, NEW j \in 1 .. n, granted[i] = granted[j] PROVE i = j
  BY <1>1, <1>2, <1>4 DEF KV!Pool!PoolConsistent, KV!Pool!NoDuplicateFree
<1> QED
  BY <1>2, <1>3, <1>4 DEF granted

\* The elements of a concatenation, as a single fact.
LEMMA ConcatElements ==
  \A S : \A s, t \in Seq(S) :
    /\ Len(s \o t) = Len(s) + Len(t)
    /\ \A i \in 1 .. Len(s) + Len(t) :
         (s \o t)[i] = IF i <= Len(s) THEN s[i] ELSE t[i - Len(s)]
BY ConcatProperties

\* A block table that grows takes only such pages, at its end.
LEMMA EnsureCapacityExclusive ==
  ASSUME KVTypeOK, KV!Pool!PoolConsistent, PagesExclusive,
         NEW q \in Req, NEW n \in Nat, KV!EnsureCapacity(q, n)
  PROVE  KV!Pool!PoolConsistent' /\ PagesExclusive'
<1> DEFINE m == KV!Missing(q, n)
           granted == KV!Pool!Granted(m)
<1>1. m \in Int
  BY LenProperties, RuntimeAssumption DEF KVTypeOK, KV!Missing, KV!PagesRequired
<1>2. CASE m <= 0
  BY <1>2 DEF KV!EnsureCapacity, KV!poolVars, PagesExclusive, Elements, KV!Pool!PoolConsistent,
              KV!Pool!NoDuplicateFree, KV!Pool!Elements
<1>3. CASE m > 0
  <2>1. /\ m \in Nat /\ KV!Pool!Alloc(m)
        /\ block_table' = [block_table EXCEPT ![q] = block_table[q] \o granted]
        /\ used_pages' = used_pages \cup KV!Pool!Elements(granted)
    BY <1>1, <1>3 DEF KV!EnsureCapacity, KV!Pool!Alloc
  <2>2. /\ granted \in Seq(KV!Pool!Page)
        /\ Len(granted) = m
        /\ \A i \in 1 .. m : granted[i] \notin used_pages
        /\ \A i, j \in 1 .. m : granted[i] = granted[j] => i = j
    BY <2>1, GrantedAreFree
  <2>3. KV!Pool!PoolConsistent'
    BY <2>1, PoolAlloc
  <2> HIDE DEF m, granted
  <2>4. /\ \A r \in Req \ {q} : block_table'[r] = block_table[r]
        /\ block_table'[q] = block_table[q] \o granted
        /\ \A r \in Req : block_table[r] \in Seq(KV!Pool!Page) /\ Len(block_table[r]) \in Nat
    BY <2>1, LenProperties DEF KVTypeOK
  <2>5. /\ Len(block_table'[q]) = Len(block_table[q]) + m
        /\ \A i \in 1 .. Len(block_table'[q]) :
             block_table'[q][i] = IF i <= Len(block_table[q])
                                    THEN block_table[q][i]
                                    ELSE granted[i - Len(block_table[q])]
    <3>1. block_table[q] \in Seq(KV!Pool!Page) /\ granted \in Seq(KV!Pool!Page)
      BY <2>2, <2>4
    <3>2. /\ Len(block_table[q] \o granted) = Len(block_table[q]) + Len(granted)
          /\ \A i \in 1 .. Len(block_table[q]) + Len(granted) :
               (block_table[q] \o granted)[i] = IF i <= Len(block_table[q])
                                                 THEN block_table[q][i]
                                                 ELSE granted[i - Len(block_table[q])]
      BY <3>1, ConcatElements, Zenon
    <3>3. block_table'[q] = block_table[q] \o granted /\ Len(granted) = m
      BY <2>2, <2>4
    <3> QED
      BY <3>2, <3>3, Zenon
  <2> DEFINE Old(r, i) == /\ i \in 1 .. Len(block_table[r])
                          /\ block_table'[r][i] = block_table[r][i]
                          /\ block_table'[r][i] \in used_pages
             New(r, i) == /\ r = q /\ i - Len(block_table[q]) \in 1 .. m
                          /\ block_table'[r][i] = granted[i - Len(block_table[q])]
                          /\ block_table'[r][i] \notin used_pages
  <2>6. ASSUME NEW r \in Req, NEW i \in 1 .. Len(block_table'[r])
        PROVE  Old(r, i) \/ New(r, i)
    <3>1. ASSUME i \in 1 .. Len(block_table[r]) PROVE block_table[r][i] \in used_pages
      BY <3>1 DEF PagesExclusive, Elements
    <3>2. CASE r # q
      BY <2>4, <3>1, <3>2
    <3>3. CASE r = q /\ i <= Len(block_table[q])
      BY <2>4, <2>5, <3>1, <3>3
    <3>4. CASE r = q /\ i > Len(block_table[q])
      <4>1. i - Len(block_table[q]) \in 1 .. m
        BY <2>1, <2>4, <2>5, <3>4
      <4> QED
        BY <2>2, <2>4, <2>5, <3>4, <4>1
    <3> QED
      BY <2>4, <3>2, <3>3, <3>4
  <2>7. ASSUME NEW r \in Req, NEW t \in Req,
               NEW i \in 1 .. Len(block_table'[r]), NEW j \in 1 .. Len(block_table'[t]),
               block_table'[r][i] = block_table'[t][j]
        PROVE  r = t /\ i = j
    <3>1. CASE Old(r, i) /\ Old(t, j)
      <4>1. /\ i \in 1 .. Len(block_table[r]) /\ j \in 1 .. Len(block_table[t])
            /\ block_table[r][i] = block_table[t][j]
        BY <2>7, <3>1
      <4> QED
        BY <4>1 DEF PagesExclusive
    <3>2. CASE New(r, i) /\ New(t, j)
      <4>1. granted[i - Len(block_table[q])] = granted[j - Len(block_table[q])]
        BY <2>7, <3>2
      <4>2. i - Len(block_table[q]) = j - Len(block_table[q])
        BY <2>2, <3>2, <4>1
      <4>3. Len(block_table[q]) \in Int /\ i \in Int /\ j \in Int
        BY <2>4
      <4> QED
        BY <3>2, <4>2, <4>3
    <3>3. CASE (Old(r, i) /\ New(t, j)) \/ (New(r, i) /\ Old(t, j))
      BY <2>7, <3>3
    <3> HIDE DEF Old, New
    <3> QED
      BY <2>6, <3>1, <3>2, <3>3
  <2>8. used_pages' = UNION {Elements(block_table'[r]) : r \in Req}
    <3>1. ASSUME NEW p, p \in used_pages
          PROVE  \E r \in Req : p \in Elements(block_table'[r])
      <4>1. PICK r \in Req : \E i \in 1 .. Len(block_table[r]) : p = block_table[r][i]
        BY <3>1 DEF PagesExclusive, Elements
      <4> PICK i \in 1 .. Len(block_table[r]) : p = block_table[r][i]
        BY <4>1
      <4>2. i \in 1 .. Len(block_table'[r]) /\ block_table'[r][i] = p
        BY <2>1, <2>4, <2>5
      <4> QED
        BY <4>2 DEF Elements
    <3>2. ASSUME NEW k \in 1 .. m
          PROVE  granted[k] \in Elements(block_table'[q])
      <4>1. /\ Len(block_table[q]) + k \in 1 .. Len(block_table'[q])
            /\ block_table'[q][Len(block_table[q]) + k] = granted[k]
        BY <2>1, <2>4, <2>5
      <4> QED
        BY <4>1 DEF Elements
    <3>3. ASSUME NEW r \in Req, NEW i \in 1 .. Len(block_table'[r])
          PROVE  block_table'[r][i] \in used_pages'
      BY <2>1, <2>2, <2>6, <3>3 DEF KV!Pool!Elements
    <3>4. \A p : p \in used_pages' <=> p \in used_pages \/ \E k \in 1 .. m : p = granted[k]
      BY <2>1, <2>2 DEF KV!Pool!Elements
    <3>5. \A p : p \in used_pages' <=> \E r \in Req : p \in Elements(block_table'[r])
      BY <3>1, <3>2, <3>3, <3>4 DEF Elements
    <3> QED
      BY <3>5
  <2>9. PagesExclusive'
    BY <2>7, <2>8 DEF PagesExclusive, Elements
  <2> QED
    BY <2>3, <2>9
<1> QED
  BY <1>1, <1>2, <1>3

LEMMA PagesUntouched ==
  ASSUME KV!Pool!PoolConsistent, PagesExclusive, UNCHANGED kvVars
  PROVE  KV!Pool!PoolConsistent' /\ PagesExclusive'
BY DEF kvVars, PagesExclusive, Elements, KV!Pool!PoolConsistent, KV!Pool!NoDuplicateFree,
       KV!Pool!Elements

LEMMA PagesStep ==
  ASSUME TypeInv, KV!Pool!PoolConsistent, PagesExclusive, ~ SupportsPrefixCache, [Next]_vars
  PROVE  KV!Pool!PoolConsistent' /\ PagesExclusive'
<1>1. ASSUME NEW q \in Req, NEW n \in Nat, Reserve(q, n)
      PROVE  KV!Pool!PoolConsistent' /\ PagesExclusive'
  BY <1>1, EnsureCapacityExclusive, PagesUntouched DEF Reserve, TypeInv, TypeOK
<1>2. ASSUME NEW r \in Req, Turn(r) PROVE KV!Pool!PoolConsistent' /\ PagesExclusive'
  <2>1. \A q \in Req : BatchTokens(q) \in Nat /\ Reach(q) \subseteq Nat
    BY BatchTokensType DEF TypeInv, TypeOK
  <2> QED
    BY <1>1, <1>2, <2>1, PagesUntouched DEF Turn, Prefill, Decode, Fail
<1>3. ASSUME NEW r \in Req, AddRequest(r) PROVE UNCHANGED kvVars
  BY <1>3 DEF AddRequest, StartFrom, kvVars
<1>4. ASSUME NEW r \in Req, Cancel(r) \/ Finish(r) \/ Yield(r) \/ Disconnect(r)
      PROVE  UNCHANGED kvVars
  BY <1>4 DEF Cancel, Finish, FinishSequence, Yield, Disconnect
<1>5. ASSUME UNCHANGED vars PROVE UNCHANGED kvVars
  BY <1>5 DEF vars
<1> QED
  BY <1>2, <1>3, <1>4, <1>5, PagesUntouched DEF Next, LoopStep, CancelById, CancelBySession

LEMMA PagesInit == Init => KV!Pool!PoolConsistent /\ PagesExclusive
<1> SUFFICES ASSUME Init PROVE KV!Pool!PoolConsistent /\ PagesExclusive
  OBVIOUS
<1>1. PoolFacts!Init
  BY DEF Init, KV!Pool!Init, KV!Pool!Page, PoolFacts!Init, PoolFacts!Page
<1>2. PoolFacts!PoolConsistent
  BY <1>1, PoolFacts!InitConsistent, RuntimeAssumption, Zenon DEF PoolFacts!NumPagesAssumption
<1>3. KV!Pool!PoolConsistent
  BY <1>2
  DEF KV!Pool!PoolConsistent, KV!Pool!NoDuplicateFree, KV!Pool!Elements, KV!Pool!Page,
      PoolFacts!PoolConsistent, PoolFacts!NoDuplicateFree, PoolFacts!Elements, PoolFacts!Page
<1>4. PagesExclusive
  BY DEF Init, KV!Pool!Init, PagesExclusive, Elements
<1> QED
  BY <1>3, <1>4

\* Without prefix sharing no page is ever in two block tables, or twice in
\* one, and the pool counts as used exactly the pages in the tables, whatever
\* is cancelled, abandoned or fails for lack of pages.
THEOREM ExclusivePages ==
  ASSUME ~ SupportsPrefixCache PROVE Spec => []PagesExclusive
<1> DEFINE Inv == TypeInv /\ KV!Pool!PoolConsistent /\ PagesExclusive
<1>1. Init => Inv
  BY InitTypeInv, PagesInit
<1>2. Inv /\ [Next]_vars => Inv'
  BY NextTypeInv, PagesStep
<1>3. Inv => PagesExclusive
  OBVIOUS
<1> HIDE DEF Inv
<1> QED
  BY <1>1, <1>2, <1>3, PTL DEF Spec

-----------------------------------------------------------------------------
(* Block tables and what they must hold *)

LEMMA PagesFacts ==
  \A a, b \in Nat : /\ KV!PagesRequired(a) \in Nat
                    /\ a <= b => KV!PagesRequired(a) <= KV!PagesRequired(b)
<1>1. KVFacts!PageSizeAssumption
  BY RuntimeAssumption DEF KVFacts!PageSizeAssumption
<1>2. \A n : KVFacts!PagesRequired(n) = KV!PagesRequired(n)
  BY DEF KVFacts!PagesRequired, KV!PagesRequired
<1>3. \A n \in Nat : KVFacts!PagesRequired(n) \in Nat
  BY <1>1, KVFacts!PagesType
<1>4. ASSUME NEW a \in Nat, NEW b \in Nat, a <= b
      PROVE  KVFacts!PagesRequired(a) <= KVFacts!PagesRequired(b)
  BY <1>1, <1>4, KVFacts!PagesMonotonic
<1> QED
  BY <1>2, <1>3, <1>4

\* A sequence that can still decode has a token left to generate, one that has
\* decoded has its prompt prefilled; a request that has not been sent has no pages.
TablesInv ==
  /\ NothingCached
  /\ \A r \in Req : generated[r] > 0 => PrefillComplete(r)
  /\ \A r \in Req : ~ Added(r) => block_table[r] = <<>>
  /\ \A r \in Live : generated[r] < MaxNewTokens[r]
  /\ TablesFit

LEMMA PlacedType ==
  ASSUME SchedulerTypeOK, NEW r \in Req
  PROVE  Placed(r) \in Nat
<1>1. PrefilledTokens(r) \in Nat /\ generated[r] \in Nat
  BY SchedulerNumbers DEF SchedulerTypeOK
<1> QED
  BY <1>1 DEF Placed

\* What a decode batch does to the scheduler.
LEMMA DecodeSteps ==
  ASSUME TypeInv, NEW r \in Req, NEW q \in Live, Decode(r, q)
  PROVE  \E n \in 1 .. MaxBurst, stopped \in BOOLEAN : DecodeTokens(q, n, stopped)
<1>1. PICK n \in 1 .. MaxBurst :
        \E stopped \in BOOLEAN : \E v \in Voiced(n) : Keeps(r, q, n, stopped, v)
  BY DecodeKeeps DEF TypeInv, TypeOK
<1>2. PICK stopped \in BOOLEAN : \E v \in Voiced(n) : Keeps(r, q, n, stopped, v)
  BY <1>1
<1> QED
  BY <1>2 DEF Keeps

\* ensure_capacity makes a table as long as it must be, and no longer.
LEMMA GrownTable ==
  ASSUME KVTypeOK, KV!Pool!PoolConsistent, NEW q \in Req, NEW n \in Nat, KV!EnsureCapacity(q, n)
  PROVE  /\ Len(block_table[q]) \in Nat /\ Len(block_table'[q]) \in Nat
         /\ Len(block_table'[q]) >= Len(block_table[q])
         /\ Len(block_table'[q]) >= KV!PagesRequired(n)
         /\ \/ Len(block_table'[q]) = Len(block_table[q])
            \/ Len(block_table'[q]) = KV!PagesRequired(n)
         /\ \A r \in Req \ {q} : block_table'[r] = block_table[r]
<1> DEFINE m == KV!Missing(q, n)
           granted == KV!Pool!Granted(m)
<1>1. /\ block_table \in [Req -> Seq(KV!Pool!Page)] /\ Len(block_table[q]) \in Nat
      /\ KV!PagesRequired(n) \in Nat /\ m = KV!PagesRequired(n) - Len(block_table[q])
  BY PagesFacts, LenProperties DEF KVTypeOK, KV!Missing
<1>2. CASE m <= 0
  BY <1>1, <1>2 DEF KV!EnsureCapacity
<1>3. CASE m > 0
  <2>1. m \in Nat /\ KV!Pool!Alloc(m) /\ block_table' = [block_table EXCEPT ![q] = @ \o granted]
    BY <1>1, <1>3 DEF KV!EnsureCapacity
  <2>2. granted \in Seq(KV!Pool!Page) /\ Len(granted) = m
    BY <2>1, GrantedAreFree
  <2> HIDE DEF m, granted
  <2>3. Len(block_table[q] \o granted) = Len(block_table[q]) + m
    <3>1. block_table[q] \in Seq(KV!Pool!Page)
      BY <1>1
    <3> QED
      BY <2>2, <3>1, ConcatElements, Zenon
  <2> QED
    BY <1>1, <1>3, <2>1, <2>3
<1> QED
  BY <1>1, <1>2, <1>3

\* No batch makes room beyond the end of the longest reply allowed.
LEMMA CountsFit ==
  ASSUME TypeInv, TablesInv, NEW q \in Live
  PROVE  \A n \in Reach(q) : n \in Nat /\ n <= PromptTokens(q) + MaxNewTokens[q]
<1>1. /\ q \in Req /\ PromptTokens(q) \in Nat /\ PrefilledTokens(q) \in Nat /\ Chunk(q) \in Nat
      /\ ~ PrefillComplete(q) => PrefilledTokens(q) + Chunk(q) <= PromptTokens(q)
      /\ generated[q] \in Nat /\ MaxNewTokens[q] \in Nat /\ generated[q] < MaxNewTokens[q]
  BY SchedulerNumbers, SchedulerAssumption
     DEF Live, TypeInv, TypeOK, SchedulerTypeOK, TablesInv
<1>2. BatchTokens(q) \in Nat /\ BatchTokens(q) <= PromptTokens(q) + MaxNewTokens[q]
  BY <1>1 DEF BatchTokens
<1>3. \A d \in Drafts(q) : d \in Nat /\ generated[q] + d <= MaxNewTokens[q]
  BY RuntimeAssumption DEF Drafts
<1> QED
  BY <1>1, <1>2, <1>3 DEF Reach

\* A batch that makes room for n tokens and places tokens at most up to there.
LEMMA BatchFits ==
  ASSUME TypeInv, TablesInv, KV!Pool!PoolConsistent, UsesPagedKV,
         NEW q \in Req, NEW n \in Nat, Reserve(q, n) \/ UNCHANGED kvVars,
         n <= PromptTokens(q) + MaxNewTokens[q],
         UNCHANGED <<input_ids, num_cached_tokens>>,
         \A r \in Req \ {q} : /\ num_scheduled_tokens'[r] = num_scheduled_tokens[r]
                               /\ generated'[r] = generated[r],
         \/ Placed(q)' = Placed(q)
         \/ Reserve(q, n) /\ Placed(q)' \in Nat /\ Placed(q)' <= n
  PROVE  /\ TablesFit'
         /\ \A r \in Req \ {q} : block_table'[r] = block_table[r]
<1>1. \A r \in Req : /\ PromptTokens(r) \in Nat /\ Placed(r) \in Nat
                     /\ MaxNewTokens[r] \in Nat
  BY SchedulerAssumption, PlacedType, SchedulerNumbers DEF TypeInv, TypeOK
<1>2. \A r \in Req : /\ KV!PagesRequired(Placed(r)) \in Nat
                     /\ Need(r) \in Nat
  <2>1. \A r \in Req : PromptTokens(r) + MaxNewTokens[r] \in Nat
    BY <1>1
  <2> QED
    BY <1>1, <2>1, PagesFacts DEF Need
<1>3. KV!PagesRequired(n) \in Nat /\ KV!PagesRequired(n) <= Need(q)
  <2>1. PromptTokens(q) + MaxNewTokens[q] \in Nat
    BY <1>1
  <2> QED
    BY <2>1, PagesFacts DEF Need
<1>4. \A r \in Req : Need(r)' = Need(r)
  BY DEF Need, KV!PagesRequired, PromptTokens
<1>5. \A r \in Req \ {q} : Placed(r)' = Placed(r)
  BY DEF Placed, PrefilledTokens
<1>6. /\ KV!PagesRequired(Placed(q)) <= Len(block_table[q])
      /\ Len(block_table[q]) <= Need(q)
  BY DEF TablesInv, TablesFit
<1>7. /\ KV!PagesRequired(Placed(q)') <= Len(block_table'[q])
      /\ Len(block_table'[q]) <= Need(q)
      /\ \A r \in Req \ {q} : block_table'[r] = block_table[r]
  <2>1. CASE Reserve(q, n)
    <3>1. KV!EnsureCapacity(q, n)
      BY <2>1 DEF Reserve
    <3>2. KVTypeOK
      BY DEF TypeInv, TypeOK
    <3>3. /\ Len(block_table[q]) \in Nat /\ Len(block_table'[q]) \in Nat
          /\ Len(block_table'[q]) >= Len(block_table[q])
          /\ Len(block_table'[q]) >= KV!PagesRequired(n)
          /\ \/ Len(block_table'[q]) = Len(block_table[q])
             \/ Len(block_table'[q]) = KV!PagesRequired(n)
          /\ \A r \in Req \ {q} : block_table'[r] = block_table[r]
      BY <3>1, <3>2, GrownTable
    <3>4. CASE Placed(q)' = Placed(q)
      BY <1>2, <1>3, <1>6, <3>3, <3>4
    <3>5. CASE Placed(q)' \in Nat /\ Placed(q)' <= n
      <4>1. /\ KV!PagesRequired(Placed(q)') \in Nat
            /\ KV!PagesRequired(Placed(q)') <= KV!PagesRequired(n)
        BY <3>5, PagesFacts
      <4> QED
        BY <1>2, <1>3, <1>6, <3>3, <4>1
    <3> QED
      BY <3>4, <3>5
  <2>2. CASE UNCHANGED kvVars /\ ~ Reserve(q, n)
    <3>1. block_table' = block_table /\ Placed(q)' = Placed(q)
      BY <2>2 DEF kvVars
    <3> QED
      BY <1>6, <3>1
  <2> QED
    BY <2>1, <2>2
<1>8. ASSUME NEW r \in Req
      PROVE  /\ KV!PagesRequired(Placed(r)') <= Len(block_table'[r])
             /\ Len(block_table'[r]) <= Need(r)
  BY <1>5, <1>7 DEF TablesInv, TablesFit
<1> QED
  BY <1>4, <1>7, <1>8 DEF TablesFit, KV!PagesRequired

LEMMA TurnTables ==
  ASSUME TypeInv, TablesInv, KV!Pool!PoolConsistent, UsesPagedKV, ~ SupportsPrefixCache,
         NEW r \in Req, Turn(r)
  PROVE  TablesInv'
<1>1. PICK q \in Req : q \in Live /\ (Prefill(r, q) \/ Decode(r, q) \/ Fail(r, q))
  BY DEF Turn, Drives, IsNext
<1>2. /\ status \in [Req -> Status] /\ generated \in [Req -> Nat]
      /\ num_scheduled_tokens \in [Req -> Nat] /\ num_cached_tokens \in [Req -> Nat]
      /\ MaxNewTokens \in [Req -> Nat \ {0}]
  BY SchedulerAssumption DEF TypeInv, TypeOK, SchedulerTypeOK
<1>3. /\ PromptTokens(q) \in Nat /\ PrefilledTokens(q) \in Nat /\ Chunk(q) \in Nat
      /\ BatchTokens(q) \in Reach(q)
  BY SchedulerNumbers DEF TypeInv, TypeOK, Reach
<1>4. UNCHANGED <<input_ids, num_cached_tokens>>
  BY <1>1 DEF Prefill, PrefillChunk, Decode, DecodeTokens, Fail, MarkRunning
<1>5. \A t \in Req \ {q} : /\ status'[t] = status[t]
                            /\ num_scheduled_tokens'[t] = num_scheduled_tokens[t]
                            /\ generated'[t] = generated[t]
  BY <1>1, <1>2 DEF Prefill, PrefillChunk, Decode, DecodeTokens, Fail, MarkRunning
<1>6. /\ status[q] # "none" /\ status'[q] # "none"
      /\ status'[q] = "running" => generated'[q] < MaxNewTokens[q]
      /\ status'[q] \in {"running", "finished"}
  <2>1. CASE Prefill(r, q) \/ Fail(r, q)
    BY <1>1, <1>2, <2>1 DEF Prefill, PrefillChunk, Fail, MarkRunning, Live, TablesInv
  <2>2. CASE Decode(r, q)
    <3>1. PICK n \in 1 .. MaxBurst, stopped \in BOOLEAN : DecodeTokens(q, n, stopped)
      BY <1>1, <2>2, DecodeSteps
    <3>2. n \in Nat /\ generated[q] \in Nat /\ MaxNewTokens[q] \in Nat
      BY <1>2, RuntimeAssumption
    <3> QED
      BY <1>1, <1>2, <3>1, <3>2 DEF DecodeTokens, Live
  <2> QED
    BY <1>1, <2>1, <2>2
<1>7. PICK n \in Reach(q) :
        /\ Reserve(q, n) \/ UNCHANGED kvVars
        /\ \/ Placed(q)' = Placed(q)
           \/ Reserve(q, n) /\ Placed(q)' \in Nat /\ Placed(q)' <= n
  <2>1. CASE Prefill(r, q)
    <3>1. /\ Reserve(q, BatchTokens(q)) /\ ~ PrefillComplete(q)
          /\ num_scheduled_tokens' = [num_scheduled_tokens EXCEPT
                                        ![q] = num_scheduled_tokens[q] + Chunk(q)]
      BY <2>1 DEF Prefill, PrefillChunk
    <3>2. num_scheduled_tokens'[q] = num_scheduled_tokens[q] + Chunk(q)
      BY <1>2, <3>1
    <3>3. PrefilledTokens(q)' = PrefilledTokens(q) + Chunk(q)
      BY <1>2, <1>3, <1>4, <3>2 DEF PrefilledTokens
    <3>4. generated'[q] = 0
      BY <1>1, <1>2, <2>1 DEF Prefill, PrefillChunk, TablesInv
    <3>5. Placed(q)' = PrefilledTokens(q) + Chunk(q)
      BY <1>3, <3>3, <3>4 DEF Placed
    <3> QED
      BY <1>3, <3>1, <3>5 DEF BatchTokens
  <2>2. CASE Decode(r, q)
    <3>1. PICK n \in 1 .. MaxBurst :
            \E stopped \in BOOLEAN : \E v \in Voiced(n) : Keeps(r, q, n, stopped, v)
      BY <1>1, <2>2, DecodeKeeps DEF TypeInv, TypeOK
    <3>2. PICK stopped \in BOOLEAN : \E v \in Voiced(n) : Keeps(r, q, n, stopped, v)
      BY <3>1
    <3>3. DecodeTokens(q, n, stopped)
      BY <3>2 DEF Keeps
    <3>4. PICK count \in Reach(q) : /\ PromptTokens(q) + generated[q] + n - 1 <= count
                                     /\ Reserve(q, count)
      BY <3>2 DEF Keeps
    <3>5. /\ n \in Nat /\ n >= 1 /\ generated[q] \in Nat /\ generated'[q] = generated[q] + n
          /\ num_scheduled_tokens' = num_scheduled_tokens /\ PrefillComplete(q)
      BY <1>2, <3>3, RuntimeAssumption DEF DecodeTokens
    <3>6. PrefilledTokens(q)' = PromptTokens(q)
      BY <1>4, <3>5, SchedulerNumbers DEF PrefilledTokens, TypeInv, TypeOK
    <3>7. count \in Nat /\ PromptTokens(q) + generated[q] + 1 <= count
      <4>1. \A d \in Drafts(q) : d \in Nat /\ d >= 1
        BY RuntimeAssumption DEF Drafts
      <4> QED
        BY <1>3, <3>4, <3>5, <4>1 DEF Reach, BatchTokens
    <3>8. Placed(q)' \in Nat /\ Placed(q)' <= count
      BY <1>3, <3>4, <3>5, <3>6, <3>7 DEF Placed
    <3> QED
      BY <3>4, <3>8
  <2>3. CASE Fail(r, q)
    <3>1. num_scheduled_tokens' = num_scheduled_tokens
      BY <2>3 DEF Fail, MarkRunning
    <3>2. Placed(q)' = Placed(q)
      BY <1>4, <2>3, <3>1 DEF Fail, MarkRunning, Placed, PrefilledTokens
    <3>3. UNCHANGED kvVars \/ \E n \in Reach(q) : Reserve(q, n)
      BY <1>3, <2>3 DEF Fail
    <3> QED
      BY <1>3, <3>1, <3>2, <3>3
  <2> QED
    BY <1>1, <2>1, <2>2, <2>3
<1>8. n \in Nat /\ n <= PromptTokens(q) + MaxNewTokens[q]
  BY <1>1, CountsFit
<1>9. /\ TablesFit' /\ \A t \in Req \ {q} : block_table'[t] = block_table[t]
  BY <1>4, <1>5, <1>7, <1>8, BatchFits
<1>10. NothingCached'
  BY <1>4 DEF TablesInv, NothingCached
<1>11. \A t \in Req : ~ Added(t)' => block_table'[t] = <<>>
  BY <1>5, <1>6, <1>9 DEF TablesInv, Added
<1>12. \A t \in Live' : generated'[t] < MaxNewTokens[t]
  BY <1>5, <1>6 DEF TablesInv, Live
<1>13. ASSUME NEW t \in Req, generated'[t] > 0 PROVE PrefillComplete(t)'
  <2>1. CASE t = q /\ generated'[q] # generated[q]
    <3>1. PrefillComplete(q) /\ num_scheduled_tokens' = num_scheduled_tokens
      BY <1>1, <1>2, <2>1, DecodeSteps
         DEF Prefill, PrefillChunk, DecodeTokens, Fail, MarkRunning
    <3> QED
      BY <1>4, <2>1, <3>1 DEF PrefillComplete, PrefilledTokens, PromptTokens
  <2>2. CASE t = q /\ generated'[q] = generated[q]
    <3>1. PrefillComplete(q)
      BY <1>13, <2>2 DEF TablesInv
    <3>2. num_scheduled_tokens' = num_scheduled_tokens
      BY <1>1, <3>1, DecodeSteps DEF Prefill, PrefillChunk, DecodeTokens, Fail, MarkRunning
    <3> QED
      BY <1>4, <2>2, <3>1, <3>2 DEF PrefillComplete, PrefilledTokens, PromptTokens
  <2>3. CASE t # q
    <3>1. generated'[t] = generated[t] /\ num_scheduled_tokens'[t] = num_scheduled_tokens[t]
      BY <1>5, <2>3
    <3> QED
      BY <1>4, <1>13, <3>1 DEF TablesInv, PrefillComplete, PrefilledTokens, PromptTokens
  <2> QED
    BY <2>1, <2>2, <2>3
<1> QED
  BY <1>9, <1>10, <1>11, <1>12, <1>13 DEF TablesInv

LEMMA AddRequestTables ==
  ASSUME TypeInv, TablesInv, ~ SupportsPrefixCache, NEW r \in Req, AddRequest(r)
  PROVE  TablesInv'
<1>1. Arrives(r)
  BY AddRequestArrives DEF TypeInv
<1>2. PICK ids \in Seq(Word) : AddSequence(r, ids, 0)
  BY <1>1 DEF Arrives
<1>3. /\ status \in [Req -> Status] /\ input_ids \in [Req -> Seq(Word)]
      /\ num_cached_tokens \in [Req -> Nat] /\ MaxNewTokens \in [Req -> Nat \ {0}]
  BY SchedulerAssumption DEF TypeInv, TypeOK, SchedulerTypeOK
<1>4. ~ Added(r) /\ num_scheduled_tokens[r] = 0 /\ generated[r] = 0 /\ block_table[r] = <<>>
  BY <1>1 DEF Arrives, Added, TypeInv, Arrivals, TablesInv
<1>5. block_table' = block_table
  BY DEF AddRequest, StartFrom
<1>6. /\ status' = [status EXCEPT ![r] = "waiting"] /\ input_ids' = [input_ids EXCEPT ![r] = ids]
      /\ num_cached_tokens' = [num_cached_tokens EXCEPT ![r] = 0]
      /\ UNCHANGED <<num_scheduled_tokens, generated>>
  BY <1>2 DEF AddSequence
<1>7. \A t \in Req \ {r} : /\ status'[t] = status[t] /\ input_ids'[t] = input_ids[t]
                            /\ num_cached_tokens'[t] = num_cached_tokens[t]
  BY <1>6
<1>8. ASSUME NEW t \in Req
      PROVE  /\ KV!PagesRequired(Placed(t)') <= Len(block_table'[t])
             /\ Len(block_table'[t]) <= Need(t)'
  <2>1. CASE t = r
    <3>1. Placed(r)' = 0
      BY <1>3, <1>4, <1>6 DEF Placed, PrefilledTokens
    <3>2. KV!PagesRequired(0) = 0
      BY DEF KV!PagesRequired
    <3>3. Len(block_table'[r]) = 0
      BY <1>4, <1>5, EmptySeq
    <3>4. PromptTokens(r)' + MaxNewTokens[r] \in Nat
      BY <1>3, <1>6, LenProperties DEF PromptTokens
    <3>5. Need(r)' \in Nat
      BY <3>4, PagesFacts DEF Need, KV!PagesRequired
    <3> QED
      BY <2>1, <3>1, <3>2, <3>3, <3>5
  <2>2. CASE t # r
    <3>1. Placed(t)' = Placed(t) /\ Need(t)' = Need(t)
      BY <1>6, <1>7, <2>2 DEF Placed, PrefilledTokens, Need, PromptTokens, KV!PagesRequired
    <3> QED
      BY <1>5, <3>1 DEF TablesInv, TablesFit
  <2> QED
    BY <2>1, <2>2
<1>9. TablesFit'
  BY <1>8 DEF TablesFit, KV!PagesRequired
<1>10. NothingCached'
  BY <1>3, <1>6, <1>7 DEF TablesInv, NothingCached
<1>11. \A t \in Req : ~ Added(t)' => block_table'[t] = <<>>
  BY <1>4, <1>5, <1>7 DEF TablesInv, Added
<1>12. \A t \in Live' : generated'[t] < MaxNewTokens[t]
  BY <1>3, <1>4, <1>6, <1>7 DEF TablesInv, Live
<1>13. ASSUME NEW t \in Req, generated'[t] > 0 PROVE PrefillComplete(t)'
  <2>1. t # r /\ PrefillComplete(t)
    BY <1>4, <1>6, <1>13 DEF TablesInv
  <2> QED
    BY <1>6, <1>7, <2>1 DEF PrefillComplete, PrefilledTokens, PromptTokens
<1> QED
  BY <1>9, <1>10, <1>11, <1>12, <1>13 DEF TablesInv

\* Cancels, ends of loops, texts and clients that leave touch no table.
LEMMA TablesUntouched ==
  ASSUME TablesInv,
         UNCHANGED <<block_table, input_ids, num_cached_tokens, num_scheduled_tokens, generated>>,
         \A r \in Req : status'[r] = status[r] \/ (status[r] # "none" /\ status'[r] = "cancelled")
  PROVE  TablesInv'
<1>1. NothingCached' /\ \A r \in Req : ~ Added(r)' => block_table'[r] = <<>>
  BY DEF TablesInv, NothingCached, Added
<1>2. \A r \in Live' : generated'[r] < MaxNewTokens[r]
  BY DEF TablesInv, Live
<1>3. TablesFit'
  BY DEF TablesInv, TablesFit, Need, Placed, PrefilledTokens, PromptTokens, KV!PagesRequired
<1>4. \A r \in Req : generated'[r] > 0 => PrefillComplete(r)'
  BY DEF TablesInv, PrefillComplete, PrefilledTokens, PromptTokens
<1> QED
  BY <1>1, <1>2, <1>3, <1>4 DEF TablesInv

LEMMA TablesStep ==
  ASSUME TypeInv, TablesInv, KV!Pool!PoolConsistent, UsesPagedKV, ~ SupportsPrefixCache, [Next]_vars
  PROVE  TablesInv'
<1>1. status \in [Req -> Status]
  BY DEF TypeInv, TypeOK, SchedulerTypeOK
<1>2. ASSUME NEW r \in Req, Cancel(r) PROVE TablesInv'
  <2>1. UNCHANGED <<block_table, input_ids, num_cached_tokens, num_scheduled_tokens, generated>>
    BY <1>2 DEF Cancel, CancelSequence, FinishSequence, kvVars
  <2>2. \A t \in Req : status'[t] = status[t] \/ (status[t] # "none" /\ status'[t] = "cancelled")
    BY <1>1, <1>2 DEF Cancel, CancelSequence, Live
  <2> QED
    BY <2>1, <2>2, TablesUntouched
<1>3. ASSUME NEW r \in Req, Finish(r) \/ Yield(r) \/ Disconnect(r) PROVE TablesInv'
  BY <1>3, TablesUntouched DEF Finish, FinishSequence, Yield, Disconnect, schedulerVars, kvVars
<1>4. ASSUME UNCHANGED vars PROVE TablesInv'
  BY <1>4, TablesUntouched DEF vars, schedulerVars, kvVars
<1> QED
  BY <1>2, <1>3, <1>4, AddRequestTables, TurnTables DEF Next, LoopStep, CancelById, CancelBySession

LEMMA TablesInit == Init => TablesInv
<1> SUFFICES ASSUME Init PROVE TablesInv
  OBVIOUS
<1>1. /\ SchedulerInit /\ block_table = [r \in Req |-> <<>>]
      /\ \A r \in Req : MaxNewTokens[r] \in Nat
  BY SchedulerAssumption DEF Init
<1>2. ASSUME NEW r \in Req
      PROVE  /\ block_table[r] = <<>> /\ status[r] = "none" /\ num_cached_tokens[r] = 0
             /\ Placed(r) = 0 /\ PromptTokens(r) = 0 /\ generated[r] = 0
  <2>1. /\ block_table[r] = <<>> /\ status[r] = "none" /\ num_cached_tokens[r] = 0
        /\ num_scheduled_tokens[r] = 0 /\ input_ids[r] = <<>> /\ generated[r] = 0
    BY <1>1 DEF SchedulerInit
  <2>2. Len(<<>>) = 0
    BY EmptySeq
  <2> QED
    BY <2>1, <2>2 DEF Placed, PrefilledTokens, PromptTokens
<1>3. ASSUME NEW r \in Req PROVE Need(r) \in Nat
  <2>1. PromptTokens(r) + MaxNewTokens[r] \in Nat
    BY <1>1, <1>2
  <2> QED
    BY <2>1, PagesFacts DEF Need
<1>4. KV!PagesRequired(0) = 0 /\ Len(<<>>) = 0
  BY EmptySeq DEF KV!PagesRequired
<1>5. TablesFit
  <2>1. ASSUME NEW r \in Req
        PROVE  /\ KV!PagesRequired(Placed(r)) <= Len(block_table[r])
               /\ Len(block_table[r]) <= Need(r)
    <3>1. /\ KV!PagesRequired(Placed(r)) = 0 /\ Len(block_table[r]) = 0
          /\ Need(r) \in Nat
      BY <1>2, <1>3, <1>4, Zenon
    <3>2. \A n \in Nat : 0 <= 0 /\ 0 <= n
      OBVIOUS
    <3> QED
      BY <3>1, <3>2, Zenon
  <2> QED
    BY <2>1, Zenon DEF TablesFit
<1> QED
  BY <1>2, <1>5 DEF TablesInv, NothingCached, Live, Added

\* A block table always has room for the prompt as far as it is prefilled, for the
\* token of the first decode and then for all of the reply that has been fed, bursts
\* of accepted drafts included, and never more pages than its request can come to
\* need, whatever fails half way, is cancelled, or is drafted in vain.
THEOREM TablesStayFit ==
  ASSUME UsesPagedKV, ~ SupportsPrefixCache PROVE Spec => []TablesFit
<1> DEFINE Inv == TypeInv /\ KV!Pool!PoolConsistent /\ PagesExclusive /\ TablesInv
<1>1. Init => Inv
  <2> SUFFICES ASSUME Init PROVE TablesInv
    BY InitTypeInv, PagesInit
  <2> QED
    BY TablesInit
<1>2. Inv /\ [Next]_vars => Inv'
  BY NextTypeInv, PagesStep, TablesStep
<1>3. Inv => TablesFit
  BY DEF TablesInv
<1> HIDE DEF Inv
<1> QED
  BY <1>1, <1>2, <1>3, PTL DEF Spec

-----------------------------------------------------------------------------
(* The prefix cache *)

EntryKept(h) ==
  /\ entry'[h].token_ids = entry[h].token_ids
  /\ entry'[h].pages = entry[h].pages
  /\ entry'[h].pinned = entry[h].pinned

\* Only reference counts and access times have changed.
SameEntries ==
  /\ Len(entry') = Len(entry)
  /\ \A h \in Prefix!Handle : EntryKept(h)
  /\ cached' = cached

\* The runtime pins every entry that it inserts.
AllPinned == \A h \in Prefix!Handle : entry[h].pinned

LEMMA EntryTyped ==
  ASSUME PrefixTypeOK, NEW h \in Prefix!Handle
  PROVE  /\ entry[h] \in Entry
         /\ entry[h].ref_count \in Nat
         /\ entry[h].token_ids \in Seq(Word)
         /\ entry[h].pages \in Seq(KV!Pool!Page)
<1>1. entry[h] \in Entry
  BY ElementOfSeq DEF PrefixTypeOK, Prefix!Handle
<1>2. ASSUME NEW A, NEW B, NEW C,
             NEW x \in [token_ids : A, pages : B, ref_count : Nat, pinned : C]
      PROVE  x.ref_count \in Nat /\ x.token_ids \in A /\ x.pages \in B
  OBVIOUS
<1> QED
  BY <1>1, <1>2 DEF Entry

LEMMA CountOnly ==
  ASSUME PrefixTypeOK, NEW h \in Prefix!Handle, NEW n \in Nat, UNCHANGED cached,
         entry' = [entry EXCEPT ![h] = [entry[h] EXCEPT !.ref_count = n]]
  PROVE  SameEntries
<1> DEFINE e == [entry[h] EXCEPT !.ref_count = n]
<1>1. entry \in Seq(Entry) /\ h \in 1 .. Len(entry) /\ entry[h] \in Entry
  BY ElementOfSeq DEF PrefixTypeOK, Prefix!Handle
<1>2. e \in Entry /\ e.token_ids = entry[h].token_ids /\ e.pages = entry[h].pages
      /\ e.pinned = entry[h].pinned
  <2>1. e \in Entry
    BY <1>1, EntryCounted
  <2>2. \A x \in Entry : LET y == [x EXCEPT !.ref_count = n]
                         IN  y.token_ids = x.token_ids /\ y.pages = x.pages /\ y.pinned = x.pinned
    BY DEF Entry
  <2> QED
    BY <1>1, <2>1, <2>2
<1>3. entry' = [entry EXCEPT ![h] = e]
  OBVIOUS
<1> HIDE DEF e
<1>4. /\ Len(entry') = Len(entry)
      /\ \A g \in 1 .. Len(entry) : entry'[g] = IF g = h THEN e ELSE entry[g]
  BY <1>1, <1>2, <1>3, ExceptSeq
<1> QED
  BY <1>2, <1>4 DEF SameEntries, EntryKept, Prefix!Handle

LEMMA HitKeeps ==
  ASSUME PrefixTypeOK, NEW h \in Prefix!Handle, Prefix!Hit(h)
  PROVE  SameEntries
<1>1. entry[h].ref_count + 1 \in Nat
  BY EntryTyped
<1>2. entry' = [entry EXCEPT ![h] = [entry[h] EXCEPT !.ref_count = entry[h].ref_count + 1]]
  BY DEF Prefix!Hit
<1> QED
  BY <1>1, <1>2, CountOnly DEF Prefix!Hit

LEMMA ReleaseKeeps ==
  ASSUME PrefixTypeOK, NEW r \in Req, ReleaseHandle(r)
  PROVE  SameEntries
<1>1. CASE cache_handle[r] = Prefix!NoEntry
  BY <1>1 DEF ReleaseHandle, prefixVars, SameEntries, EntryKept
<1>2. CASE cache_handle[r] # Prefix!NoEntry
  <2>1. PICK h \in Prefix!Handle : h = cache_handle[r]
    BY <1>2 DEF PrefixTypeOK
  <2> DEFINE n == IF entry[h].ref_count = 0 THEN 0 ELSE entry[h].ref_count - 1
  <2>2. n \in Nat
    BY EntryTyped
  <2>3. entry' = [entry EXCEPT ![h] = [entry[h] EXCEPT !.ref_count = n]] /\ UNCHANGED cached
    BY <1>2, <2>1 DEF ReleaseHandle, Prefix!ReleaseEntry
  <2> HIDE DEF n
  <2> QED
    BY <2>2, <2>3, CountOnly
<1> QED
  BY <1>1, <1>2

\* An insert adds one pinned entry, and finds nothing to evict: it displaces
\* at most an entry with the same tokens.
LEMMA InsertAdds ==
  ASSUME PrefixTypeOK, AllPinned, NEW tokens \in Seq(Word), NEW pages \in Seq(KV!Pool!Page),
         Prefix!Insert(tokens, pages, TRUE)
  PROVE  /\ Len(entry) \in Nat /\ Len(entry') = Len(entry) + 1
         /\ \A h \in Prefix!Handle : EntryKept(h)
         /\ entry'[Len(entry) + 1].token_ids = tokens
         /\ entry'[Len(entry) + 1].pages = pages
         /\ AllPinned'
         /\ cached' = Prefix!Added(tokens)
<1> DEFINE new == [token_ids |-> tokens, pages |-> pages, ref_count |-> 0, pinned |-> TRUE]
<1>1. new \in Entry /\ entry \in Seq(Entry) /\ Len(entry) \in Nat
  BY LenProperties DEF Entry, PrefixTypeOK
<1>2. entry' = Append(entry, new)
  BY DEF Prefix!Insert, Prefix!Extended
<1>3. new.token_ids = tokens /\ new.pages = pages /\ new.pinned
  OBVIOUS
<1> HIDE DEF new
<1>4. /\ Len(entry') = Len(entry) + 1
      /\ \A h \in 1 .. Len(entry) : entry'[h] = entry[h]
      /\ entry'[Len(entry) + 1] = new
  BY <1>1, <1>2, AppendProperties
<1>5. \A h \in Prefix!Handle : EntryKept(h)
  BY <1>4 DEF Prefix!Handle, EntryKept
<1>6. AllPinned'
  BY <1>1, <1>3, <1>4 DEF AllPinned, Prefix!Handle
<1>7. Prefix!Evictable(entry', Prefix!Added(tokens)) = {}
  <2>1. Prefix!Added(tokens) \subseteq Prefix!Handle'
    <3>1. cached \subseteq 1 .. Len(entry)
      BY DEF PrefixTypeOK, Prefix!Handle
    <3>2. \A i \in 1 .. Len(entry) : i \in Prefix!Handle'
      BY <1>1, <1>4 DEF Prefix!Handle
    <3>3. Len(entry) + 1 \in Prefix!Handle'
      BY <1>1, <1>4 DEF Prefix!Handle
    <3> QED
      BY <3>1, <3>2, <3>3, Zenon DEF Prefix!Added
  <2> QED
    BY <1>6, <2>1 DEF Prefix!Evictable, AllPinned
<1>8. cached' = Prefix!Added(tokens)
  BY <1>7 DEF Prefix!Insert, Prefix!EvictedFrom
<1> QED
  BY <1>1, <1>3, <1>4, <1>5, <1>6, <1>8

\* The first batch of a complete prompt puts it into the prefix cache.
InsertStep(q) ==
  /\ cache_handle[q] = Prefix!NoEntry
  /\ Prefix!Insert(input_ids[q], block_table'[q], TRUE)
  /\ cache_handle' = [cache_handle EXCEPT ![q] = Len(entry')]

-----------------------------------------------------------------------------
\* The prompt of every sequence that uses an entry is still in the cache.
UsedStays ==
  \A r \in Req : cache_handle[r] # Prefix!NoEntry =>
    \E g \in cached : entry[g].token_ids = entry[cache_handle[r]].token_ids

LEMMA UsedStaysSame ==
  ASSUME PrefixTypeOK, AllPinned, UsedStays, SameEntries,
         \/ UNCHANGED cache_handle
         \/ \E r \in Req, h \in cached : cache_handle' = [cache_handle EXCEPT ![r] = h]
  PROVE  AllPinned' /\ UsedStays'
<1>1. Prefix!Handle' = Prefix!Handle /\ AllPinned'
  BY DEF SameEntries, EntryKept, AllPinned, Prefix!Handle
<1>2. ASSUME NEW t \in Req, cache_handle'[t] # Prefix!NoEntry
      PROVE  \E g \in cached : entry[g].token_ids = entry[cache_handle'[t]].token_ids
  BY <1>2 DEF UsedStays, PrefixTypeOK
<1>3. \A t \in Req : cache_handle'[t] # Prefix!NoEntry => cache_handle'[t] \in Prefix!Handle
  BY DEF PrefixTypeOK
<1>4. UsedStays'
  <2> SUFFICES ASSUME NEW t \in Req, cache_handle'[t] # Prefix!NoEntry
               PROVE  \E g \in cached' : entry'[g].token_ids = entry'[cache_handle'[t]].token_ids
    BY DEF UsedStays, Prefix!NoEntry
  <2>1. PICK g \in cached : entry[g].token_ids = entry[cache_handle'[t]].token_ids
    BY <1>2
  <2>2. g \in Prefix!Handle /\ cache_handle'[t] \in Prefix!Handle
    BY <1>3 DEF PrefixTypeOK
  <2> QED
    BY <2>1, <2>2 DEF SameEntries, EntryKept
<1> QED
  BY <1>1, <1>4

LEMMA UsedStaysInsert ==
  ASSUME PrefixTypeOK, AllPinned, UsedStays, NEW q \in Req,
         input_ids[q] \in Seq(Word), block_table'[q] \in Seq(KV!Pool!Page), InsertStep(q)
  PROVE  AllPinned' /\ UsedStays'
<1> DEFINE fresh == Len(entry) + 1
<1>1. /\ Len(entry) \in Nat /\ Len(entry') = fresh
      /\ \A h \in Prefix!Handle : EntryKept(h)
      /\ entry'[fresh].token_ids = input_ids[q]
      /\ AllPinned'
      /\ cached' = {h \in cached : entry[h].token_ids # input_ids[q]} \cup {fresh}
  BY InsertAdds DEF InsertStep, Prefix!Added
<1>2. ASSUME NEW t \in Req, cache_handle'[t] # Prefix!NoEntry
      PROVE  \E g \in cached' : entry'[g].token_ids = entry'[cache_handle'[t]].token_ids
  <2>1. CASE t = q
    BY <1>1, <2>1 DEF InsertStep, PrefixTypeOK
  <2>2. CASE t # q
    <3>1. cache_handle'[t] = cache_handle[t] /\ cache_handle[t] \in Prefix!Handle
      BY <1>2, <2>2 DEF InsertStep, PrefixTypeOK
    <3>2. PICK g \in cached : entry[g].token_ids = entry[cache_handle[t]].token_ids
      BY <1>2, <3>1 DEF UsedStays
    <3>3. /\ g \in Prefix!Handle
          /\ entry'[g].token_ids = entry'[cache_handle'[t]].token_ids
          /\ entry'[g].token_ids = entry[g].token_ids
      BY <1>1, <3>1, <3>2 DEF EntryKept, PrefixTypeOK
    <3>4. CASE entry[g].token_ids # input_ids[q]
      BY <1>1, <3>3, <3>4
    <3>5. CASE entry[g].token_ids = input_ids[q]
      <4>1. entry'[fresh].token_ids = entry'[cache_handle'[t]].token_ids /\ fresh \in cached'
        BY <1>1, <3>3, <3>5
      <4> QED
        BY <4>1
    <3> QED
      BY <3>4, <3>5
  <2> QED
    BY <2>1, <2>2
<1> QED
  BY <1>1, <1>2 DEF UsedStays, Prefix!NoEntry

\* The steps of the runtime, by what they do to the prefix cache.
LEMMA PrefixSteps ==
  ASSUME TypeInv, [Next]_vars
  PROVE  \/ \E r \in Req : AddRequest(r)
         \/ \E r, q \in Req : Turn(r) /\ Prefill(r, q) /\ IsNext(q) /\ InsertStep(q)
         \/ SameEntries /\ UNCHANGED cache_handle
<1>1. PrefixTypeOK
  BY DEF TypeInv, TypeOK
<1>2. ASSUME UNCHANGED prefixVars PROVE SameEntries
  BY <1>2 DEF prefixVars, SameEntries, EntryKept
<1>3. ASSUME NEW r \in Req, Cancel(r) \/ Finish(r)
      PROVE  SameEntries /\ UNCHANGED cache_handle
  BY <1>1, <1>3, ReleaseKeeps DEF Cancel, Finish, FinishSequence
<1>4. ASSUME NEW r \in Req, Turn(r)
      PROVE  \/ \E q \in Req : Prefill(r, q) /\ IsNext(q) /\ InsertStep(q)
             \/ SameEntries /\ UNCHANGED cache_handle
  BY <1>2, <1>4 DEF Turn, Drives, Prefill, Decode, Fail, InsertStep
<1>5. ASSUME NEW r \in Req, Yield(r) \/ Disconnect(r)
      PROVE  SameEntries /\ UNCHANGED cache_handle
  BY <1>2, <1>5 DEF Yield, Disconnect
<1>6. ASSUME UNCHANGED vars PROVE SameEntries /\ UNCHANGED cache_handle
  BY <1>2, <1>6 DEF vars
<1> QED
  BY <1>3, <1>4, <1>5, <1>6 DEF Next, LoopStep, CancelById, CancelBySession

\* A request that is added with a hit or without.
LEMMA AddRequestPrefix ==
  ASSUME TypeInv, NEW r \in Req, AddRequest(r)
  PROVE  /\ SameEntries
         /\ \/ UNCHANGED <<cache_handle, block_table>> /\ num_cached_tokens'[r] = 0
            \/ \E h \in cached :
                 /\ Prefix!IsPrefixOf(entry[h].token_ids, input_ids'[r])
                 /\ num_cached_tokens'[r] = Len(entry[h].token_ids)
                 /\ block_table' = [block_table EXCEPT ![r] = entry[h].pages]
                 /\ cache_handle' = [cache_handle EXCEPT ![r] = h]
<1> DEFINE ids == Tokenize(messages[SessionOf[r]] \o UserMessage(r))
<1>1. StartFrom(r, ids)
  BY DEF AddRequest
<1> HIDE DEF ids
<1>2. PrefixTypeOK /\ input_ids \in [Req -> Seq(Word)] /\ num_cached_tokens \in [Req -> Nat]
  BY DEF TypeInv, TypeOK, SchedulerTypeOK
<1>3. ASSUME NEW h \in Prefix!Handle, Prefix!IsMatch(h, ids), Prefix!Hit(h),
             AddSequence(r, ids, Len(entry[h].token_ids))
      PROVE  /\ SameEntries /\ h \in cached
             /\ Prefix!IsPrefixOf(entry[h].token_ids, input_ids'[r])
             /\ num_cached_tokens'[r] = Len(entry[h].token_ids)
  BY <1>2, <1>3, HitKeeps DEF Prefix!IsMatch, Prefix!Candidates, AddSequence
<1>4. ASSUME UNCHANGED <<prefixVars, block_table, cache_handle>>, AddSequence(r, ids, 0)
      PROVE  /\ SameEntries /\ UNCHANGED <<cache_handle, block_table>>
             /\ num_cached_tokens'[r] = 0
  BY <1>2, <1>4 DEF prefixVars, SameEntries, EntryKept, AddSequence
<1> QED
  BY <1>1, <1>3, <1>4 DEF StartFrom

LEMMA UsedStaysStep ==
  ASSUME TypeInv, TypeInv', AllPinned, UsedStays, [Next]_vars
  PROVE  AllPinned' /\ UsedStays'
<1>1. PrefixTypeOK /\ input_ids \in [Req -> Seq(Word)] /\ block_table' \in [Req -> Seq(KV!Pool!Page)]
  BY DEF TypeInv, TypeOK, SchedulerTypeOK, KVTypeOK
<1>2. ASSUME NEW r \in Req, AddRequest(r) PROVE AllPinned' /\ UsedStays'
  BY <1>1, <1>2, AddRequestPrefix, UsedStaysSame
<1>3. ASSUME NEW q \in Req, InsertStep(q) PROVE AllPinned' /\ UsedStays'
  BY <1>1, <1>3, UsedStaysInsert
<1>4. ASSUME SameEntries, UNCHANGED cache_handle PROVE AllPinned' /\ UsedStays'
  BY <1>1, <1>4, UsedStaysSame
<1> QED
  BY <1>2, <1>3, <1>4, PrefixSteps

\* The prompt prefix that a live sequence works with can be found by the next
\* request, whatever others insert, release or leave behind: the runtime pins
\* what it inserts.
THEOREM UsedPrefixesStay == Spec => []UsedPrefixStaysCached
<1> DEFINE Inv == TypeInv /\ AllPinned /\ UsedStays
<1>1. Init => Inv
  <2> SUFFICES ASSUME Init PROVE AllPinned /\ UsedStays
    BY InitTypeInv
  <2>1. Prefix!Handle = {}
    BY EmptySeq DEF Init, Prefix!PCInit, Prefix!Handle
  <2> QED
    BY <2>1 DEF Init, AllPinned, UsedStays
<1>2. Inv /\ [Next]_vars => Inv'
  BY NextTypeInv, UsedStaysStep
<1>3. Inv => UsedPrefixStaysCached
  BY DEF UsedStays, UsedPrefixStaysCached, Live
<1> HIDE DEF Inv
<1> QED
  BY <1>1, <1>2, <1>3, PTL DEF Spec

-----------------------------------------------------------------------------
(* Block tables that begin with the pages of a prefix cache entry *)

\* Prefixes position by position.
LEMMA PrefixByPosition ==
  \A S : \A s, t \in Seq(S) :
    Prefix!IsPrefixOf(s, t) <=>
      Len(s) <= Len(t) /\ \A i \in 1 .. Len(s) : s[i] = t[i]
<1> SUFFICES ASSUME NEW S, NEW s \in Seq(S), NEW t \in Seq(S)
             PROVE  Prefix!IsPrefixOf(s, t) <=>
                      Len(s) <= Len(t) /\ \A i \in 1 .. Len(s) : s[i] = t[i]
  OBVIOUS
<1>1. Len(s) \in Nat /\ Len(t) \in Nat
  BY LenProperties
<1>2. CASE Len(s) <= Len(t)
  <2> DEFINE p == SubSeq(t, 1, Len(s))
  <2>1. \A i \in 1 .. Len(s) : t[i] \in S
    BY <1>1, <1>2, ElementOfSeq
  <2>2. p \in Seq(S) /\ Len(p) = Len(s) /\ \A i \in 1 .. Len(s) : p[i] = t[i]
    BY <1>1, <1>2, <2>1, SubSeqProperties, Z3
  <2> HIDE DEF p
  <2>3. p = s <=> \A i \in 1 .. Len(s) : s[i] = t[i]
    <3>1. ASSUME \A i \in 1 .. Len(s) : s[i] = t[i] PROVE p = s
      BY <2>2, <3>1, SeqEqual
    <3> QED
      BY <2>2, <3>1
  <2> QED
    BY <1>2, <2>3 DEF Prefix!IsPrefixOf, p
<1>3. CASE ~ (Len(s) <= Len(t))
  BY <1>3 DEF Prefix!IsPrefixOf
<1> QED
  BY <1>2, <1>3

LEMMA PrefixTransitive ==
  \A S : \A s, t, u \in Seq(S) :
    Prefix!IsPrefixOf(s, t) /\ Prefix!IsPrefixOf(t, u) => Prefix!IsPrefixOf(s, u)
<1> SUFFICES ASSUME NEW S, NEW s \in Seq(S), NEW t \in Seq(S), NEW u \in Seq(S),
                    Prefix!IsPrefixOf(s, t), Prefix!IsPrefixOf(t, u)
             PROVE  Prefix!IsPrefixOf(s, u)
  OBVIOUS
<1>1. Len(s) \in Nat /\ Len(t) \in Nat /\ Len(u) \in Nat
  BY LenProperties
<1>2. Len(s) <= Len(t) /\ \A i \in 1 .. Len(s) : s[i] = t[i]
  BY PrefixByPosition
<1>3. Len(t) <= Len(u) /\ \A i \in 1 .. Len(t) : t[i] = u[i]
  BY PrefixByPosition
<1>4. Len(s) <= Len(u) /\ \A i \in 1 .. Len(s) : s[i] = u[i]
  BY <1>1, <1>2, <1>3
<1> QED
  BY <1>4, PrefixByPosition

LEMMA PrefixReflexive == \A S : \A s \in Seq(S) : Prefix!IsPrefixOf(s, s)
<1>1. \A S : \A s \in Seq(S) : Len(s) <= Len(s)
  BY LenProperties
<1> QED
  BY <1>1, PrefixByPosition

\* ensure_capacity only appends to a table.
LEMMA GrownPrefix ==
  ASSUME KVTypeOK, KV!Pool!PoolConsistent, NEW q \in Req, NEW n \in Nat, KV!EnsureCapacity(q, n)
  PROVE  \A r \in Req : Prefix!IsPrefixOf(block_table[r], block_table'[r])
<1> DEFINE m == KV!Missing(q, n)
           granted == KV!Pool!Granted(m)
<1>1. /\ block_table \in [Req -> Seq(KV!Pool!Page)]
      /\ KV!PagesRequired(n) \in Nat /\ m = KV!PagesRequired(n) - Len(block_table[q])
      /\ Len(block_table[q]) \in Nat
  BY PagesFacts, LenProperties DEF KVTypeOK, KV!Missing
<1>2. CASE m <= 0
  BY <1>1, <1>2, PrefixReflexive DEF KV!EnsureCapacity
<1>3. CASE m > 0
  <2>1. m \in Nat /\ KV!Pool!Alloc(m) /\ block_table' = [block_table EXCEPT ![q] = @ \o granted]
    BY <1>1, <1>3 DEF KV!EnsureCapacity
  <2>2. granted \in Seq(KV!Pool!Page) /\ Len(granted) \in Nat
    BY <2>1, GrantedAreFree
  <2> HIDE DEF m, granted
  <2>3. Prefix!IsPrefixOf(block_table[q], block_table[q] \o granted)
    <3> DEFINE old == block_table[q]
               new == old \o granted
    <3>1. old \in Seq(KV!Pool!Page) /\ Len(old) \in Nat
      BY <1>1
    <3>2. new \in Seq(KV!Pool!Page)
      BY <2>2, <3>1, ConcatProperties
    <3> HIDE DEF old
    <3>3. /\ Len(new) = Len(old) + Len(granted)
          /\ \A i \in 1 .. Len(old) + Len(granted) :
               new[i] = IF i <= Len(old) THEN old[i] ELSE granted[i - Len(old)]
      BY <2>2, <3>1, ConcatElements, Zenon
    <3> HIDE DEF new
    <3>4. Len(old) <= Len(new) /\ \A i \in 1 .. Len(old) : old[i] = new[i]
      BY <2>2, <3>1, <3>3
    <3>5. Prefix!IsPrefixOf(old, new)
      BY <3>1, <3>2, <3>4, PrefixByPosition
    <3> QED
      BY <3>5 DEF old, new
  <2> QED
    BY <1>1, <2>1, <2>3, PrefixReflexive
<1> QED
  BY <1>1, <1>2, <1>3

LEMMA ReserveGrows ==
  ASSUME TypeInv, KV!Pool!PoolConsistent, NEW q \in Req, NEW n \in Nat, Reserve(q, n)
  PROVE  /\ KV!Pool!PoolConsistent'
         /\ \A r \in Req : Prefix!IsPrefixOf(block_table[r], block_table'[r])
<1>1. KVTypeOK /\ block_table \in [Req -> Seq(KV!Pool!Page)]
  BY DEF TypeInv, TypeOK, KVTypeOK
<1>2. CASE UNCHANGED kvVars
  BY <1>1, <1>2, PrefixReflexive
     DEF kvVars, KV!Pool!PoolConsistent, KV!Pool!NoDuplicateFree, KV!Pool!Elements
<1>3. CASE KV!EnsureCapacity(q, n)
  <2>1. CASE KV!Missing(q, n) <= 0
    BY <1>1, <2>1, <1>3, <1>2, PrefixReflexive
       DEF KV!EnsureCapacity, KV!poolVars, KV!Pool!PoolConsistent, KV!Pool!NoDuplicateFree,
           KV!Pool!Elements
  <2>2. CASE ~ (KV!Missing(q, n) <= 0)
    <3>1. KV!Missing(q, n) \in Int
      BY <1>1, PagesFacts, LenProperties DEF KV!Missing
    <3>2. KV!Missing(q, n) \in Nat
      BY <2>2, <3>1
    <3> QED
      BY <1>1, <1>3, <2>2, <3>2, PoolAlloc, GrownPrefix DEF KV!EnsureCapacity
  <2> QED
    BY <2>1, <2>2
<1> QED
  BY <1>2, <1>3 DEF Reserve

\* The allocator stays consistent, and no table loses what it had: only a new
\* request starts from another sequence's pages.
LEMMA TablesGrow ==
  ASSUME TypeInv, KV!Pool!PoolConsistent, [Next]_vars
  PROVE  /\ KV!Pool!PoolConsistent'
         /\ \/ \E r \in Req : AddRequest(r)
            \/ \A r \in Req : Prefix!IsPrefixOf(block_table[r], block_table'[r])
<1>1. ASSUME UNCHANGED <<free_pages, used_pages, ref_count>> PROVE KV!Pool!PoolConsistent'
  BY <1>1 DEF KV!Pool!PoolConsistent, KV!Pool!NoDuplicateFree, KV!Pool!Elements
<1>2. ASSUME UNCHANGED kvVars
      PROVE  /\ KV!Pool!PoolConsistent'
             /\ \A r \in Req : Prefix!IsPrefixOf(block_table[r], block_table'[r])
  BY <1>1, <1>2, PrefixReflexive DEF kvVars, TypeInv, TypeOK, KVTypeOK
<1>3. ASSUME NEW r \in Req, Turn(r)
      PROVE  /\ KV!Pool!PoolConsistent'
             /\ \A t \in Req : Prefix!IsPrefixOf(block_table[t], block_table'[t])
  <2>1. \A q \in Req : BatchTokens(q) \in Nat /\ Reach(q) \subseteq Nat
    BY BatchTokensType DEF TypeInv, TypeOK
  <2> QED
    BY <1>2, <1>3, <2>1, ReserveGrows DEF Turn, Prefill, Decode, Fail
<1>4. ASSUME NEW r \in Req, AddRequest(r) PROVE KV!Pool!PoolConsistent'
  BY <1>1, <1>4 DEF AddRequest
<1>5. ASSUME NEW r \in Req, Cancel(r) \/ Finish(r) \/ Yield(r) \/ Disconnect(r)
      PROVE  UNCHANGED kvVars
  BY <1>5 DEF Cancel, Finish, FinishSequence, Yield, Disconnect
<1>6. ASSUME UNCHANGED vars PROVE UNCHANGED kvVars
  BY <1>6 DEF vars
<1> QED
  BY <1>2, <1>3, <1>4, <1>5, <1>6 DEF Next, LoopStep, CancelById, CancelBySession

\* The pages for n tokens have room for n tokens.
LEMMA PagesCover == \A n \in Nat : n <= KV!PagesRequired(n) * PageSize
<1> SUFFICES ASSUME NEW n \in Nat PROVE n <= KV!PagesRequired(n) * PageSize
  OBVIOUS
<1>1. PageSize \in Nat \ {0}
  BY RuntimeAssumption
<1>2. CASE n = 0
  BY <1>1, <1>2 DEF KV!PagesRequired
<1>3. CASE n > 0
  <2> DEFINE k == (n + PageSize - 1) \div PageSize
  <2>1. \A a \in Nat, d \in Nat \ {0} : a \div d \in Nat /\ a < d * (a \div d) + d
    BY KVFacts!DivFacts
  <2>2. n + PageSize - 1 \in Nat
    BY <1>1
  <2>3. k \in Nat /\ n + PageSize - 1 < PageSize * k + PageSize
    BY <1>1, <2>1, <2>2
  <2> HIDE DEF k
  <2>4. PageSize * k \in Nat /\ PageSize * k = k * PageSize
    BY <1>1, <2>3
  <2>5. n <= PageSize * k
    BY <1>1, <2>3, <2>4
  <2>6. KV!PagesRequired(n) = k
    BY <1>3 DEF KV!PagesRequired, k
  <2> QED
    BY <2>4, <2>5, <2>6
<1> QED
  BY <1>2, <1>3

LEMMA MorePagesMoreRoom ==
  \A a, b \in Nat : a <= b => a * PageSize <= b * PageSize
<1>1. PageSize \in Nat
  BY RuntimeAssumption
<1>2. \A a, b, k \in Nat : a <= b => a * k <= b * k
  BY SMT
<1> QED
  BY <1>1, <1>2

\* Every entry has room for its tokens.
EntriesRoomy ==
  \A h \in Prefix!Handle : Len(entry[h].token_ids) <= Len(entry[h].pages) * PageSize

\* No handle before the request is added; nothing cached without a handle.
HandlesStart ==
  \A r \in Req : /\ ~ Added(r) => cache_handle[r] = Prefix!NoEntry
                 /\ cache_handle[r] = Prefix!NoEntry => num_cached_tokens[r] = 0

\* What sequence r took from the prefix cache fits it.
HitFits(r) ==
  cache_handle[r] # Prefix!NoEntry =>
    LET e == entry[cache_handle[r]]
    IN  /\ Prefix!IsPrefixOf(e.token_ids, input_ids[r])
        /\ Prefix!IsPrefixOf(e.pages, block_table[r])
        /\ num_cached_tokens[r] <= Len(e.pages) * PageSize

\* The batch that completes a prompt has given it pages for all its tokens.
LEMMA PublishedRoomy ==
  ASSUME TypeInv, KV!Pool!PoolConsistent, UsesPagedKV, NEW r \in Req, NEW q \in Req,
         Prefill(r, q), InsertStep(q), PrefillComplete(q)'
  PROVE  Len(input_ids[q]) <= Len(block_table'[q]) * PageSize
<1>1. /\ KVTypeOK /\ BatchTokens(q) \in Nat
      /\ PromptTokens(q) \in Nat /\ PrefilledTokens(q) \in Nat /\ Chunk(q) \in Nat
      /\ num_scheduled_tokens \in [Req -> Nat] /\ num_cached_tokens \in [Req -> Nat]
  BY BatchTokensType, SchedulerNumbers DEF TypeInv, TypeOK, SchedulerTypeOK
<1>2. KV!EnsureCapacity(q, BatchTokens(q)) /\ ~ PrefillComplete(q)
  BY DEF Prefill, PrefillChunk, Reserve
<1>3. /\ Len(block_table'[q]) \in Nat
      /\ KV!PagesRequired(BatchTokens(q)) <= Len(block_table'[q])
      /\ KV!PagesRequired(BatchTokens(q)) \in Nat
  BY <1>1, <1>2, GrownTable, PagesFacts
<1>4. PrefilledTokens(q)' = PrefilledTokens(q) + Chunk(q) /\ PromptTokens(q)' = PromptTokens(q)
  <2>1. /\ num_scheduled_tokens' = [num_scheduled_tokens EXCEPT
                                      ![q] = num_scheduled_tokens[q] + Chunk(q)]
        /\ UNCHANGED <<input_ids, num_cached_tokens>>
    BY DEF Prefill, PrefillChunk
  <2>2. num_scheduled_tokens'[q] = num_scheduled_tokens[q] + Chunk(q)
    BY <1>1, <2>1
  <2> QED
    BY <1>1, <2>1, <2>2 DEF PrefilledTokens, PromptTokens
<1>5. PromptTokens(q) <= BatchTokens(q)
  BY <1>1, <1>2, <1>4 DEF PrefillComplete, BatchTokens
<1>6. BatchTokens(q) <= KV!PagesRequired(BatchTokens(q)) * PageSize
  BY <1>1, PagesCover
<1>7. KV!PagesRequired(BatchTokens(q)) * PageSize <= Len(block_table'[q]) * PageSize
  BY <1>3, MorePagesMoreRoom
<1>8. KV!PagesRequired(BatchTokens(q)) * PageSize \in Nat /\ Len(block_table'[q]) * PageSize \in Nat
  BY <1>3, RuntimeAssumption
<1> QED
  BY <1>1, <1>5, <1>6, <1>7, <1>8 DEF PromptTokens

LEMMA InsertFits ==
  ASSUME TypeInv, TypeInv', KV!Pool!PoolConsistent, UsesPagedKV, AllPinned, EntriesRoomy,
         HandlesStart, PrefixHitFits, NEW r \in Req, NEW q \in Req,
         Turn(r), Prefill(r, q), IsNext(q), InsertStep(q), PrefillComplete(q)',
         \A t \in Req : Prefix!IsPrefixOf(block_table[t], block_table'[t])
  PROVE  EntriesRoomy' /\ HandlesStart' /\ PrefixHitFits'
<1> DEFINE fresh == Len(entry) + 1
<1>1. /\ PrefixTypeOK /\ input_ids \in [Req -> Seq(Word)] /\ status \in [Req -> Status]
      /\ num_cached_tokens \in [Req -> Nat]
      /\ block_table \in [Req -> Seq(KV!Pool!Page)]
      /\ block_table' \in [Req -> Seq(KV!Pool!Page)]
  BY DEF TypeInv, TypeOK, SchedulerTypeOK, KVTypeOK
<1>2. /\ Len(entry) \in Nat /\ Len(entry') = fresh
      /\ \A h \in Prefix!Handle : EntryKept(h)
      /\ entry'[fresh].token_ids = input_ids[q]
      /\ entry'[fresh].pages = block_table'[q]
  BY <1>1, InsertAdds DEF InsertStep
<1>3. UNCHANGED <<input_ids, num_cached_tokens>> /\ status' = [status EXCEPT ![q] = "running"]
  BY DEF Prefill, PrefillChunk
<1>4. cache_handle' = [cache_handle EXCEPT ![q] = fresh] /\ cache_handle[q] = Prefix!NoEntry
  BY <1>2 DEF InsertStep
<1>5. EntriesRoomy'
  <2>1. Prefix!Handle' = Prefix!Handle \cup {fresh}
    BY <1>2 DEF Prefix!Handle
  <2>2. Len(entry'[fresh].token_ids) <= Len(entry'[fresh].pages) * PageSize
    BY <1>2, PublishedRoomy
  <2>3. ASSUME NEW h \in Prefix!Handle
        PROVE  Len(entry'[h].token_ids) <= Len(entry'[h].pages) * PageSize
    BY <1>2, <2>3 DEF EntryKept, EntriesRoomy
  <2> HIDE DEF fresh
  <2> QED
    BY <2>1, <2>2, <2>3 DEF EntriesRoomy
<1>6. HandlesStart'
  <2>1. fresh # Prefix!NoEntry
    BY <1>2 DEF Prefix!NoEntry
  <2>2. q \in Live
    BY DEF IsNext
  <2> HIDE DEF fresh
  <2>3. ASSUME NEW t \in Req
        PROVE  /\ ~ Added(t)' => cache_handle'[t] = Prefix!NoEntry
               /\ cache_handle'[t] = Prefix!NoEntry => num_cached_tokens'[t] = 0
    <3>1. CASE t = q
      BY <1>1, <1>3, <1>4, <2>1, <3>1 DEF Added, PrefixTypeOK
    <3>2. CASE t # q
      BY <1>1, <1>3, <1>4, <3>2 DEF Added, PrefixTypeOK, HandlesStart
    <3> QED
      BY <3>1, <3>2
  <2> QED
    BY <2>3 DEF HandlesStart, Prefix!NoEntry
<1>7. ASSUME NEW t \in Req PROVE HitFits(t)'
  <2>1. CASE t = q
    <3>1. cache_handle'[q] = fresh
      BY <1>1, <1>4 DEF PrefixTypeOK
    <3>2. Prefix!IsPrefixOf(input_ids[q], input_ids[q])
      BY <1>1, PrefixReflexive
    <3>3. Prefix!IsPrefixOf(block_table'[q], block_table'[q])
      BY <1>1, PrefixReflexive
    <3>4. num_cached_tokens[q] = 0 /\ 0 <= Len(block_table'[q]) * PageSize
      <4>1. num_cached_tokens[q] = 0
        BY <1>4 DEF HandlesStart
      <4>2. Len(block_table'[q]) \in Nat /\ PageSize \in Nat
        BY <1>1, LenProperties, RuntimeAssumption
      <4> QED
        BY <4>1, <4>2
    <3> QED
      BY <1>2, <1>3, <2>1, <3>1, <3>2, <3>3, <3>4 DEF HitFits, Prefix!IsPrefixOf
  <2>2. CASE t # q
    <3>1. cache_handle'[t] = cache_handle[t]
      BY <1>1, <1>4, <2>2 DEF PrefixTypeOK
    <3> SUFFICES ASSUME cache_handle[t] # Prefix!NoEntry PROVE HitFits(t)'
      BY <3>1 DEF HitFits, Prefix!NoEntry
    <3>2. PICK h \in Prefix!Handle : h = cache_handle[t]
      BY <1>1 DEF PrefixTypeOK
    <3>3. EntryKept(h) /\ entry[h].pages \in Seq(KV!Pool!Page)
      BY <1>1, <1>2, EntryTyped
    <3>4. Prefix!IsPrefixOf(entry[h].pages, block_table[t])
      BY <3>2 DEF PrefixHitFits
    <3>5. Prefix!IsPrefixOf(entry[h].pages, block_table'[t])
      BY <1>1, <3>3, <3>4, PrefixTransitive
    <3> QED
      BY <1>3, <3>1, <3>2, <3>3, <3>5 DEF HitFits, PrefixHitFits, EntryKept, Prefix!IsPrefixOf
  <2> QED
    BY <2>1, <2>2
<1> QED
  BY <1>5, <1>6, <1>7 DEF PrefixHitFits, HitFits, Prefix!IsPrefixOf, Prefix!NoEntry

\* Where nothing is inserted: the entry of a sequence that had one fits as
\* before.
LEMMA KeptFits ==
  ASSUME TypeInv, PrefixHitFits, SameEntries, NEW t \in Req,
         block_table' \in [Req -> Seq(KV!Pool!Page)],
         cache_handle'[t] = cache_handle[t], input_ids'[t] = input_ids[t],
         num_cached_tokens'[t] = num_cached_tokens[t],
         Prefix!IsPrefixOf(block_table[t], block_table'[t])
  PROVE  HitFits(t)'
<1>1. PrefixTypeOK /\ block_table \in [Req -> Seq(KV!Pool!Page)]
  BY DEF TypeInv, TypeOK, KVTypeOK
<1> SUFFICES ASSUME cache_handle[t] # Prefix!NoEntry PROVE HitFits(t)'
  BY DEF HitFits, Prefix!NoEntry
<1>2. PICK h \in Prefix!Handle : h = cache_handle[t]
  BY <1>1 DEF PrefixTypeOK
<1>3. EntryKept(h) /\ entry[h].pages \in Seq(KV!Pool!Page)
  BY <1>1, EntryTyped DEF SameEntries
<1>4. Prefix!IsPrefixOf(entry[h].pages, block_table[t])
  BY <1>2 DEF PrefixHitFits
<1>5. Prefix!IsPrefixOf(entry[h].pages, block_table'[t])
  BY <1>1, <1>3, <1>4, PrefixTransitive
<1> QED
  BY <1>2, <1>3, <1>5 DEF HitFits, PrefixHitFits, EntryKept, Prefix!IsPrefixOf

LEMMA RoomyKept == EntriesRoomy /\ SameEntries => EntriesRoomy'
BY DEF EntriesRoomy, SameEntries, EntryKept, Prefix!Handle

LEMMA AddRequestFits ==
  ASSUME TypeInv, TypeInv', EntriesRoomy, HandlesStart, PrefixHitFits, NEW r \in Req, AddRequest(r)
  PROVE  HandlesStart' /\ PrefixHitFits'
<1>1. /\ PrefixTypeOK /\ PrefixTypeOK'
      /\ block_table \in [Req -> Seq(KV!Pool!Page)] /\ block_table' \in [Req -> Seq(KV!Pool!Page)]
      /\ input_ids \in [Req -> Seq(Word)] /\ status \in [Req -> Status]
      /\ num_cached_tokens \in [Req -> Nat]
  BY DEF TypeInv, TypeOK, SchedulerTypeOK, KVTypeOK
<1>2. PICK ids \in Seq(Word), hit \in Nat : AddSequence(r, ids, hit)
  BY AddRequestArrives DEF TypeInv, Arrives
<1>3. /\ status' = [status EXCEPT ![r] = "waiting"]
      /\ \A t \in Req \ {r} : /\ input_ids'[t] = input_ids[t]
                               /\ num_cached_tokens'[t] = num_cached_tokens[t]
  BY <1>1, <1>2 DEF AddSequence
<1>4. cache_handle[r] = Prefix!NoEntry
  BY DEF AddRequest, HandlesStart, Added
<1>5. SameEntries
  BY AddRequestPrefix
<1>6. \/ UNCHANGED <<cache_handle, block_table>> /\ num_cached_tokens'[r] = 0
      \/ \E h \in cached :
           /\ Prefix!IsPrefixOf(entry[h].token_ids, input_ids'[r])
           /\ num_cached_tokens'[r] = Len(entry[h].token_ids)
           /\ block_table' = [block_table EXCEPT ![r] = entry[h].pages]
           /\ cache_handle' = [cache_handle EXCEPT ![r] = h]
  BY AddRequestPrefix
<1>7. \A t \in Req \ {r} : /\ cache_handle'[t] = cache_handle[t]
                            /\ block_table'[t] = block_table[t]
  BY <1>1, <1>6 DEF PrefixTypeOK
<1>8. ASSUME NEW t \in Req \ {r} PROVE HitFits(t)'
  <2>1. Prefix!IsPrefixOf(block_table[t], block_table'[t])
    BY <1>1, <1>7, PrefixReflexive
  <2> QED
    BY <1>1, <1>3, <1>5, <1>7, <2>1, KeptFits
<1>9. /\ HitFits(r)'
      /\ cache_handle'[r] = Prefix!NoEntry => num_cached_tokens'[r] = 0
  <2>1. CASE UNCHANGED <<cache_handle, block_table>> /\ num_cached_tokens'[r] = 0
    BY <1>4, <2>1 DEF HitFits, Prefix!NoEntry
  <2>2. ASSUME NEW h \in cached,
               Prefix!IsPrefixOf(entry[h].token_ids, input_ids'[r]),
               num_cached_tokens'[r] = Len(entry[h].token_ids),
               block_table' = [block_table EXCEPT ![r] = entry[h].pages],
               cache_handle' = [cache_handle EXCEPT ![r] = h]
        PROVE  HitFits(r)' /\ cache_handle'[r] # Prefix!NoEntry
    <3>1. h \in Prefix!Handle /\ h # Prefix!NoEntry
      <4>1. entry \in Seq(Entry) /\ Len(entry) \in Nat
        BY <1>1, LenProperties DEF PrefixTypeOK
      <4> QED
        BY <1>1, <4>1 DEF PrefixTypeOK, Prefix!Handle, Prefix!NoEntry
    <3>2. EntryKept(h) /\ entry[h].pages \in Seq(KV!Pool!Page)
      BY <1>1, <1>5, <3>1, EntryTyped DEF SameEntries
    <3>3. cache_handle'[r] = h /\ block_table'[r] = entry[h].pages
      BY <1>1, <2>2 DEF PrefixTypeOK
    <3>4. Prefix!IsPrefixOf(entry[h].pages, entry[h].pages)
      BY <3>2, PrefixReflexive
    <3>5. Len(entry[h].token_ids) <= Len(entry[h].pages) * PageSize
      BY <3>1 DEF EntriesRoomy
    <3> QED
      BY <2>2, <3>1, <3>2, <3>3, <3>4, <3>5 DEF HitFits, EntryKept, Prefix!IsPrefixOf
  <2> QED
    BY <1>6, <2>1, <2>2
<1>10. HandlesStart'
  <2>1. status'[r] # "none"
    BY <1>1, <1>3
  <2>2. \A t \in Req \ {r} : status'[t] = status[t]
    BY <1>3
  <2> QED
    BY <1>3, <1>7, <1>9, <2>1, <2>2 DEF HandlesStart, Added, Prefix!NoEntry
<1> QED
  BY <1>8, <1>9, <1>10 DEF PrefixHitFits, HitFits, Prefix!IsPrefixOf, Prefix!NoEntry

\* Prompts, and what was found of them in the prefix cache, are as when the
\* request was added, and no request is taken back.
LEMMA PromptsKept ==
  ASSUME TypeInv, [Next]_vars
  PROVE  \/ \E r \in Req : AddRequest(r)
         \/ /\ UNCHANGED <<input_ids, num_cached_tokens>>
            /\ \A t \in Req : ~ Added(t)' => ~ Added(t)
<1>1. status \in [Req -> Status]
  BY DEF TypeInv, TypeOK, SchedulerTypeOK
<1>2. ASSUME NEW r \in Req, Cancel(r)
      PROVE  UNCHANGED <<input_ids, num_cached_tokens>> /\ \A t \in Req : ~ Added(t)' => ~ Added(t)
  BY <1>1, <1>2 DEF Cancel, CancelSequence, Added
<1>3. ASSUME NEW r \in Req, Turn(r)
      PROVE  UNCHANGED <<input_ids, num_cached_tokens>> /\ \A t \in Req : ~ Added(t)' => ~ Added(t)
  <2>1. PICK q \in Req : Works(q)
    BY <1>3, TurnWorks DEF TypeInv, TypeOK
  <2>2. UNCHANGED <<input_ids, num_cached_tokens>>
    BY <2>1 DEF Works, MarkRunning, PrefillChunk, DecodeTokens
  <2>3. \A t \in Req \ {q} : status'[t] = status[t]
    BY <1>1, <2>1 DEF Works, MarkRunning, PrefillChunk, DecodeTokens
  <2>4. status[q] # "none"
    BY <2>1 DEF Works, IsNext, Live
  <2>5. status'[q] # "none"
    BY <1>1, <2>1 DEF Works, MarkRunning, PrefillChunk, DecodeTokens
  <2> QED
    BY <2>2, <2>3, <2>4, <2>5 DEF Added
<1>4. ASSUME UNCHANGED schedulerVars
      PROVE  UNCHANGED <<input_ids, num_cached_tokens>> /\ \A t \in Req : ~ Added(t)' => ~ Added(t)
  BY <1>4 DEF schedulerVars, Added
<1>5. ASSUME NEW r \in Req, Yield(r) \/ Finish(r) \/ Disconnect(r) PROVE UNCHANGED schedulerVars
  BY <1>5 DEF Yield, Finish, Disconnect
<1>6. ASSUME UNCHANGED vars PROVE UNCHANGED schedulerVars
  BY <1>6 DEF vars
<1> QED
  BY <1>2, <1>3, <1>4, <1>5, <1>6 DEF Next, LoopStep, CancelById, CancelBySession

LEMMA FitsStep ==
  ASSUME TypeInv, TypeInv', KV!Pool!PoolConsistent, UsesPagedKV, AllPinned,
         EntriesRoomy, HandlesStart, PrefixHitFits, [Next]_vars
  PROVE  EntriesRoomy' /\ HandlesStart' /\ PrefixHitFits'
<1>1. ASSUME NEW r \in Req, AddRequest(r)
      PROVE  EntriesRoomy' /\ HandlesStart' /\ PrefixHitFits'
  BY <1>1, AddRequestFits, AddRequestPrefix, RoomyKept
<1>2. CASE ~ \E r \in Req : AddRequest(r)
  <2>1. /\ \A t \in Req : Prefix!IsPrefixOf(block_table[t], block_table'[t])
        /\ UNCHANGED <<input_ids, num_cached_tokens>>
        /\ \A t \in Req : ~ Added(t)' => ~ Added(t)
    BY <1>2, TablesGrow, PromptsKept
  <2>2. ASSUME NEW r \in Req, NEW q \in Req, Turn(r), Prefill(r, q), IsNext(q), InsertStep(q)
        PROVE  EntriesRoomy' /\ HandlesStart' /\ PrefixHitFits'
    <3>1. PrefillComplete(q)'
      <4>1. PrefixTypeOK
        BY DEF TypeInv, TypeOK
      <4>2. cache_handle' # cache_handle
        <5>1. Len(entry') = Len(entry) + 1 /\ Len(entry) \in Nat
          BY <2>2, <4>1, LenProperties, AppendProperties
             DEF InsertStep, Prefix!Insert, Prefix!Extended, PrefixTypeOK
        <5>2. Len(entry') # Prefix!NoEntry
          BY <5>1 DEF Prefix!NoEntry
        <5> QED
          BY <2>2, <4>1, <5>2 DEF InsertStep, PrefixTypeOK
      <4> QED
        BY <2>2, <4>2 DEF Prefill
    <3> QED
      BY <2>1, <2>2, <3>1, InsertFits
  <2>3. CASE SameEntries /\ UNCHANGED cache_handle
    <3>1. block_table' \in [Req -> Seq(KV!Pool!Page)]
      BY DEF TypeInv, TypeOK, KVTypeOK
    <3>2. \A t \in Req : HitFits(t)'
      BY <2>1, <2>3, <3>1, KeptFits
    <3>3. HandlesStart'
      BY <2>1, <2>3 DEF HandlesStart, Prefix!NoEntry
    <3> QED
      BY <2>3, <3>2, <3>3, RoomyKept
         DEF PrefixHitFits, HitFits, Prefix!IsPrefixOf, Prefix!NoEntry
  <2> QED
    BY <1>2, <2>2, <2>3, PrefixSteps
<1> QED
  BY <1>1, <1>2

\* A sequence that starts from a prefix cache hit skips only prompt tokens that
\* the entry really has, and its block table begins with the entry's pages,
\* which have room for them; growth, failures and other sequences' inserts do
\* not take that away.
THEOREM PrefixHitsFit ==
  ASSUME UsesPagedKV PROVE Spec => []PrefixHitFits
<1> DEFINE Inv == /\ TypeInv /\ KV!Pool!PoolConsistent /\ AllPinned
                  /\ UsedStays /\ EntriesRoomy /\ HandlesStart /\ PrefixHitFits
<1>1. Init => Inv
  <2> SUFFICES ASSUME Init PROVE Inv
    OBVIOUS
  <2>1. Prefix!Handle = {}
    BY EmptySeq DEF Init, Prefix!PCInit, Prefix!Handle
  <2>2. \A r \in Req : /\ cache_handle[r] = Prefix!NoEntry /\ num_cached_tokens[r] = 0
    BY DEF Init, SchedulerInit
  <2> QED
    BY <2>1, <2>2, InitTypeInv, PagesInit
       DEF AllPinned, UsedStays, EntriesRoomy, HandlesStart, PrefixHitFits
<1>2. Inv /\ [Next]_vars => Inv'
  BY NextTypeInv, UsedStaysStep, TablesGrow, FitsStep
<1>3. Inv => PrefixHitFits
  OBVIOUS
<1> HIDE DEF Inv
<1> QED
  BY <1>1, <1>2, <1>3, PTL DEF Spec

-----------------------------------------------------------------------------
(* A pool that runs dry *)

\* Only finitely many requests have been sent, so that the pages they can come
\* to need can be counted.
FinitelySent == IsFiniteSet({r \in Req : Added(r)})

LEMMA FinitelySentStep ==
  ASSUME TypeInv, FinitelySent, [Next]_vars
  PROVE  FinitelySent'
<1>1. SchedulerNext /\ status \in [Req -> Status]
  BY SchedulerSteps DEF TypeInv, TypeOK, SchedulerTypeOK
<1>2. PICK r : {t \in Req : Added(t)}' \subseteq {t \in Req : Added(t)} \cup {r}
  <2>1. CASE \E r \in Req : Arrives(r)
    <3>1. PICK r \in Req : Arrives(r)
      BY <2>1
    <3>2. status' = [status EXCEPT ![r] = "waiting"]
      BY <3>1 DEF Arrives, AddSequence
    <3>3. {t \in Req : Added(t)}' \subseteq {t \in Req : Added(t)} \cup {r}
      BY <1>1, <3>2 DEF Added
    <3> QED
      BY <3>3
  <2>2. ASSUME NEW q \in Req, CancelSequence(q) \/ Works(q)
        PROVE  {t \in Req : Added(t)}' \subseteq {t \in Req : Added(t)} \cup {q}
    <3>1. \A t \in Req \ {q} : status'[t] = status[t]
      BY <1>1, <2>2 DEF CancelSequence, Works, MarkRunning, PrefillChunk, DecodeTokens
    <3> QED
      BY <3>1 DEF Added
  <2>3. CASE UNCHANGED schedulerVars
    BY <2>3 DEF schedulerVars, Added
  <2> QED
    BY <1>1, <2>1, <2>2, <2>3 DEF SchedulerNext
<1> DEFINE before == {t \in Req : Added(t)}
           after == {t \in Req : Added(t)}'
<1>3. IsFiniteSet(before) /\ after \subseteq before \cup {r}
  BY <1>2 DEF FinitelySent
<1> HIDE DEF before, after
<1>4. IsFiniteSet(before \cup {r})
  BY <1>3, FS_AddElement
<1>5. IsFiniteSet(after)
  BY <1>3, <1>4, FS_Subset
<1> QED
  BY <1>5 DEF after, FinitelySent

LEMMA NeedType == ASSUME TypeOK, NEW r \in Req PROVE Need(r) \in Nat
<1>1. PromptTokens(r) + MaxNewTokens[r] \in Nat
  BY SchedulerNumbers, SchedulerAssumption DEF TypeOK
<1> QED
  BY <1>1, PagesFacts DEF Need

LEMMA NeededIsFinite ==
  ASSUME TypeOK, FinitelySent
  PROVE  IsFiniteSet(PagesNeeded)
<1> DEFINE sent == {t \in Req : Added(t)}
           places == {{r} \X (1 .. Need(r)) : r \in sent}
<1>1. IsFiniteSet(sent)
  BY DEF FinitelySent
<1>2. ASSUME NEW T \in places PROVE IsFiniteSet(T)
  <2>1. PICK r \in Req : T = {r} \X (1 .. Need(r))
    OBVIOUS
  <2>2. IsFiniteSet({r})
    BY FS_Singleton
  <2>3. IsFiniteSet(1 .. Need(r))
    BY NeedType, FS_Interval
  <2> QED
    BY <2>1, <2>2, <2>3, FS_Product
<1>3. IsFiniteSet(places)
  <2> DEFINE Place(r) == {r} \X (1 .. Need(r))
             f == [r \in sent |-> Place(r)]
  <2>1. f \in [sent -> places]
    OBVIOUS
  <2>2. \A T \in places : \E r \in sent : f[r] = T
    OBVIOUS
  <2> HIDE DEF f, places, sent
  <2>3. f \in Surjection(sent, places)
    BY <2>1, <2>2 DEF Surjection
  <2> QED
    BY <1>1, <2>3, FS_Surjection
<1> HIDE DEF places
<1>4. IsFiniteSet(UNION places)
  BY <1>2, <1>3, FS_UNION
<1> QED
  BY <1>4 DEF places, PagesNeeded

LEMMA NeededStaysFinite == (TypeOK /\ FinitelySent)' => IsFiniteSet(PagesNeeded')
<1>1. TypeOK /\ FinitelySent => IsFiniteSet(PagesNeeded)
  BY NeededIsFinite
<1>2. (TypeOK /\ FinitelySent)' => IsFiniteSet(PagesNeeded)'
  BY <1>1, PTL
<1> QED
  BY <1>2

\* When the pages that a batch misses are more than the pool has left, every
\* page of the pool can be matched with a place in the block tables that is
\* needed, and there is a place more.
LEMMA Overdrawn ==
  ASSUME TypeInv, FinitelySent, KV!Pool!PoolConsistent, PagesExclusive, TablesInv,
         NEW q \in Live, NEW count \in Reach(q), ~ KV!Fits(q, count)
  PROVE  Cardinality(PagesNeeded) > NumPages
<1>1. /\ q \in Req /\ Added(q) /\ TypeOK /\ NumPages \in Nat
      /\ \A r \in Req : Len(block_table[r]) \in Nat /\ block_table[r] \in Seq(KV!Pool!Page)
      /\ \A r \in Req : Need(r) \in Nat
      /\ Len(free_pages) \in Nat /\ free_pages \in Seq(KV!Pool!Page)
  BY RuntimeAssumption, LenProperties, NeedType
     DEF Live, Added, TypeInv, TypeOK, KVTypeOK, KV!Pool!TypeOK
<1>2. PICK have \in Nat, left \in Nat : have = Len(block_table[q]) /\ left = Len(free_pages)
  BY <1>1
<1>3. Need(q) > have + left
  <2>1. count \in Nat /\ count <= PromptTokens(q) + MaxNewTokens[q]
    BY CountsFit
  <2>2. PromptTokens(q) + MaxNewTokens[q] \in Nat
    BY <1>1, SchedulerNumbers, SchedulerAssumption DEF TypeOK
  <2>3. KV!PagesRequired(count) \in Nat /\ KV!PagesRequired(count) <= Need(q)
    BY <2>1, <2>2, PagesFacts DEF Need
  <2>4. ~ (KV!PagesRequired(count) - have <= left)
    BY <1>2 DEF KV!Fits, KV!Missing
  <2> QED
    BY <1>1, <2>3, <2>4
<1>4. ASSUME NEW r \in Req, NEW i \in 1 .. Len(block_table[r]) PROVE <<r, i>> \in PagesNeeded
  <2>1. Len(block_table[r]) <= Need(r) /\ Len(block_table[r]) > 0
    BY <1>1 DEF TablesInv, TablesFit
  <2>2. Added(r)
    BY <2>1, EmptySeq DEF TablesInv
  <2>3. i \in 1 .. Need(r)
    BY <1>1, <2>1
  <2> QED
    BY <2>2, <2>3 DEF PagesNeeded
<1>5. ASSUME NEW j \in 1 .. left + 1 PROVE <<q, have + j>> \in PagesNeeded
  <2>1. have + j \in 1 .. Need(q)
    BY <1>1, <1>3
  <2> QED
    BY <1>1, <2>1 DEF PagesNeeded
<1> DEFINE PageAt(r, i) ==
             IF i <= Len(block_table[r]) THEN block_table[r][i]
             ELSE IF r = q /\ i - have <= left THEN free_pages[i - have]
             ELSE NumPages
           f == [x \in PagesNeeded |-> PageAt(x[1], x[2])]
<1>6. ASSUME NEW x \in PagesNeeded PROVE f[x] \in 0 .. NumPages
  <2> PICK r \in Req : \E i \in 1 .. Need(r) : x = <<r, i>>
    BY DEF PagesNeeded
  <2>1. PICK i \in 1 .. Need(r) : x = <<r, i>>
    OBVIOUS
  <2>2. f[x] = PageAt(r, i)
    BY <2>1
  <2>3. KV!Pool!Page \subseteq 0 .. NumPages /\ NumPages \in 0 .. NumPages
    BY <1>1 DEF KV!Pool!Page
  <2>4. CASE i <= Len(block_table[r])
    <3>1. i \in 1 .. Len(block_table[r])
      BY <1>1, <2>4
    <3>2. block_table[r][i] \in KV!Pool!Page
      BY <1>1, <3>1, ElementOfSeq
    <3> QED
      BY <2>2, <2>3, <2>4, <3>2
  <2>5. CASE ~ (i <= Len(block_table[r])) /\ r = q /\ i - have <= left
    <3>1. i - have \in 1 .. Len(free_pages)
      BY <1>1, <1>2, <2>5
    <3>2. free_pages[i - have] \in KV!Pool!Page
      BY <1>1, <3>1, ElementOfSeq
    <3> QED
      BY <2>2, <2>3, <2>5, <3>2
  <2>6. CASE ~ (i <= Len(block_table[r])) /\ ~ (r = q /\ i - have <= left)
    BY <2>2, <2>3, <2>6
  <2> QED
    BY <2>4, <2>5, <2>6
<1>7. ASSUME NEW p \in 0 .. NumPages PROVE \E x \in PagesNeeded : f[x] = p
  <2>1. CASE p = NumPages
    <3>1. PICK i \in Nat : i = have + (left + 1)
      OBVIOUS
    <3>2. <<q, i>> \in PagesNeeded
      BY <1>5, <3>1
    <3>3. ~ (i <= have) /\ ~ (i - have <= left)
      BY <3>1
    <3>4. f[<<q, i>>] = NumPages
      BY <1>2, <3>2, <3>3
    <3> QED
      BY <2>1, <3>2, <3>4
  <2>2. CASE p # NumPages
    <3>1. p \in KV!Pool!Page /\ ref_count[p] \in Nat
      BY <1>1, <2>2 DEF KV!Pool!Page, TypeOK, KVTypeOK, KV!Pool!TypeOK
    <3>2. CASE p \in used_pages
      <4>1. PICK r \in Req : \E i \in 1 .. Len(block_table[r]) : p = block_table[r][i]
        BY <3>2 DEF PagesExclusive, Elements
      <4>2. PICK i \in 1 .. Len(block_table[r]) : p = block_table[r][i]
        BY <4>1
      <4>3. <<r, i>> \in PagesNeeded /\ i <= Len(block_table[r])
        BY <1>4, <1>1
      <4>4. f[<<r, i>>] = p
        BY <4>2, <4>3
      <4> QED
        BY <4>3, <4>4
    <3>3. CASE p \notin used_pages
      <4>1. p \in KV!Pool!Elements(free_pages)
        BY <3>1, <3>3 DEF KV!Pool!PoolConsistent
      <4>2. PICK j \in 1 .. left : p = free_pages[j]
        BY <1>2, <4>1 DEF KV!Pool!Elements
      <4>3. <<q, have + j>> \in PagesNeeded
        BY <1>5
      <4>4. ~ (have + j <= have) /\ have + j - have = j /\ j <= left
        OBVIOUS
      <4>5. f[<<q, have + j>>] = p
        BY <1>2, <4>2, <4>3, <4>4
      <4> QED
        BY <4>3, <4>5
    <3> QED
      BY <3>2, <3>3
  <2> QED
    BY <2>1, <2>2
<1> DEFINE needed == PagesNeeded
<1>8. f \in Surjection(needed, 0 .. NumPages)
  BY <1>6, <1>7, Zenon DEF Surjection
<1>9. IsFiniteSet(needed)
  BY <1>1, NeededIsFinite
<1> HIDE DEF f, needed
<1>10. Cardinality(0 .. NumPages) <= Cardinality(needed) /\ Cardinality(needed) \in Nat
  BY <1>8, <1>9, FS_Surjection, FS_CardinalityType
<1>11. Cardinality(0 .. NumPages) = NumPages + 1
  BY <1>1, FS_Interval
<1>12. Cardinality(needed) > NumPages
  BY <1>1, <1>10, <1>11
<1> QED
  BY <1>12 DEF needed

\* What has been sent only grows, and with it what can be needed.
LEMMA NeededGrows ==
  ASSUME TypeInv, [Next]_vars
  PROVE  PagesNeeded \subseteq PagesNeeded'
<1>1. SchedulerNext
  BY SchedulerSteps DEF TypeInv
<1>2. status \in [Req -> Status] /\ input_ids \in [Req -> Seq(Word)]
  BY DEF TypeInv, TypeOK, SchedulerTypeOK
<1>3. ASSUME NEW r \in Req, Added(r)
      PROVE  Added(r)' /\ input_ids'[r] = input_ids[r]
  <2>1. ASSUME NEW t \in Req, Arrives(t) PROVE Added(r)' /\ input_ids'[r] = input_ids[r]
    BY <1>2, <1>3, <2>1 DEF Arrives, AddSequence, Added
  <2>2. ASSUME NEW q \in Req, CancelSequence(q) \/ Works(q)
        PROVE  Added(r)' /\ input_ids'[r] = input_ids[r]
    BY <1>2, <1>3, <2>2 DEF CancelSequence, Works, MarkRunning, PrefillChunk, DecodeTokens, Added
  <2>3. CASE UNCHANGED schedulerVars
    BY <1>3, <2>3 DEF schedulerVars, Added
  <2> QED
    BY <1>1, <2>1, <2>2, <2>3 DEF SchedulerNext
<1>4. \A r \in Req : Added(r) => Need(r)' = Need(r)
  BY <1>3 DEF Need, PromptTokens, KV!PagesRequired
<1> QED
  BY <1>3, <1>4 DEF PagesNeeded

LEMMA OverdraftStep ==
  ASSUME TypeInv, FinitelySent, KV!Pool!PoolConsistent, PagesExclusive, TablesInv,
         FailureMeansOverdraft, ~ ExecutorMayRaise, [Next]_vars
  PROVE  FailureMeansOverdraft'
<1>1. SUFFICES ASSUME NEW r \in Req, loop'[r] = "failed"
               PROVE  Cardinality(PagesNeeded') > NumPages
  BY DEF FailureMeansOverdraft
<1>2. loop \in [Req -> LoopState]
  BY DEF TypeInv, TypeOK, ReplyTypeOK
<1>3. Cardinality(PagesNeeded) > NumPages
  <2>1. CASE loop[r] = "failed"
    BY <2>1 DEF FailureMeansOverdraft
  <2>2. CASE loop[r] # "failed"
    <3>1. PICK x \in Req, q \in Live : Fail(x, q)
      <4>1. ASSUME NEW x \in Req, AddRequest(x) PROVE FALSE
        BY <1>1, <1>2, <2>2, <4>1 DEF AddRequest
      <4>2. ASSUME NEW x \in Req, Cancel(x) \/ Finish(x) \/ Yield(x) \/ Disconnect(x) PROVE FALSE
        BY <1>1, <1>2, <2>2, <4>2 DEF Cancel, Finish, Yield, Disconnect
      <4>3. ASSUME UNCHANGED vars PROVE FALSE
        BY <1>1, <2>2, <4>3 DEF vars, loopVars
      <4>4. ASSUME NEW x \in Req, Turn(x) PROVE \E q \in Live : Fail(x, q)
        <5>1. PICK q \in Req : q \in Live /\ (Prefill(x, q) \/ Decode(x, q) \/ Fail(x, q))
          BY <4>4 DEF Turn, Drives, IsNext
        <5>2. ~ Prefill(x, q) /\ ~ Decode(x, q)
          BY <1>1, <1>2, <2>2 DEF Prefill, Decode, Deliver
        <5> QED
          BY <5>1, <5>2
      <4> QED
        BY <4>1, <4>2, <4>3, <4>4 DEF Next, LoopStep, CancelById, CancelBySession
    <3>2. PICK count \in Reach(q) : ~ KV!Fits(q, count)
      BY <3>1 DEF Fail, Reach
    <3> QED
      BY <3>2, Overdrawn
  <2> QED
    BY <2>1, <2>2
<1>4. IsFiniteSet(PagesNeeded')
  <2>1. TypeOK' /\ FinitelySent'
    BY NextTypeInv, FinitelySentStep DEF TypeInv
  <2> QED
    BY <2>1, NeededStaysFinite
<1>5. PagesNeeded \subseteq PagesNeeded'
  BY NeededGrows
<1> DEFINE before == PagesNeeded
           after == PagesNeeded'
<1> HIDE DEF before, after
<1>6. IsFiniteSet(after) /\ before \subseteq after /\ Cardinality(before) > NumPages
  BY <1>3, <1>4, <1>5 DEF before, after
<1>7. /\ Cardinality(before) <= Cardinality(after)
      /\ Cardinality(before) \in Nat /\ Cardinality(after) \in Nat
  BY <1>6, FS_Subset, FS_CardinalityType
<1>8. Cardinality(after) > NumPages
  BY <1>6, <1>7, RuntimeAssumption
<1> QED
  BY <1>8 DEF after

\* Without the paged cache there is no pool to run dry.
LEMMA NeverFails ==
  ASSUME ~ UsesPagedKV, ~ ExecutorMayRaise, TypeInv, \A r \in Req : loop[r] # "failed",
         [Next]_vars
  PROVE  \A r \in Req : loop'[r] # "failed"
<1>1. loop \in [Req -> LoopState]
  BY DEF TypeInv, TypeOK, ReplyTypeOK
<1>2. ASSUME NEW x \in Req, NEW q \in Req PROVE ~ Fail(x, q)
  BY DEF Fail
<1>3. ASSUME NEW r \in Req, AddRequest(r) \/ Cancel(r) \/ Finish(r) \/ Yield(r) \/ Disconnect(r)
      PROVE  loop' = loop \/ \E new \in LoopState \ {"failed"} : loop' = [loop EXCEPT ![r] = new]
  BY <1>3 DEF AddRequest, Cancel, Finish, Yield, Disconnect, LoopState
<1>4. ASSUME NEW r \in Req, Turn(r)
      PROVE  loop' = loop \/ loop' = [loop EXCEPT ![r] = "yielding"]
  BY <1>2, <1>4 DEF Turn, Prefill, Decode, Deliver
<1>5. ASSUME UNCHANGED vars PROVE loop' = loop
  BY <1>5 DEF vars, loopVars
<1>6. ASSUME NEW r \in Req, NEW new \in LoopState \ {"failed"}, loop' = [loop EXCEPT ![r] = new]
      PROVE  \A t \in Req : loop'[t] # "failed"
  BY <1>1, <1>6
<1>7. "yielding" \in LoopState \ {"failed"}
  BY DEF LoopState
<1> QED
  BY <1>3, <1>4, <1>5, <1>6, <1>7 DEF Next, LoopStep, CancelById, CancelBySession

\* When the executor itself never raises, a stream fails only if the requests
\* sent so far, ended ones included, need more pages than there are: no page
\* is lost to a cancel, a failed batch or a rejected draft.
THEOREM FailuresAreOverdrafts ==
  ASSUME ~ ExecutorMayRaise, ~ SupportsPrefixCache
  PROVE  Spec => []FailureMeansOverdraft
<1>1. CASE UsesPagedKV
  <2> DEFINE Inv == /\ TypeInv /\ FinitelySent
                    /\ KV!Pool!PoolConsistent /\ PagesExclusive /\ TablesInv
                    /\ FailureMeansOverdraft
  <2>1. Init => Inv
    <3> SUFFICES ASSUME Init PROVE FinitelySent /\ FailureMeansOverdraft
      BY InitTypeInv, PagesInit, TablesInit
    <3>1. {r \in Req : Added(r)} = {} /\ \A r \in Req : loop[r] # "failed"
      BY DEF Init, SchedulerInit, Added
    <3> QED
      BY <3>1, FS_EmptySet DEF FinitelySent, FailureMeansOverdraft
  <2>2. Inv /\ [Next]_vars => Inv'
    BY <1>1, NextTypeInv, FinitelySentStep, PagesStep, TablesStep, OverdraftStep
  <2>3. Inv => FailureMeansOverdraft
    OBVIOUS
  <2> HIDE DEF Inv
  <2> QED
    BY <2>1, <2>2, <2>3, PTL DEF Spec
<1>2. CASE ~ UsesPagedKV
  <2> DEFINE Inv == TypeInv /\ \A r \in Req : loop[r] # "failed"
  <2>1. Init => Inv
    <3> SUFFICES ASSUME Init PROVE \A r \in Req : loop[r] # "failed"
      BY InitTypeInv
    <3> QED
      BY DEF Init
  <2>2. Inv /\ [Next]_vars => Inv'
    BY <1>2, NextTypeInv, NeverFails
  <2>3. Inv => FailureMeansOverdraft
    BY DEF FailureMeansOverdraft
  <2> HIDE DEF Inv
  <2> QED
    BY <2>1, <2>2, <2>3, PTL DEF Spec
<1> QED
  BY <1>1, <1>2
=============================================================================
