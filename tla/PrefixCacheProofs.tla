-------------------------- MODULE PrefixCacheProofs --------------------------
(***************************************************************************)
(* What PrefixCacheClients.tla states of the prefix cache, for any number  *)
(* of clients, any token sequences and every capacity.  The inductive      *)
(* invariant is that the reference count of an entry object, in the dict   *)
(* or replaced, is the number of clients that hold it.                     *)
(***************************************************************************)
EXTENDS PrefixCacheClients, FiniteSetTheorems, SequenceTheorems, TLAPS

Entry == [token_ids : Seq(Int), pages : {<<>>}, ref_count : Nat, pinned : BOOLEAN]

TypeInv ==
  /\ entry \in Seq(Entry)
  /\ cached \subseteq Handle
  /\ holding \in [Client -> Handle \cup {NoEntry}]

Inv == TypeInv /\ RefsCountHolders

-----------------------------------------------------------------------------
(* Types *)

\* The elements of a sequence are typed, and appending keeps them.
LEMMA EntryFacts ==
  ASSUME entry \in Seq(Entry)
  PROVE  /\ Len(entry) \in Nat
         /\ Handle = 1 .. Len(entry)
         /\ \A h \in Handle : entry[h] \in Entry
         /\ NoEntry \notin Handle
BY LenProperties, ElementOfSeq DEF Handle, NoEntry

\* A finite set of handles: everything in the dict.
LEMMA CachedFinite ==
  ASSUME TypeInv, NEW S, S \subseteq 1 .. Len(entry) + 1
  PROVE  IsFiniteSet(S) /\ Cardinality(S) \in Nat
<1>1. Len(entry) \in Nat
  BY EntryFacts DEF TypeInv
<1>2. IsFiniteSet(1 .. Len(entry) + 1)
  BY <1>1, FS_Interval
<1> QED
  BY <1>2, FS_Subset, FS_CardinalityType

\* insert leaves the other entries as they are and adds one without references.
LEMMA ExtendedFacts ==
  ASSUME entry \in Seq(Entry), NEW tokens \in Seq(Int), NEW pinned \in BOOLEAN
  PROVE  LET new == Extended(tokens, <<>>, pinned)
         IN  /\ new \in Seq(Entry)
             /\ Len(new) = Len(entry) + 1
             /\ \A h \in Handle : new[h] = entry[h]
             /\ new[Len(entry) + 1].token_ids = tokens
             /\ new[Len(entry) + 1].ref_count = 0
             /\ new[Len(entry) + 1].pinned = pinned
<1> DEFINE e == [token_ids |-> tokens, pages |-> <<>>, ref_count |-> 0, pinned |-> pinned]
<1>1. e \in Entry
  BY DEF Entry
<1> QED
  BY <1>1, AppendProperties, EntryFacts DEF Extended

\* Changing the reference count of one entry leaves everything else.
LEMMA CountSet ==
  ASSUME entry \in Seq(Entry), NEW h \in Handle, NEW n \in Nat,
         entry' = [entry EXCEPT ![h].ref_count = n]
  PROVE  /\ entry' \in Seq(Entry)
         /\ Handle' = Handle
         /\ \A g \in Handle : /\ entry'[g].token_ids = entry[g].token_ids
                              /\ entry'[g].ref_count = IF g = h THEN n ELSE entry[g].ref_count
<1> DEFINE e == [entry[h] EXCEPT !.ref_count = n]
<1>1. entry[h] \in Entry /\ h \in 1 .. Len(entry)
  BY EntryFacts
<1>2. e \in Entry /\ e.ref_count = n /\ e.token_ids = entry[h].token_ids
  BY <1>1 DEF Entry
<1>3. entry' = [entry EXCEPT ![h] = e]
  OBVIOUS
<1> HIDE DEF e
<1>4. /\ entry' \in Seq(Entry)
      /\ Len(entry') = Len(entry)
      /\ \A g \in 1 .. Len(entry) : entry'[g] = IF g = h THEN e ELSE entry[g]
  BY <1>1, <1>2, <1>3, ExceptSeq
<1> QED
  BY <1>2, <1>4 DEF Handle

-----------------------------------------------------------------------------
(* Eviction *)

\* What is evicted is idle.
LEMMA OnlyIdleLeave ==
  ASSUME NEW remaining, NEW entries, NEW handles, NEW order, NEW count,
         EvictedFrom(remaining, entries, handles, order, count)
  PROVE  /\ remaining \subseteq handles
         /\ \A h \in handles \ remaining : h \in Evictable(entries, handles)
BY DEF EvictedFrom

\* If more entries stay than the eviction was asked to leave, none is idle.
LEMMA OverfullIsBusy ==
  ASSUME NEW remaining, NEW entries, NEW handles, NEW order, NEW limit \in Nat,
         IsFiniteSet(handles),
         EvictedFrom(remaining, entries, handles, order, Cardinality(handles) - limit),
         Cardinality(remaining) > limit
  PROVE  \A h \in remaining : h \notin Evictable(entries, handles)
<1> DEFINE idle == Evictable(entries, handles)
<1>1. PICK removed \in SUBSET idle :
        /\ Oldest(removed, idle, order, Cardinality(handles) - limit)
        /\ remaining = handles \ removed
  BY DEF EvictedFrom
<1>2. removed \subseteq handles
  BY DEF Evictable
<1>3. /\ Cardinality(handles) \in Nat
      /\ IsFiniteSet(removed)
      /\ Cardinality(removed) \in Nat
  BY <1>2, FS_Subset, FS_CardinalityType
<1>4. handles \cap removed = removed
  BY <1>2
<1>5. Cardinality(remaining) = Cardinality(handles) - Cardinality(removed)
  BY <1>1, <1>4, FS_Difference
<1>6. ~ (Cardinality(removed) >= Cardinality(handles) - limit)
  BY <1>3, <1>5
<1>7. removed = idle
  BY <1>1, <1>6 DEF Oldest
<1> QED
  BY <1>1, <1>7

-----------------------------------------------------------------------------
(* The reference counts *)

LEMMA ClientsFinite ==
  \A h : IsFiniteSet(Holders(h)) /\ Cardinality(Holders(h)) \in Nat
<1>1. \A h : Holders(h) \subseteq Client
  BY DEF Holders
<1> QED
  BY <1>1, FS_Subset, FS_CardinalityType, ClientsAssumption

\* An entry that a client holds has a reference.
LEMMA HeldHasReference ==
  ASSUME RefsCountHolders, NEW h \in Handle, NEW c \in Client, holding[c] = h
  PROVE  entry[h].ref_count # 0
<1>1. c \in Holders(h)
  BY DEF Holders
<1>2. Cardinality(Holders(h)) # 0
  BY <1>1, ClientsFinite, FS_EmptySet
<1> QED
  BY <1>2 DEF RefsCountHolders

\* An entry with a reference is held by some client.
LEMMA ReferenceIsHeld ==
  ASSUME RefsCountHolders, NEW h \in Handle, entry[h].ref_count # 0
  PROVE  \E c \in Client : holding[c] = h
<1>1. Holders(h) # {}
  BY FS_EmptySet DEF RefsCountHolders
<1> QED
  BY <1>1 DEF Holders

-----------------------------------------------------------------------------
(* The steps *)

LEMMA LookupInv ==
  ASSUME Inv, NEW c \in Client, NEW tokens, Lookup(c, tokens)
  PROVE  Inv'
<1>1. PICK h \in Handle : /\ IsMatch(h, tokens)
                          /\ Hit(h)
                          /\ holding' = [holding EXCEPT ![c] = h]
  BY DEF Lookup
<1>2. entry' = [entry EXCEPT ![h].ref_count = @ + 1]
  BY <1>1 DEF Hit
<1>3. /\ Handle' = Handle
      /\ entry' \in Seq(Entry)
      /\ \A g \in Handle : /\ entry'[g].token_ids = entry[g].token_ids
                           /\ entry'[g].ref_count =
                                IF g = h THEN entry[h].ref_count + 1 ELSE entry[g].ref_count
  <2>1. entry[h].ref_count \in Nat
    BY EntryFacts DEF Inv, TypeInv, Entry
  <2>2. entry[h].ref_count + 1 \in Nat
    BY <2>1
  <2>3. entry' = [entry EXCEPT ![h].ref_count = entry[h].ref_count + 1]
    BY <1>2
  <2> QED
    BY <2>2, <2>3, CountSet DEF Inv, TypeInv
<1>4. TypeInv'
  BY <1>1, <1>3 DEF Inv, TypeInv, Hit
<1>6. RefsCountHolders'
  <2> SUFFICES ASSUME NEW g \in Handle PROVE entry'[g].ref_count = Cardinality(Holders(g)')
    BY <1>3 DEF RefsCountHolders
  <2>1. CASE g = h
    <3>1. Holders(h)' = Holders(h) \cup {c} /\ c \notin Holders(h)
      BY <1>1, EntryFacts DEF Holders, Lookup, Inv, TypeInv
    <3>2. Cardinality(Holders(h)') = Cardinality(Holders(h)) + 1
      BY <3>1, ClientsFinite, FS_AddElement
    <3> QED
      BY <2>1, <3>2, <1>3 DEF Inv, RefsCountHolders
  <2>2. CASE g # h
    <3>1. Holders(g)' = Holders(g)
      BY <2>2, <1>1, EntryFacts DEF Holders, Lookup, Inv, TypeInv
    <3> QED
      BY <2>2, <3>1, <1>3 DEF Inv, RefsCountHolders
  <2> QED
    BY <2>1, <2>2
<1> QED
  BY <1>4, <1>6 DEF Inv

LEMMA ReleaseInv ==
  ASSUME Inv, NEW c \in Client, Release(c)
  PROVE  Inv'
<1>1. PICK h \in Handle :
      /\ h = holding[c]
      /\ holding' = [holding EXCEPT ![c] = NoEntry]
      /\ entry' = [entry EXCEPT ![h].ref_count = IF @ = 0 THEN 0 ELSE @ - 1]
      /\ cached' = cached
  BY DEF Release, ReleaseEntry, Inv, TypeInv
<1>2. entry[h].ref_count # 0
  BY <1>1, HeldHasReference DEF Inv
<1>3. /\ Handle' = Handle
      /\ entry' \in Seq(Entry)
      /\ \A g \in Handle : /\ entry'[g].token_ids = entry[g].token_ids
                           /\ entry'[g].ref_count =
                                IF g = h THEN entry[h].ref_count - 1 ELSE entry[g].ref_count
  <2>1. entry[h].ref_count \in Nat
    BY <1>1, EntryFacts DEF Inv, TypeInv, Entry
  <2>2. entry[h].ref_count - 1 \in Nat
    BY <1>2, <2>1
  <2>3. entry' = [entry EXCEPT ![h].ref_count = entry[h].ref_count - 1]
    BY <1>1, <1>2
  <2> QED
    BY <2>2, <2>3, CountSet DEF Inv, TypeInv
<1>4. TypeInv'
  BY <1>1, <1>3 DEF Inv, TypeInv
<1>6. RefsCountHolders'
  <2> SUFFICES ASSUME NEW g \in Handle PROVE entry'[g].ref_count = Cardinality(Holders(g)')
    BY <1>3 DEF RefsCountHolders
  <2>1. CASE g = h
    <3>1. Holders(h)' = Holders(h) \ {c} /\ c \in Holders(h)
      BY <1>1, EntryFacts DEF Holders, Inv, TypeInv
    <3>2. Cardinality(Holders(h)') = Cardinality(Holders(h)) - 1
      BY <3>1, ClientsFinite, FS_RemoveElement
    <3> QED
      BY <2>1, <3>2, <1>1, <1>3 DEF Inv, RefsCountHolders
  <2>2. CASE g # h
    <3>1. Holders(g)' = Holders(g)
      BY <2>2, <1>1, EntryFacts DEF Holders, Inv, TypeInv
    <3> QED
      BY <2>2, <3>1, <1>3 DEF Inv, RefsCountHolders
  <2> QED
    BY <2>1, <2>2
<1> QED
  BY <1>4, <1>6 DEF Inv

LEMMA PublishInv ==
  ASSUME Inv, NEW tokens \in Tokens, NEW pinned \in BOOLEAN, Publish(tokens, pinned)
  PROVE  Inv'
<1> DEFINE fresh == Len(entry) + 1
<1>1. /\ entry' = Extended(tokens, <<>>, pinned)
      /\ EvictedFrom(cached', entry', Added(tokens), recency', Overflow(tokens))
      /\ holding' = holding
  BY DEF Publish, Insert
<1>2. /\ entry' \in Seq(Entry)
      /\ Len(entry') = fresh
      /\ \A h \in Handle : entry'[h] = entry[h]
      /\ entry'[fresh].token_ids = tokens
      /\ entry'[fresh].ref_count = 0
  BY <1>1, ExtendedFacts, ClientsAssumption DEF Inv, TypeInv
<1>3. /\ Handle = 1 .. Len(entry) /\ Handle' = 1 .. fresh /\ Len(entry) \in Nat
      /\ fresh \notin Handle
  BY <1>2, EntryFacts DEF Inv, TypeInv, Handle
<1>4. cached' \subseteq {h \in cached : entry[h].token_ids # tokens} \cup {fresh}
  BY <1>1, OnlyIdleLeave DEF Added
<1> HIDE DEF fresh
<1>5. TypeInv'
  <2>1. cached' \subseteq Handle'
    BY <1>2, <1>3, <1>4 DEF Inv, TypeInv, fresh
  <2>2. holding' \in [Client -> Handle' \cup {NoEntry}]
    BY <1>1, <1>3 DEF Inv, TypeInv, fresh
  <2> QED
    BY <1>2, <2>1, <2>2 DEF TypeInv
<1>7. RefsCountHolders'
  <2> SUFFICES ASSUME NEW h \in Handle' PROVE entry'[h].ref_count = Cardinality(Holders(h)')
    BY DEF RefsCountHolders
  <2>1. Holders(h)' = Holders(h)
    BY <1>1 DEF Holders
  <2>2. CASE h \in Handle
    BY <1>2, <2>1, <2>2 DEF Inv, RefsCountHolders
  <2>3. CASE h = fresh
    <3>1. Holders(h) = {}
      BY <1>3, <2>3, EntryFacts DEF Holders, Inv, TypeInv, fresh, NoEntry
    <3> QED
      BY <1>2, <2>1, <2>3, <3>1, FS_EmptySet
  <2> QED
    BY <1>3, <2>2, <2>3 DEF fresh
<1> QED
  BY <1>5, <1>7 DEF Inv

LEMMA EvictInv ==
  ASSUME Inv, NEW count \in Counts, EvictByHand(count)
  PROVE  Inv'
<1>1. UNCHANGED <<entry, holding>> /\ cached' \subseteq cached
  BY OnlyIdleLeave DEF EvictByHand, Evict
<1> QED
  BY <1>1 DEF Inv, TypeInv, RefsCountHolders, Holders, Handle

LEMMA InitInv == ClientsInit => Inv
BY EmptySeq DEF ClientsInit, PCInit, Inv, TypeInv, RefsCountHolders, Handle, NoEntry

LEMMA NextInv == Inv /\ [ClientsNext]_clientVars => Inv'
<1> SUFFICES ASSUME Inv, [ClientsNext]_clientVars PROVE Inv'
  OBVIOUS
<1>1. ASSUME NEW c \in Client, Release(c) PROVE Inv'
  BY <1>1, ReleaseInv
<1>2. ASSUME NEW c \in Client, NEW tokens \in Tokens, Lookup(c, tokens) PROVE Inv'
  BY <1>2, LookupInv
<1>3. ASSUME NEW tokens \in Tokens, NEW pinned \in BOOLEAN, Publish(tokens, pinned) PROVE Inv'
  BY <1>3, PublishInv
<1>4. ASSUME NEW count \in Counts, EvictByHand(count) PROVE Inv'
  BY <1>4, EvictInv
<1>5. CASE UNCHANGED clientVars
  BY <1>5 DEF clientVars, vars, Inv, TypeInv, RefsCountHolders, Holders, Handle
<1> QED
  BY <1>1, <1>2, <1>3, <1>4, <1>5 DEF ClientsNext

LEMMA AlwaysInv == ClientsSpec => []Inv
BY InitInv, NextInv, PTL DEF ClientsSpec

-----------------------------------------------------------------------------
\* Whatever is looked up, inserted, replaced, released and evicted, every entry
\* object counts the clients that hold it: replaced objects and those that took
\* their place are never mixed up.
THEOREM HoldersAreCounted == ClientsSpec => []RefsCountHolders
BY AlwaysInv, PTL DEF Inv

-----------------------------------------------------------------------------
\* No eviction takes a pinned entry or one that some client holds; such an
\* entry leaves the dict only for a new one with the same tokens.
THEOREM HeldStays == ClientsSpec => HeldEntryStays
<1> DEFINE InUse(h) == entry[h].pinned \/ (\E c \in Client : holding[c] = h)
           Kept == \A h \in cached \ cached' : InUse(h) =>
                     /\ Len(entry') > Len(entry)
                     /\ entry'[Len(entry')].token_ids = entry[h].token_ids
<1>1. ASSUME Inv, [ClientsNext]_clientVars PROVE [Kept]_clientVars
  <2> SUFFICES ASSUME ClientsNext, NEW h \in cached \ cached', InUse(h)
               PROVE  /\ Len(entry') > Len(entry)
                      /\ entry'[Len(entry')].token_ids = entry[h].token_ids
    BY <1>1
  <2>1. /\ h \in Handle /\ entry \in Seq(Entry) /\ Len(entry) \in Nat
        /\ h \notin Evictable(entry, cached)
    BY <1>1, HeldHasReference, EntryFacts DEF Inv, TypeInv, Evictable
  <2>2. ASSUME NEW c \in Client, Release(c) PROVE FALSE
    BY <2>2 DEF Release, ReleaseEntry
  <2>3. ASSUME NEW c \in Client, NEW tokens \in Tokens, Lookup(c, tokens) PROVE FALSE
    BY <2>3 DEF Lookup, Hit
  <2>4. ASSUME NEW count \in Counts, EvictByHand(count) PROVE FALSE
    BY <2>1, <2>4, OnlyIdleLeave DEF EvictByHand, Evict
  <2>5. ASSUME NEW tokens \in Tokens, NEW pinned \in BOOLEAN, Publish(tokens, pinned)
        PROVE  /\ Len(entry') > Len(entry)
               /\ entry'[Len(entry')].token_ids = entry[h].token_ids
    <3>1. /\ entry' = Extended(tokens, <<>>, pinned)
          /\ EvictedFrom(cached', entry', Added(tokens), recency', Overflow(tokens))
      BY <2>5 DEF Publish, Insert
    <3>2. /\ Len(entry') = Len(entry) + 1
          /\ entry'[h] = entry[h]
          /\ entry'[Len(entry) + 1].token_ids = tokens
      BY <2>1, <3>1, ExtendedFacts, ClientsAssumption
    <3>3. h \notin Evictable(entry', Added(tokens))
      BY <2>1, <3>2 DEF Evictable
    <3>4. h \notin Added(tokens)
      BY <3>1, <3>3, OnlyIdleLeave
    <3>5. entry[h].token_ids = tokens
      BY <3>4 DEF Added
    <3> QED
      BY <2>1, <3>2, <3>5
  <2> QED
    BY <2>2, <2>3, <2>4, <2>5 DEF ClientsNext
<1> QED
  BY <1>1, AlwaysInv, PTL DEF ClientsSpec, HeldEntryStays

-----------------------------------------------------------------------------
\* An insert that leaves the cache over its capacity has evicted all it may:
\* every entry left is pinned or in use.
THEOREM CapacityKept == ClientsSpec => InsertKeepsCapacity
<1> DEFINE Busy == Len(entry') > Len(entry) /\ Cardinality(cached') > MaxEntries =>
                     \A h \in cached' : entry'[h].pinned \/ \E c \in Client : holding[c] = h
<1>1. ASSUME Inv, Inv', [ClientsNext]_clientVars PROVE [Busy]_clientVars
  <2> SUFFICES ASSUME ClientsNext, Len(entry') > Len(entry),
                      Cardinality(cached') > MaxEntries, NEW h \in cached',
                      ~ entry'[h].pinned
               PROVE  \E c \in Client : holding[c] = h
    BY <1>1
  <2>1. entry \in Seq(Entry) /\ Len(entry) \in Nat /\ Handle = 1 .. Len(entry)
    BY <1>1, EntryFacts DEF Inv, TypeInv
  <2>2. ASSUME NEW c \in Client, Release(c) PROVE FALSE
    <3>1. holding[c] \in Handle
      BY <1>1, <2>2 DEF Release, Inv, TypeInv
    <3> QED
      BY <2>1, <2>2, <3>1 DEF Release, ReleaseEntry
  <2>3. ASSUME NEW c \in Client, NEW tokens \in Tokens, Lookup(c, tokens) PROVE FALSE
    BY <2>1, <2>3 DEF Lookup, Hit
  <2>4. ASSUME NEW count \in Counts, EvictByHand(count) PROVE FALSE
    BY <2>1, <2>4 DEF EvictByHand, Evict
  <2>5. ASSUME NEW tokens \in Tokens, NEW pinned \in BOOLEAN, Publish(tokens, pinned)
        PROVE  entry'[h].ref_count # 0 /\ h \in Handle' /\ UNCHANGED holding
    <3>1. /\ EvictedFrom(cached', entry', Added(tokens), recency', Cardinality(Added(tokens)) - MaxEntries)
          /\ UNCHANGED holding
      BY <2>5 DEF Publish, Insert, Overflow
    <3>2. IsFiniteSet(Added(tokens))
      <4>1. Added(tokens) \subseteq 1 .. Len(entry) + 1
        <5>1. cached \subseteq 1 .. Len(entry)
          BY <1>1, <2>1 DEF Inv, TypeInv
        <5>2. \A i \in 1 .. Len(entry) : i \in 1 .. Len(entry) + 1
          BY <2>1
        <5>3. Len(entry) + 1 \in 1 .. Len(entry) + 1
          BY <2>1
        <5> QED
          BY <5>1, <5>2, <5>3, Zenon DEF Added
      <4> QED
        BY <1>1, <4>1, CachedFinite DEF Inv
    <3>3. h \notin Evictable(entry', Added(tokens))
      BY <3>1, <3>2, OverfullIsBusy, MaxEntriesAssumption
    <3>4. h \in Added(tokens)
      BY <3>1, OnlyIdleLeave
    <3> QED
      BY <1>1, <3>1, <3>3, <3>4 DEF Evictable, Inv, TypeInv
  <2>6. CASE entry'[h].ref_count # 0 /\ h \in Handle' /\ UNCHANGED holding
    <3>1. Holders(h)' # {}
      BY <1>1, <2>6, FS_EmptySet DEF Inv, RefsCountHolders
    <3> QED
      BY <2>6, <3>1 DEF Holders
  <2> QED
    BY <2>2, <2>3, <2>4, <2>5, <2>6 DEF ClientsNext
<1> QED
  BY <1>1, AlwaysInv, PTL DEF ClientsSpec, InsertKeepsCapacity
=============================================================================
