----------------------------- MODULE PrefixCache -----------------------------
(***************************************************************************)
(* The prefix cache (src/solort/cache/prefix_cache.py).  Entries are       *)
(* objects: a handle to one outlives its place in the index, so entry[h]   *)
(* is what handle h refers to and cached is the set of handles the dict    *)
(* _entries still holds.  The dict key is the hash chain of the tokens,    *)
(* taken to be the tokens themselves (no collisions).  Access times are    *)
(* modelled by their order: recency lists the handles, oldest access first.*)
(***************************************************************************)
EXTENDS Integers, Sequences, FiniteSets

CONSTANT MaxEntries

ASSUME MaxEntriesAssumption == MaxEntries \in Nat \ {0}

VARIABLES entry,      \* entry[h]: the entry object of handle h
          cached,     \* the handles that are in the dict
          recency     \* the handles, by last_access_ts

vars == <<entry, cached, recency>>

PCInit == entry = <<>> /\ cached = {} /\ recency = <<>>

NoEntry == 0
Handle == 1 .. Len(entry)

-----------------------------------------------------------------------------
IsPrefixOf(s, t) == Len(s) <= Len(t) /\ SubSeq(t, 1, Len(s)) = s

\* (Slips that the checks must notice stand before the definition they
\* alter; nothing else uses them.)

\* Slip: entries are compared by length only.
CandidatesByLength(tokens) == {h \in cached : Len(entry[h].token_ids) <= Len(tokens)}

Candidates(tokens) == {h \in cached : IsPrefixOf(entry[h].token_ids, tokens)}

\* match: the longest entry that is a prefix of the tokens.  Two cached
\* entries never have the same tokens, so there is at most one.
IsMatch(h, tokens) ==
  /\ h \in Candidates(tokens)
  /\ \A g \in Candidates(tokens) : Len(entry[g].token_ids) <= Len(entry[h].token_ids)

Touch(h) == recency' = Append(SelectSeq(recency, LAMBDA g : g # h), h)

Hit(h) ==
  /\ entry' = [entry EXCEPT ![h].ref_count = @ + 1]
  /\ Touch(h)
  /\ UNCHANGED cached

-----------------------------------------------------------------------------
\* Slip: pinned entries are treated like the others.
EvictableUnused(entries, handles) == {h \in handles : entries[h].ref_count = 0}

Evictable(entries, handles) == {h \in handles : ~ entries[h].pinned /\ entries[h].ref_count = 0}

AccessedBefore(order, g, h) ==
  \E i, j \in 1 .. Len(order) : i < j /\ order[i] = g /\ order[j] = h

\* evict(count): of the idle entries, the count that were accessed longest ago,
\* all of them when there are fewer, none when count is not positive.
Oldest(removed, idle, order, count) ==
  /\ removed = {} \/ Cardinality(removed) <= count
  /\ removed = idle \/ Cardinality(removed) >= count
  /\ \A g \in removed, h \in idle \ removed : AccessedBefore(order, g, h)

\* handles without the entries that evict(count) removes.
EvictedFrom(remaining, entries, handles, order, count) ==
  \E removed \in SUBSET Evictable(entries, handles) :
    /\ Oldest(removed, Evictable(entries, handles), order, count)
    /\ remaining = handles \ removed

Evict(count) ==
  /\ EvictedFrom(cached', entry, cached, recency, count)
  /\ UNCHANGED <<entry, recency>>

\* A new entry object, and the dict once it holds it under its key.
Extended(tokens, pages, pinned) ==
  Append(entry, [token_ids |-> tokens, pages |-> pages, ref_count |-> 0, pinned |-> pinned])

Added(tokens) == {h \in cached : entry[h].token_ids # tokens} \cup {Len(entry) + 1}

\* Slip: the overflow is computed before the new entry is in the dict.
OverflowBefore(tokens) == Cardinality(cached) - MaxEntries

Overflow(tokens) == Cardinality(Added(tokens)) - MaxEntries

\* insert: the new entry replaces the one with the same key, then the cache
\* is brought back to its capacity as far as idle entries allow; the new
\* entry is one of those that may have to go.
Insert(tokens, pages, pinned) ==
  /\ entry' = Extended(tokens, pages, pinned)
  /\ recency' = Append(recency, Len(entry) + 1)
  /\ EvictedFrom(cached', entry', Added(tokens), recency', Overflow(tokens))

\* Slip: the first release frees the entry for everybody.
ReleaseForAll(h) ==
  /\ entry' = [entry EXCEPT ![h].ref_count = 0]
  /\ UNCHANGED <<cached, recency>>

\* Slip: the entry that is now in the dict under the same key is released.
ReleaseByKey(h) ==
  LET now == {g \in cached : entry[g].token_ids = entry[h].token_ids}
  IN  /\ entry' = [g \in Handle |->
                     IF g \in now /\ entry[g].ref_count > 0
                       THEN [entry[g] EXCEPT !.ref_count = @ - 1] ELSE entry[g]]
      /\ UNCHANGED <<cached, recency>>

\* release: the count never goes below zero.
ReleaseEntry(h) ==
  /\ entry' = [entry EXCEPT ![h].ref_count = IF @ = 0 THEN 0 ELSE @ - 1]
  /\ UNCHANGED <<cached, recency>>
=============================================================================
