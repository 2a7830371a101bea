-------------------------- MODULE PrefixCacheClients --------------------------
(***************************************************************************)
(* The prefix cache with clients that call its public operations in any    *)
(* order.  A client holds at most one entry that match gave it, and        *)
(* releases it once.  Other than the runtime, which pins all it inserts,   *)
(* the clients insert unpinned entries too and evict by hand, as the tests *)
(* of the cache do.                                                        *)
(***************************************************************************)
EXTENDS PrefixCache

CONSTANTS Client,
          Tokens,       \* the token sequences the clients look up and insert
          Counts,       \* the target counts they pass to evict
          MaxInserts    \* bound: how many entries are ever inserted

ASSUME ClientsAssumption ==
  /\ IsFiniteSet(Client)
  /\ \A tokens \in Tokens : tokens \in Seq(Int)
  /\ Counts \subseteq Int
  /\ MaxInserts \in Nat

VARIABLE holding      \* holding[c]: the entry that match gave to client c

clientVars == <<vars, holding>>

ClientsInit == PCInit /\ holding = [c \in Client |-> NoEntry]

Lookup(c, tokens) ==
  /\ holding[c] = NoEntry
  /\ \E h \in Handle : /\ IsMatch(h, tokens)
                       /\ Hit(h)
                       /\ holding' = [holding EXCEPT ![c] = h]

Release(c) ==
  /\ holding[c] # NoEntry
  /\ ReleaseEntry(holding[c])
  /\ holding' = [holding EXCEPT ![c] = NoEntry]

Publish(tokens, pinned) ==
  /\ Len(entry) < MaxInserts
  /\ Insert(tokens, <<>>, pinned)
  /\ UNCHANGED holding

EvictByHand(count) == Evict(count) /\ UNCHANGED holding

ClientsNext ==
  \/ \E c \in Client : Release(c) \/ \E tokens \in Tokens : Lookup(c, tokens)
  \/ \E tokens \in Tokens, pinned \in BOOLEAN : Publish(tokens, pinned)
  \/ \E count \in Counts : EvictByHand(count)

ClientsSpec == ClientsInit /\ [][ClientsNext]_clientVars

-----------------------------------------------------------------------------
Holders(h) == {c \in Client : holding[c] = h}

\* An entry object counts exactly the clients that hold it, also after an insert of
\* the same tokens has replaced it in the dict: the holders of the replaced object
\* release that one, and take no reference from those who hold its replacement.
RefsCountHolders == \A h \in Handle : entry[h].ref_count = Cardinality(Holders(h))

\* A pinned entry, and one that some client still holds, leaves the cache only
\* when a new entry for the same tokens is inserted: no eviction, by hand or
\* for capacity, takes it, whatever the other holders have released.
HeldEntryStays ==
  [][\A h \in cached \ cached' : entry[h].pinned \/ (\E c \in Client : holding[c] = h) =>
       /\ Len(entry') > Len(entry)
       /\ entry'[Len(entry')].token_ids = entry[h].token_ids]_clientVars

\* After an insert the cache is over its capacity only if every entry left is
\* pinned or in use.
InsertKeepsCapacity ==
  [][Len(entry') > Len(entry) /\ Cardinality(cached') > MaxEntries =>
       \A h \in cached' : entry'[h].pinned \/ \E c \in Client : holding[c] = h]_clientVars
=============================================================================
