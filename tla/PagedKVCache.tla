---------------------------- MODULE PagedKVCache ----------------------------
(***************************************************************************)
(* The paged KV cache (src/solort/cache/kv_cache.py) over the page         *)
(* allocator: block tables that grow on demand, the map from a logical     *)
(* token position to a physical slot, and the append transactions that     *)
(* speculative decoding opens, commits or rolls back.  The runtime         *)
(* (Runtime.tla) grows block tables; the Transformers executor             *)
(* (TransformersExecutor.tla) does all of it and stores the K/V.           *)
(*                                                                         *)
(* KVSpec is what the cache promises about pages to callers that keep to   *)
(* its protocol: a block table does not grow while its transaction is      *)
(* open, and rollback is for an open transaction.                          *)
(***************************************************************************)
EXTENDS Integers, Sequences

CONSTANTS Owner,      \* the sequences that own a block table
          NumPages,
          PageSize

ASSUME PageSizeAssumption == PageSize \in Nat \ {0}

VARIABLES free_pages, used_pages, ref_count, freeing,   \* the page allocator
          block_table,  \* block_table[s]: logical page -> physical page
          txn           \* txn[s]: the open append transaction of s, or NoTxn

Pool == INSTANCE PageAllocator

poolVars == <<free_pages, used_pages, ref_count, freeing>>
kvVars == <<poolVars, block_table, txn>>

\* A KVCacheTransaction and (a history field, for RollbackIsExact) the block
\* table before it began.
NoTxn == [pages |-> <<>>, original_block_len |-> 0, before |-> <<>>, open |-> FALSE]

KVInit ==
  /\ Pool!Init
  /\ block_table = [s \in Owner |-> <<>>]
  /\ txn = [s \in Owner |-> NoTxn]

-----------------------------------------------------------------------------
PagesRequired(count) ==
  IF count <= 0 THEN 0 ELSE (count + PageSize - 1) \div PageSize

\* Slip: the pages that the block table already has are forgotten.
MissingFromScratch(s, count) == PagesRequired(count)

Missing(s, count) == PagesRequired(count) - Len(block_table[s])

\* The allocator can serve ensure_capacity; otherwise it raises and neither
\* the pool nor the block table has changed.
Fits(s, count) == Missing(s, count) <= Len(free_pages)

EnsureCapacity(s, count) ==
  IF Missing(s, count) <= 0
    THEN UNCHANGED <<poolVars, block_table>>
    ELSE /\ Pool!Alloc(Missing(s, count))
         /\ block_table' = [block_table EXCEPT ![s] = @ \o Pool!Granted(Missing(s, count))]

\* slot_mapping of one position, for a table that covers it.
SlotOf(table, pos) == table[pos \div PageSize + 1] * PageSize + (pos % PageSize)

-----------------------------------------------------------------------------
Idle == freeing = <<>>

\* ensure_capacity for an ordinary pass.
Grow(s, count) ==
  /\ Idle /\ ~ txn[s].open
  /\ Fits(s, count)
  /\ EnsureCapacity(s, count)
  /\ UNCHANGED txn

\* Slips: the last page the sequence had before is taken for a new one; the
\* length is read after the table has grown.
NewPagesFromLast(s) == SubSeq(block_table'[s], IF block_table[s] = <<>> THEN 1 ELSE Len(block_table[s]),
                              Len(block_table'[s]))
GrownLen(s) == Len(block_table'[s])

\* What ensure_capacity has just added, and the length it found.
NewPages(s) == SubSeq(block_table'[s], Len(block_table[s]) + 1, Len(block_table'[s]))

OriginalLen(s) == Len(block_table[s])

\* begin_append_transaction for room for `count` tokens in all.  Only the pages
\* that this call adds belong to the transaction.
Begin(s, count) ==
  /\ Idle /\ ~ txn[s].open
  /\ Fits(s, count)
  /\ EnsureCapacity(s, count)
  /\ txn' = [txn EXCEPT ![s] = [pages |-> NewPages(s),
                                original_block_len |-> OriginalLen(s),
                                before |-> block_table[s],
                                open |-> TRUE]]

\* commit_transaction does nothing to the pages: the sequence keeps them.
Commit(s) ==
  /\ Idle /\ txn[s].open
  /\ txn' = [txn EXCEPT ![s] = NoTxn]
  /\ UNCHANGED <<poolVars, block_table>>

\* rollback_transaction cuts the table and calls free() ...
Rollback(s) ==
  /\ Idle /\ txn[s].open
  /\ IF txn[s].pages = <<>>
       THEN UNCHANGED <<poolVars, block_table>>
       ELSE /\ block_table' = [block_table EXCEPT
                                 ![s] = SubSeq(@, 1, txn[s].original_block_len)]
            /\ Pool!FreeCall(txn[s].pages)
  /\ txn' = [txn EXCEPT ![s] = NoTxn]

\* ... which releases the pages one by one.  It never raises here: by
\* PagesOwnedOnce the pages of the transaction are still allocated.
FreeStep ==
  /\ Pool!FreeNext
  /\ UNCHANGED <<block_table, txn>>

KVNext == \/ \E s \in Owner, count \in Nat :
               Grow(s, count) \/ Begin(s, count)
          \/ \E s \in Owner : Commit(s) \/ Rollback(s)
          \/ FreeStep

KVSpec == KVInit /\ [][KVNext]_kvVars

-----------------------------------------------------------------------------
\* Every allocated page is either in exactly one place of exactly one block
\* table, with one reference, or on its way back in free().  A leak, a page
\* listed by two tables and a page freed twice all break it.
PagesOwnedOnce ==
  /\ \A s, t \in Owner : \A i \in 1 .. Len(block_table[s]), j \in 1 .. Len(block_table[t]) :
       block_table[s][i] = block_table[t][j] => s = t /\ i = j
  /\ \A p \in Pool!Page :
       p \in used_pages <=> \/ \E s \in Owner : p \in Pool!Elements(block_table[s])
                            \/ p \in Pool!Elements(freeing)
  /\ \A p \in used_pages : ref_count[p] = 1

\* Rolling back is exact: the sequence gets back the very block table it had
\* when the transaction began, and no other table changes.
RollbackIsExact ==
  [][\A s \in Owner : Rollback(s) =>
       block_table' = [block_table EXCEPT ![s] = txn[s].before]]_kvVars
=============================================================================
