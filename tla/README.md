# SoloRT: TLA+ models, checks and proofs

SoloRT is a single-user, single-GPU inference server: a FastAPI app on one asyncio event loop, a
`RuntimeCore` that owns sessions, a foreground-first scheduler, a paged KV cache and a prefix cache,
and executors that run a transformer. This directory holds TLA+ modules of its control logic, TLC
configurations that check them on small instances, and proofs checked by TLAPS. Source paths below
are relative to `src/src/solort/`.

## 1. Inventory

| Component | State it keeps | Operations | What is hard | What makes it correct |
|---|---|---|---|---|
| **Page allocator** `cache/page_allocator.py` | deque `free_pages`, set `used_pages`, array `ref_count` | `alloc`, `incref`, `decref`, `free` | three structures updated by hand; `free` stops half way at a bad id | they describe one pool; a page is handed out only when nobody holds it |
| **Paged KV cache** `cache/kv_cache.py` | K/V tensors; grows the `block_table` of a sequence | `ensure_capacity`, `slot_mapping`, `store_layer_tokens`, `begin_append_transaction`, `commit`, `rollback` | interleaved growth from one pool; rollback of drafts that may or may not have added pages; stale K/V in reused pages | a page in one place of one table; rollback restores the table; accepted K/V survives |
| **Prefix cache** `cache/prefix_cache.py` | entries by hash chain, with `ref_count`, `pinned`, `last_access_ts` | `match`, `insert`, `release`, `evict` | eviction while entries are held; replacement of an entry somebody holds; release without a match | each entry counts its holders; held and pinned entries stay; capacity |
| **Scheduler and sequences** `core/scheduler.py`, `sequence.py`, `batch.py` | status, priority, prefilled / generated counters, arrival time | `add_sequence`, `cancel`, `build_next_batch`, `postprocess_batch` | priorities change as a sequence advances; candidates are re-sorted for every batch | order of service; at most one sequence decoding; ended sequences stay ended |
| **RuntimeCore, sessions, metrics** `core/runtime.py`, `session.py`, `metrics.py` | session histories, `active_sequence_id`, `_active_by_session`, reply text, counters, one suspended generator per request | `add_request`, `stream_request`, `cancel_request`, `_execute_batch`, `_finish_sequence` | every loop executes whatever batch comes next, also another request's; cancel between two awaits; clients that stall or vanish; exceptions; two calls of `_finish_sequence` | each text at most once, in order, to its own client; each reply once in its history; counters and active entries agree; readers' streams end |
| **API and streaming** `api/*.py` | none of its own | chat completions (streamed or not), cancel, metrics | disconnects drop the generator | as RuntimeCore |
| **Transformers executor** `model/executor.py` | per sequence (`_ServingState`): the target model's cache, the pending token, the reply, detokenizer offsets, the draft model's cache and its claimed length | `forward_prefill`, `forward_decode`, `_speculative_decode` (draft, validate, commit or rollback, replay), `_append_token_result`, `_decode_delta` | caches that a pass extends in place; transactions left open by a raise; retries of half-done rounds; bursts that go on after the end; characters over two tokens | the reply is the target's own greedy reply; both caches hold the text; pages as in the paged KV cache; the deltas add up to the decoding |
| **CUDA-graph executors** `model/cuda_graph_executor.py` | one static K/V per model, pending token, generated ids | bucketed prefill, single and chunked replay, speculative round | one K/V for whatever sequence runs; positions; tokens after a stop; refused drafts in the K/V | each token is chosen from its own sequence's K/V; no write past the array |
| **FlashInfer bridge** `backends/` | a context variable with the slots of the batch | attention; mirrors K/V into the slots | alignment of the causal mask on a populated cache | a row sees exactly the tokens before it |
| **Sampler, VRAM budget, CLI, benchmarks** | - | pure functions, I/O | - | not modelled |

Interaction: the API calls `add_request` and then iterates `stream_request`. Each iteration of a
loop calls `build_next_batch` and `_execute_batch`, which reserves pages, calls the executor, and
updates the sequence; it then yields texts to the client (an await point each) and sleeps once. All
shared state is touched only between two awaits of the one event loop, so **an action of the
model is what runs between two awaits**. `PROJECT.json` lists the hazards, each at its line.

## 2. Modules

```
PagePool  <--refines--  PageAllocator  <--INSTANCE--  PagedKVCache  <--INSTANCE--.
                                                          ^  ^       PrefixCache <--INSTANCE--+-- Runtime -- RuntimeProperties -- MCRuntime
                                       EXTENDS, refines   |  |       Scheduler  <--EXTENDS----'
                                                          |  |           ^
           Detokenizer  <--EXTENDS--  TransformersExecutor   |           '-- EXTENDS -- GraphExecutor -- MCGraphExecutor
                                      MCTransformersExecutor

                                       PrefixCache  <--EXTENDS--  PrefixCacheClients  <--EXTENDS--  MCPrefixCache

Proofs:  PageAllocatorProofs  <-  PagedKVCacheProofs  <-  TransformersExecutorProofs
         PageAllocatorProofs, PagedKVCacheProofs, RuntimeProofs  <-  RuntimePagesProofs
         RuntimeProofs  <-  RuntimeStreamProofs
         PrefixCacheClients  <-  PrefixCacheProofs       GraphExecutor  <-  GraphExecutorProofs
```

* **PagePool** - the abstract promise of the allocator: reference counts only.
* **PageAllocator** - deque, set, counters. `free(pages)` is a loop that an invalid id aborts, so it
  is one step per page (`FreeCall`, `FreeNext`, `FreeRaises`); calls that raise before they change
  anything are not enabled.
* **PagedKVCache** - block tables and append transactions over `PageAllocator`. `Grow` is
  `ensure_capacity` for an ordinary pass; `Begin`, `Commit` and `Rollback` are the transaction calls,
  and the `free` in a rollback goes page by page (`FreeStep`). `KVSpec` is the protocol: what callers
  may do, and what `PagesOwnedOnce` and `RollbackIsExact` hold for. It is the abstract specification
  that TransformersExecutor implements. `txn.before` is a history field of `RollbackIsExact` alone.
  An open transaction that a raise left behind does not count as open: its pages stay with the
  sequence, as after a commit, so such a pass is a `Grow`.
* **Detokenizer** - `_decode_delta` over a tokenizer in which a character may take two tokens and
  special tokens have no text. Decoding reads token by token (`Read`), with at most one character
  half read.
* **TransformersExecutor** - the Hugging Face executor. `turn` is the batch being executed: one batch
  runs at a time, but a speculative round is several steps (`Reserve`, `Validate`, then `AcceptAll`,
  or `Reject`, the `FreePage`s and `Replay`), each of which may raise where the code can. Between
  batches any sequence may be next, so the order the scheduler gives is one of those checked. A
  forward pass is abstracted to what each row attends to (`Visible`): a row that sees exactly the
  text before position n chooses the greedy token of n, any other row may choose wrongly. `Mirror`
  is `store_layer_tokens`: a slot gets the token of the row and all that the row attended to, for its
  K/V depend on both (`Row`). A pass of either model can raise before or after it has extended its
  cache in place (`PassRaises`, `ReplayRaises`, `AdvanceRaises`, `ProposalRaises`).
* **PrefixCache** - entries are objects that outlive their place in the dict (the runtime releases
  handles of entries that were replaced), so `entry` lists the objects and `cached` the handles
  still in the dict.
* **PrefixCacheClients** - the cache used by clients that may call any of its operations in any
  order: what the cache promises without the runtime, which pins all it inserts.
* **Scheduler** - sequence fields, `_effective_priority`, the choice of the next sequence and what a
  prefill or decode batch leaves in the sequence. It has no next-state relation of its own: Runtime
  and GraphExecutor conjoin its operations.
* **Runtime** - the composition. `AddRequest` is `add_request`; `Turn` is one iteration of a loop up
  to its first await (batch selection, page reservation, executor call, sample loop, publication
  in the prefix cache); `Yield` gives the next text to the client; `Finish` leaves the loop and runs
  `_finish_sequence`; `CancelById`, `CancelBySession` are the two forms of `cancel_request`;
  `Disconnect` drops the generator where it is suspended. `loop[r]` is where the generator is.
* **RuntimeProperties** - the properties of Runtime; **MCRuntime** its instances.
* **GraphExecutor** - the static K/V of the CUDA-graph executors under the scheduler. Attention is
  abstracted to what it reads: `chosen[r]` records for each token the K/V its pass attended to.
* **...Proofs** - the theorems, section 5.

Operators whose comment begins with "Slip" are plausible mistakes. No specification uses them; each
stands before the definition it alters, and replacing that definition by it must violate the
property named in `PROJECT.json` ("mutants").

### Abstractions and what they assume

* `created_ts` is `time.time()`; the model uses arrival order (no ties, clock does not go back). A tie
  would be broken by insertion order, a stable sort over `_order`, which is arrival order too, so the
  tie-break by `created_ts` decides nothing that the order of insertion would not.
* The chat template is "the words of the messages in order"; hash collisions of the prefix cache are
  excluded. Words carry their origin (`<<request, number>>`), prompts use negative numbers.
* The executor is external in Runtime: a decode returns 1 to `MaxBurst` samples, with or without
  text (`SilentTokens`), the last perhaps a stop; a pass may raise (`ExecutorMayRaise`). Of its own
  effects on shared state, the reservations for drafts by `_kv_write_plan` are in Runtime
  (`Reach`); the executor itself is TransformersExecutor.
* The loop over the samples in `_execute_batch` stops at `max_new_tokens` or at a stop: a batch
  samples a burst of any length and `Kept` is how much of it goes into the reply.
* A batch that raises leaves its sequence RUNNING at the head of the queue and ends the loop that
  took the turn, which may belong to somebody else (`Fail`).
* In GraphExecutor the target's choice is deterministic (greedy); a stop token can be any token.
  Where a draft is wrong, what follows it in draft and target is one value `Refused`: they may agree
  with one another, never with the reply.
* In TransformersExecutor the greedy token for position n of a text is the number n, and `Wrong` is
  any other; its kind (a stop, half a character, ...) is per request. Wrong drafts agree with a wrong
  choice of the target, so an accepted run may contain them once the cache is harmed. A request that
  samples (not in `Greedy`) never speculates, and its "greedy" reply stands for the samples it draws.
* The history variable `exact[r]` is how many tokens of r had been chosen when its target cache was
  first harmed, by a rejection (finding 5) or by a pass that raised after extending it; `clean[r]` is how many positions
  had been fed by then. Neither is read by an action.
* Requests that are cancelled stay in the executor's `_states` (nothing pops them) and never run
  again: in the model, a sequence that gets no further batch.

## 3. Runs

| Run | Instance | Properties | What it shows |
|---|---|---|---|
| `allocator` | 3 pages, <= 3 references, `free` of every list of <= 2 ids incl. invalid and repeated | `TypeOK`, `PoolConsistent`, `ImplementsPool` | the three structures agree after every call and half-way through `free`; the allocator refines PagePool |
| `prefixcache` | 2 clients, 4 token sequences (nested and disjoint), capacity 2, 4 inserts, evictions by hand of 0 to 2 entries | `RefsCountHolders`, `HeldEntryStays`, `InsertKeepsCapacity` | references are counted per entry object, also of replaced ones; eviction spares what is used |
| `concurrent` | 3 requests (2 foreground in one session, 1 background), bursts of <= 3, 7 pages of 2 | `TypeOK`, `AtMostOneDecoding`, `ForegroundInOrder`, `StreamInOrder`, `ReplyInHistoryOnce`, `ActiveIsLatest`, `MetricsAgree`, `PagesExclusive`, `TablesFit`, `FailureMeansOverdraft`, `TerminalIsFinal` | the runtime with overlapping streams, cancels, disconnects, pool exhaustion |
| `solo` | 3 requests of 3 kinds in one session, the next only when no stream is open; silent tokens, raises | `StreamComplete`, `ContextHasReplies` | the intended use is lossless |
| `live` | 3 overlapping requests (foreground, branch, background) with nested prompts, a prefix cache of one entry; r2's client may stall | `PrefixHitFits`, `UsedPrefixStaysCached`, `ReadersEnd` | hits fit their sequences and held entries stay; every reader's stream ends |
| `transformers` | 2 requests (one speculates with <= 3 drafts), prompts of 3 and 2 tokens in chunks of 2, budgets 5 and 3, 5 pages of 2, replies with a repeated run, a stop, the eos token, half and special tokens, one raise | `TypeOK`, `ExactUntilHarm`, `DraftCacheIsPrefix`, `MirrorHoldsText`, `TablesWithinNeed`, `EndsOnce`, `TextIsDecoding`, `PagesOwnedOnce`, `RollbackIsExact` | speculative decoding, its transactions and its failures keep both caches, the pages and the text right, up to the first harm |
| `graph` | 4 requests on a static K/V of 10 positions, chunks of 2, 2 drafts, buckets 1 and 4 | `AttendsOwnTokens`, `ReplyIsTargets`, `DraftFollows`, `WritesFit` | chunked and speculative decoding read and write the right positions |
| `graph_padding` | same, without a draft model | violates `PaddingNeverRead` | finding 1 |
| `stream_loses` | as `concurrent`, single samples | violates `StreamComplete` | finding 2 |
| `background_first` | same | violates `ForegroundFirst` | finding 3 |
| `session_cancel_misses` | as `solo` with foreground and background | violates `SessionCancelReaches` | finding 4 |
| `spec_rejection` | as `transformers`, 8 pages, no raise | violates `ReplyIsTargets` | finding 5 |

Deadlock checking is off where a system may stop: all requests ended, all tokens or inserts of the
bound used. It is on for the allocator, which can always move.

**Why the bounds are enough.** Three requests give each loop two others, so that a batch can be for
the driver, for an older and for a newer request, and that one session has an older request ending
after a newer one began. Prompts of one, two and three words with chunks of two give a prompt of
one chunk, an exact chunk and a short last chunk; budgets of one and two with bursts of three give
a burst that the budget cuts. In `concurrent` 7 pages are one less than the three requests can need
together (2 + 3 + 3 when the prompt of r3 contains the reply to r1), so both success and exhaustion
happen. In `transformers` both requests at their longest need seven of the five pages, so that
they reuse pages the other has rolled back and a round may find no page for its drafts. The reply of r1
begins with a character over two tokens; its third token is a repetition, which ends it in the middle of
an accepted burst; if that token is a wrong one, the fourth may be a stop, with which drafts end early;
if that is wrong too, a burst reaches the budget and goes on past it. After three and two tokens, three
drafts reach the end of the budget exactly. r2 ends with the eos token or with its budget. In `graph` r1 can run two full speculative rounds and reach the
end of the array, r3 is padded, r2 is sampled, and r4's prompt has no bucket.

**Fairness** (run `live`). All loops run on one event loop, whose ready queue is FIFO: `sleep(0)`
puts a loop at its end, so each ready loop takes its turn again and again. Hence weak fairness of
`Turn(r) \/ Finish(r)` per request. `Yield` needs the client to take a text, so it is fair for
`Readers` only: r2's client may stop reading for ever or vanish. New requests and cancels are not
fair. `ReadersEnd` counts a loop that failed or whose client left as ended; the run has no raises. That
a loop executes whatever batch comes next is what it rests on: if each loop drove its own sequence
only (the property's mutant), a reader behind an orphan would wait for ever.

**The exception to `AttendsOwnTokens`.** It leaves out the position right after the prompt, where no
pass writes a token (finding 1). `DraftFollows` leaves it out for the same reason.

## 4. Findings

1. **An unwritten position is attended to** (`cuda_graph_executor.py:346`). The decode position is
   the prompt length plus the number of generated tokens, though the token it feeds is the last of
   those. After a prompt of P tokens, slot P keeps what was there: padding of the prefill bucket, an
   earlier request's K/V, or zeros, and all later decodes read it. The comment at line 108 says the
   padding is never read. Run `graph_padding`.
2. **A second open stream loses text of the first** (`runtime.py:137`). The loop of one request
   executes the decode batch of another and drops the texts. They reach the history but not the
   client. Run `stream_loses`; `StreamInOrder` shows that what arrives is at least in order.
3. **A background decode goes before a foreground prefill** (`scheduler.py:88`), against
   "foreground-first" and the "leftover budget" of the architecture document (line 69; its line 72,
   decode ahead of prefill, is what the code does). Run `background_first`. The same rule is what
   makes `AtMostOneDecoding` hold: giving background decodes a lower priority, without anything
   else, would let two sequences decode alternately and break the CUDA-graph executors (this is the
   mutant of `AtMostOneDecoding` and of `AttendsOwnTokens`).
4. **Cancel by session misses a live request** (`runtime.py:239`). `_finish_sequence` pops the
   session's entry whoever it names. Run `session_cancel_misses`.

5. **A rejected round does not restore the target's cache** (`executor.py:380`). `original_past` is
   the very object that the validation pass has extended in place, so the refused drafts stay in it
   and the replay appends the last token and the accepted drafts once more. The pages of the paged
   cache are rolled back exactly (`RollbackIsExact`) and their slots hold rows of the right tokens
   (`MirrorHoldsText`), but the rows of the replay and of all later passes were computed on the
   over-long cache: at shifted positions, with refused drafts in their context. The correction token
   of that round is still right; what follows may not be. Run `spec_rejection`; `ExactUntilHarm` and
   the second part of `MirrorHoldsText` show that everything before is exact.

Seen while reading, without a run of their own: pages of ended requests are never returned to the
pool (`FailureMeansOverdraft` counts them as used, as the code does); a prompt longer than the
largest prefill bucket passes the length check and then raises in every batch (`Raises`); a prefix
hit shares a partly filled last page without copy-on-write or `incref`; a batch that is retried
after its pass raised late is appended to the cache a second time (`PassRaises`).

## 5. Proofs

All theorems hold for every value of the constants that satisfies the named assumptions
(`NumPagesAssumption`, `PageSizeAssumption`, `MaxEntriesAssumption`, `ClientsAssumption`,
`SchedulerAssumption`, `RuntimeAssumption`, `ExecutorAssumption`, `GraphAssumption`: numbers are
positive, functions have their domains, prompts are not empty, clients are finitely many). Requests
may be infinitely many. **Every safety property that a passing run checks is also a theorem**; where
a theorem needs more than the assumptions above, the table says so, and the run that checks the
property is an instance of it.

| Theorem | Statement | Argument |
|---|---|---|
| `PageAllocatorProofs!TypeCorrect`, `Consistency` | `Spec => []TypeOK`, `Spec => []PoolConsistent` | both together are inductive: what `alloc` pops is free, hence has no reference, and the deque has no duplicates; what `decref` returns was used, hence not in the deque |
| `PageAllocatorProofs!Refinement` | `Spec => ImplementsPool` | with `refs <- ref_count`, `Alloc` is `Acquire` of the granted pages (idle by consistency), a decref `Release`, the start and the abort of `free` stutter |
| `RuntimeProofs!TypeCorrect` | `Spec => []TypeOK` | `TypeOK` is not inductive: a chunk of an empty prompt, a request that has counters before it is added, and `Head` of an empty list of texts must be excluded. `TypeInv` adds `Arrivals` (what has not been added has not worked; what has been has a prompt and an earlier creation time) and `YieldsSomething` |
| `RuntimeProofs!OneDecoding` | `SingleStream`: `Spec => []AtMostOneDecoding` | strengthened with `NothingCached`. A sequence enters its decode phase only by the prefill batch that completes it, and only the next sequence gets a batch; if another were decoding, it would precede (priority 0 against 1 or 3) |
| `RuntimeProofs!InOrderOfArrival` | no prefix cache: `Spec => []ForegroundInOrder` | a later foreground request that has not worked is preceded by every earlier one: same or better priority and an earlier creation time |
| `RuntimeProofs!NeverRevived` | `Spec => TerminalIsFinal` | every step that writes a sequence needs it live or not yet added |
| `RuntimePagesProofs!ExclusivePages` | no prefix cache: `Spec => []PagesExclusive` | the pages granted by the allocator are distinct and unused (`PoolConsistent`, proved for the allocator and instantiated), so they are in no table |
| `RuntimePagesProofs!TablesStayFit` | paged K/V, no prefix cache: `Spec => []TablesFit` | `TablesFit` covers the prompt as far as it is prefilled and every token of the reply that has been fed, with a place for the first decode. A batch makes room for what it writes before it writes it (`TablesInv` adds that what has not been added has no table, and that a live sequence is below its budget), and a burst of n tokens has fed all but its last; the drafts a burst may reserve for never reach past the budget, and `PagesRequired` is monotonic (lemmas of PagedKVCacheProofs) |
| `RuntimeStreamProofs!LatestIsActive` | `Spec => []ActiveIsLatest` | inductive with `TypeInv`, whose `Arrivals` makes a newcomer the latest of its session; `_finish_sequence` clears the entry only if it names the request that ends |
| `RuntimeStreamProofs!TextsInOrder` | `Spec => []StreamInOrder` | `StreamsOK`: a loop has texts to give only where it is suspended in a yield, so the texts of a batch are put behind an empty rest; and samples in the reply are numbered up to `generated`, so the new ones come after all that were streamed |
| `PagedKVCacheProofs!OwnedOnce` | `KVSpec => []PagesOwnedOnce` | not inductive. `TxnHolds` says what an open transaction holds (the end of the table, from the length it found on), `Owned` that the pages `free` has still to release are distinct and in no table |
| `PagedKVCacheProofs!ExactRollback` | `KVSpec => RollbackIsExact` | from `TxnHolds`: cutting the table at `original_block_len` leaves `before` |
| `TransformersExecutorProofs!UsesCacheByProtocol` | `Spec => KVSpec` | the refinement: each pass is a `Grow`, a round a `Begin` and a `Commit` or `Rollback`. It needs that a transaction is open only between validation and its outcome, that passes reserve a number of tokens that is a natural number, and that a transaction never opens twice (`CountsOK`: the counters of each request, and what `turn` says of them) |
| `TransformersExecutorProofs!ExecutorOwnsPagesOnce`, `ExecutorRollsBackExactly` | `Spec => []PagesOwnedOnce`, `Spec => RollbackIsExact` | by the refinement from the two theorems of PagedKVCacheProofs |
| `TransformersExecutorProofs!TablesStayWithinNeed` | `Spec => []TablesWithinNeed` | `Within` alone is not inductive: a burst is put out without a pass, so `Room` says what the batch or the open transaction has made room for, and `TxnCovers` that what a rollback leaves still covers the text. `PagesRequired` is monotonic |
| `TransformersExecutorProofs!RepliesEndOnce` | `Spec => []EndsOnce` | every step leaves a reply alone or puts out an initial segment of a burst (`ReplyGrows`), and that segment stops at the first token that ends it or fills the budget; `EndOK` also says that a finished reply is out of its decode phase |
| `TransformersExecutorProofs!DraftCacheFollowsText` | `Spec => []DraftCacheIsPrefix` | a round that breaks off between or inside draft passes leaves the cache ahead of the text, and perhaps ahead of its own count; then the next token could contradict it. `DraftOK` adds that a request whose cache is ahead can only do another round next, and that round, although it may feed the end of the text a second time, crops the cache to the text when it has drafted |
| `TransformersExecutorProofs!TokensAreExactUntilHarm` | `Spec => []ExactUntilHarm` | what the next token will be rests on more than the reply: `Sound` says that the target's cache is the text that was fed (with the drafts, while a round is judged), that a pending token is right, and that the target's judgement is right as far as the drafts are (`JudgesRight`). `PhasesOK` orders prefill, pending token and reply |
| `TransformersExecutorProofs!SlotsHoldText` | `Spec => []MirrorHoldsText` | `StoredOK` speaks of the drafts too, while a round is judged, or nothing would be known of the slots of accepted ones. By `PagesOwnedOnce` and the arithmetic of slots, different positions of tables are different slots (`SlotsApart`), and by `TablesWithinNeed`'s invariant what is written is covered. For the context, `PastsOK` says that up to the first harm the target's cache is the text that was fed, so what a row sees is an initial segment of it (`StartIsPrefix`, `PastKnown`) |
| `TransformersExecutorProofs!DeltasAreDecoding` | `Spec => []TextIsDecoding` | `OutFits`: the window starts and ends where no character is open, and a text is held back only while it ends in U+FFFD. Where no character is open a decoding can be cut in two (`DecodeCut`), so the window's decoding is the part of the whole that is new |
| `TransformersExecutorProofs!TypesAreKept` | `Spec => []TypeOK` | tokens reach the slots only through `Mirror` of what a pass was fed, so the types need the invariants of turns, tables and detokenizer |
| `PrefixCacheProofs!HoldersAreCounted`, `HeldStays`, `CapacityKept` | `ClientsSpec => []RefsCountHolders`, `ClientsSpec => HeldEntryStays`, `ClientsSpec => InsertKeepsCapacity` | `RefsCountHolders` is inductive with the types: `match` and `release` change the count of the very object the client holds, also of one that was replaced. So what is held is not `Evictable`; and an eviction of the overflow either removes that many or all that is idle |
| `RuntimePagesProofs!UsedPrefixesStay` | `Spec => []UsedPrefixStaysCached` | the counts cannot be relied on (a sequence that published its prompt releases a reference it never took); the invariant is `AllPinned`, and that only an insert of the same tokens replaces an entry |
| `RuntimePagesProofs!PrefixHitsFit` | paged K/V: `Spec => []PrefixHitFits` | `EntriesRoomy` (an entry's pages have room for its tokens, because a prompt is published by the batch that completes it, which reserved for all of it) and `HandlesStart`; tables only grow at their end |
| `RuntimePagesProofs!FailuresAreOverdrafts` | executor never raises, no prefix cache: `Spec => []FailureMeansOverdraft` | pages in tables are at most what their requests need (`TablesFit`), all used pages are in tables (`PagesExclusive`); so if a reservation fails, the needs of the requests sent so far add up to more than the pool. Needs are counted as a set of pairs, so no sum over an unbounded set of requests is taken |
| `RuntimeStreamProofs!MetricsAreRight` | `Spec => []MetricsAgree` | `Counts`: at any time finitely many requests have been sent, and a loop that is done saw its sequence ended; then each step adds one element, or as many as the burst, or none to the sets that are counted |
| `RuntimeStreamProofs!RepliesEnterOnce` | `Spec => []ReplyInHistoryOnce` | `HistoriesOK`: `response_appended` says exactly which replies have been appended; a second `_finish_sequence` finds it set, and histories only grow at their end |
| `RuntimeStreamProofs!SoloStreamsComplete`, `SoloContextComplete` | `SoloSpec => []StreamComplete`, `SoloSpec => []ContextHasReplies` | `SoloOK`: at most one loop is under way, so each executes its own batches only, and what it has given or still holds is all of the reply; when a request is sent, every earlier loop is over for good |
| `GraphExecutorProofs!WritesStayInside`, `RepliesAreTargets` | `Spec => []WritesFit`, `Spec => []ReplyIsTargets` | `RepliesInv`: types, what is chosen and what is put out agree (`CountsOK`), every choice is the target's (`TargetsOK`). A round's accepted prefix is exactly the drafts that are right (`AgreedAreRight`: agreement of what follows a refused draft is never reached), and a pass ends within the array |
| `GraphExecutorProofs!OwnTokensOnly`, `DraftsFollow` | `TwoKinds`: `Spec => []AttendsOwnTokens`, `Spec => []DraftFollows` | `ReadsInv` adds that at most one sequence is in its decode phase (`OneDecodes`) and that the arrays then hold that sequence's text (`ArraysOK`). A prefill that overwrites them runs only when nobody decodes (`DecodeGoesFirst`); a pass leaves the text before it alone and writes what it puts out, for the draft model too unless the sequence can never speculate again |

Two recursions are proved about, `Reading` (the decoding of a text) and `HeardOf` (the detokenizer
after a burst). Both are recursive functions on an initial segment of the numbers, whose values are
fixed by a `CHOOSE`; since the induction theorems cannot be used, their existence, and each fact
about all their values, goes by the least number for which it fails (the well-foundedness of `<` on
the naturals, a first-order fact of the library). `Put` and `Accepted` are stated with the
cardinality of an initial segment, as the proofs need their lengths only.

The proofs about the scheduler go through `SchedulerNext`, a relation on the scheduler's variables
that every step of Runtime satisfies (`SchedulerSteps`); each theorem then looks at three kinds of
step (a request arrives, is cancelled, or works) and not at every action of Runtime.

`SingleStream` (only foreground and background requests, no prefix cache) is needed: a branch decode
comes after a foreground prefill, and a prefix hit that covers a whole prompt is in its decode phase
on arrival. `TwoKinds` is the first half of it: the CUDA-graph executors have no prefix cache.

`FailuresAreOverdrafts` needs its two assumptions because an executor that raises fails a loop for
any reason, and because shared pages are counted once for several tables; `PrefixHitsFit` needs the
paged K/V because without it block tables are empty, and `PrefixHitFits` claims room in them. The
prefix cache's own theorems are about `ClientsSpec`, in which a client releases what it holds once;
the runtime does not keep to that, and `UsedPrefixesStay` is what it has instead.

**Model-checked only:** `ReadersEnd` - liveness under fairness and `ENABLED` are beyond the prover -
and the five disagreements of section 4, which are counterexamples.

## 6. Not modelled

Tensor arithmetic, dtypes, graph capture and kernels; the arithmetic of sampling
and penalties (a nondeterministic choice in the models); text formatting (chat
templates, SSE, JSON validation, CLI output); `snapshot()` methods, which only read; latency
statistics; the VRAM budget (a pure function shown by `/metrics`); benchmarks and scripts.

## 7. Plan

In place: allocator, KV cache, prefix cache, scheduler, runtime composition, CUDA-graph executors,
Transformers executor with speculation and detokenization, the refinements PageAllocator =>
PagePool and TransformersExecutor => KVSpec, and a theorem for every safety property. Left:

1. **Abstract stream** - a specification of one request's stream (texts of one reply, in order, and
   none after its end) that Runtime implements per request, with the refinement proved.
2. **Abstract history** - the same for a session: what a history may become with each reply.
3. **Prefix cache in the runtime** - which of the cache's operations the runtime calls out of order
   (a release without a match), as a refinement of a protocol weaker than `ClientsSpec`.
