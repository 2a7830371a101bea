------------------------------- MODULE Runtime -------------------------------
(***************************************************************************)
(* RuntimeCore (src/solort/core/runtime.py): sessions, the scheduler, the  *)
(* paged KV cache, the prefix cache, the metrics and one stream_request    *)
(* loop per request, all on one asyncio event loop.  An action is what     *)
(* runs between two awaits: add_request, cancel_request, one turn of a     *)
(* loop, the delivery of one token text, or the end of a loop.             *)
(*                                                                         *)
(* A turn executes the batch of whichever sequence the scheduler selects,  *)
(* not necessarily the sequence of the loop that takes the turn; only the  *)
(* sequence's own loop passes the texts of the batch on to its client.     *)
(*                                                                         *)
(* The executor is external: a decode returns between 1 and MaxBurst       *)
(* samples, with or without text, of which the last may be final, and any  *)
(* pass may raise if ExecutorMayRaise.                                     *)
(***************************************************************************)
EXTENDS Scheduler, FiniteSets

CONSTANTS Session, SessionOf,      \* SessionOf[r]: the session of request r
          Prompt,                  \* Prompt[r]: the words of its message
          MaxBurst, SilentTokens,  \* samples per decode; may a sample have no text
          ExecutorMayRaise,
          UsesPagedKV, SupportsPrefixCache,   \* the executor's two switches
          NumPages, PageSize, MaxEntries,
          Readers                  \* the clients that keep reading their stream

Word == Req \X Int      \* a word of a prompt, or a text of a reply

ASSUME RuntimeAssumption ==
  /\ SessionOf \in [Req -> Session]
  /\ Prompt \in [Req -> Seq(Word) \ {<<>>}]
  /\ {MaxBurst, NumPages, PageSize, MaxEntries} \subseteq Nat \ {0}
  /\ Readers \subseteq Req
  /\ {SilentTokens, ExecutorMayRaise, UsesPagedKV, SupportsPrefixCache} \subseteq BOOLEAN

NoReq == "none"

VARIABLES
  messages,            \* messages[s]: the chat history of a session, word by word
  active_sequence_id,  \* Session.active_sequence_id
  active_by_session,   \* RuntimeCore._active_by_session
  response_text,       \* response_text[r]: its reply; <<r, n>> is the text of sample n
  response_appended,   \* the reply of r is in the history
  loop,                \* loop[r]: where the stream_request of r is
  pending,             \* pending[r]: texts its current batch has still to yield
  streamed,            \* streamed[r]: texts it has yielded
  metrics,             \* RuntimeMetrics
  cache_handle,        \* cache_handle[r]: its prefix cache entry
  block_table, free_pages, used_pages, ref_count,   \* the paged KV cache
  entry, cached, recency                            \* the prefix cache

KV == INSTANCE PagedKVCache WITH Owner <- Req, freeing <- <<>>, txn <- <<>>
Prefix == INSTANCE PrefixCache

sessionVars == <<messages, active_sequence_id, active_by_session>>
replyVars   == <<response_text, response_appended>>
loopVars    == <<loop, pending, streamed>>
kvVars      == <<block_table, free_pages, used_pages, ref_count>>
prefixVars  == <<entry, cached, recency>>
vars == <<schedulerVars, sessionVars, replyVars, loopVars, metrics, cache_handle,
          kvVars, prefixVars>>

\* idle: no loop yet.  ready: at the top of the loop or in its sleep(0).
\* yielding: between two texts of its own batch.  done: the loop ended.
\* failed: a batch it executed raised.  gone: the client went away and the
\* generator was dropped where it stood.
LoopState == {"idle", "ready", "yielding", "done", "failed", "gone"}

Init ==
  /\ SchedulerInit
  /\ messages = [s \in Session |-> <<>>]
  /\ active_sequence_id = [s \in Session |-> NoReq]
  /\ active_by_session = [s \in Session |-> NoReq]
  /\ response_text = [r \in Req |-> <<>>]
  /\ response_appended = [r \in Req |-> FALSE]
  /\ loop = [r \in Req |-> "idle"]
  /\ pending = [r \in Req |-> <<>>]
  /\ streamed = [r \in Req |-> <<>>]
  /\ metrics = [requests_started |-> 0, requests_finished |-> 0, tokens_generated |-> 0]
  /\ cache_handle = [r \in Req |-> Prefix!NoEntry]
  /\ block_table = [r \in Req |-> <<>>]
  /\ KV!Pool!Init
  /\ Prefix!PCInit

-----------------------------------------------------------------------------
(* add_request *)

\* A message in a history: its words, each labelled with where it is from.
UserMessage(r) ==
  [i \in 1 .. Len(Prompt[r]) |-> [role |-> "user", req |-> r, word |-> Prompt[r][i]]]

AssistantMessage(r) ==
  [i \in 1 .. Len(response_text[r]) |->
     [role |-> "assistant", req |-> r, word |-> response_text[r][i]]]

\* (Slips that the checks must notice stand before the definition they
\* alter; nothing else uses them.)

\* Slip: only what the user said is put into the prompt.
TokenizeUserOnly(history) ==
  LET said == SelectSeq(history, LAMBDA m : m.role = "user")
  IN  [i \in 1 .. Len(said) |-> said[i].word]

\* The chat template applied to a history: the words of its messages, in order.
Tokenize(history) == [i \in 1 .. Len(history) |-> history[i].word]

\* The new sequence takes over the pages of a prefix cache hit as they are.
StartFrom(r, ids) ==
  \/ /\ SupportsPrefixCache
     /\ \E h \in Prefix!Handle :
          /\ Prefix!IsMatch(h, ids)
          /\ Prefix!Hit(h)
          /\ AddSequence(r, ids, Len(entry[h].token_ids))
          /\ block_table' = [block_table EXCEPT ![r] = entry[h].pages]
          /\ cache_handle' = [cache_handle EXCEPT ![r] = h]
  \/ /\ SupportsPrefixCache => Prefix!Candidates(ids) = {}
     /\ AddSequence(r, ids, 0)
     /\ UNCHANGED <<prefixVars, block_table, cache_handle>>

AddRequest(r) ==
  LET s == SessionOf[r]
      history == messages[s] \o UserMessage(r)
  IN  /\ status[r] = "none"
      /\ messages' = [messages EXCEPT ![s] = history]
      /\ StartFrom(r, Tokenize(history))
      /\ active_sequence_id' = [active_sequence_id EXCEPT ![s] = r]
      /\ active_by_session' = [active_by_session EXCEPT ![s] = r]
      /\ metrics' = [metrics EXCEPT !.requests_started = @ + 1]
      /\ loop' = [loop EXCEPT ![r] = "ready"]
      /\ UNCHANGED <<replyVars, pending, streamed, free_pages, used_pages, ref_count>>

-----------------------------------------------------------------------------
(* _finish_sequence, which both the end of the loop and a cancel call *)

\* The reply goes to the history once, and only if there is one.
AppendReply(r) ==
  IF response_appended[r] \/ response_text[r] = <<>>
    THEN UNCHANGED <<messages, response_appended>>
    ELSE /\ messages' = [messages EXCEPT ![SessionOf[r]] = @ \o AssistantMessage(r)]
         /\ response_appended' = [response_appended EXCEPT ![r] = TRUE]

\* Slip: active_sequence_id is cleared like the entry of _active_by_session.
ForgetBoth(r) ==
  /\ active_sequence_id' = [active_sequence_id EXCEPT ![SessionOf[r]] = NoReq]
  /\ active_by_session' = [active_by_session EXCEPT ![SessionOf[r]] = NoReq]

\* Session.active_sequence_id is cleared when it is r, the entry of
\* _active_by_session whoever it belongs to.
ForgetActive(r) ==
  LET s == SessionOf[r]
  IN  /\ active_sequence_id' = [active_sequence_id EXCEPT ![s] = IF @ = r THEN NoReq ELSE @]
      /\ active_by_session' = [active_by_session EXCEPT ![s] = NoReq]

ReleaseHandle(r) ==
  IF cache_handle[r] = Prefix!NoEntry
    THEN UNCHANGED prefixVars
    ELSE Prefix!ReleaseEntry(cache_handle[r])

\* Slip: a cancelled sequence is concluded like a finished one.
CompletedOrCancelled(r) == Terminal(r)

Completed(r) == status[r] = "finished"

FinishSequence(r) ==
  /\ ForgetActive(r)
  /\ ReleaseHandle(r)
  /\ IF Completed(r)'
       THEN /\ metrics' = [metrics EXCEPT !.requests_finished = @ + 1]
            /\ AppendReply(r)
       ELSE UNCHANGED <<metrics, messages, response_appended>>
  /\ UNCHANGED <<response_text, pending, streamed, cache_handle, kvVars>>

\* cancel_request of a sequence that is still live; of any other it returns
\* False and changes nothing.
Cancel(r) ==
  /\ CancelSequence(r)
  /\ FinishSequence(r)
  /\ UNCHANGED loop

CancelById(r) == Cancel(r)

CancelBySession(s) == \E r \in Req : /\ active_by_session[s] = r
                                      /\ Cancel(r)

-----------------------------------------------------------------------------
(* One turn of the loop of r: build_next_batch and _execute_batch *)

\* Slips: the chunk that is about to be prefilled is left out; the token that
\* the decode adds is.
BatchTokensBefore(q) == IF PrefillComplete(q) THEN PromptTokens(q) + generated[q] + 1
                                              ELSE PrefilledTokens(q)

BatchTokensSoFar(q) == IF PrefillComplete(q) THEN PromptTokens(q) + generated[q]
                                             ELSE PrefilledTokens(q) + Chunk(q)

\* Tokens the block table of sequence q must have room for in its next batch.
BatchTokens(q) == IF PrefillComplete(q) THEN PromptTokens(q) + generated[q] + 1
                                        ELSE PrefilledTokens(q) + Chunk(q)

\* A speculative pass makes room for its drafts by itself (_kv_write_plan), at
\* most MaxBurst - 1 of them and none past max_new_tokens.
Drafts(q) == {d \in 1 .. MaxBurst - 1 : PrefillComplete(q) /\ generated[q] + d <= MaxNewTokens[q]}

Reach(q) == {BatchTokens(q)} \cup {PromptTokens(q) + generated[q] + d : d \in Drafts(q)}

Reserve(q, count) == IF UsesPagedKV THEN KV!EnsureCapacity(q, count) ELSE UNCHANGED kvVars

\* A prefill batch.  The batch that completes the prompt publishes it.
Prefill(r, q) ==
  /\ PrefillChunk(q)
  /\ Reserve(q, BatchTokens(q))
  /\ IF PrefillComplete(q)' /\ cache_handle[q] = Prefix!NoEntry /\ SupportsPrefixCache
       THEN /\ Prefix!Insert(input_ids[q], block_table'[q], TRUE)
            /\ cache_handle' = [cache_handle EXCEPT ![q] = Len(entry')]
       ELSE UNCHANGED <<prefixVars, cache_handle>>
  /\ UNCHANGED <<loop, pending, response_text, metrics>>

\* Slips: the loop that took the turn yields the texts whoever they belong to;
\* only the first text of a burst is yielded.
DeliverToDriver(r, q, texts) ==
  IF texts # <<>>
    THEN /\ loop' = [loop EXCEPT ![r] = "yielding"]
         /\ pending' = [pending EXCEPT ![r] = texts]
    ELSE UNCHANGED <<loop, pending>>

DeliverFirst(r, q, texts) ==
  IF q = r /\ texts # <<>>
    THEN /\ loop' = [loop EXCEPT ![r] = "yielding"]
         /\ pending' = [pending EXCEPT ![r] = <<Head(texts)>>]
    ELSE UNCHANGED <<loop, pending>>

\* The texts of a batch go to the client only if the batch was for the
\* sequence of the loop itself; otherwise they are dropped.
Deliver(r, q, texts) ==
  IF q = r /\ texts # <<>>
    THEN /\ loop' = [loop EXCEPT ![r] = "yielding"]
         /\ pending' = [pending EXCEPT ![r] = texts]
    ELSE UNCHANGED <<loop, pending>>

\* Which of n samples have text, in order: sample numbers that go up.
Voiced(n) ==
  {v \in UNION {[1 .. k -> 1 .. n] : k \in (IF SilentTokens THEN 0 ELSE n) .. n} :
     \A i, j \in DOMAIN v : i < j => v[i] < v[j]}

\* A decode batch that samples `burst` tokens, of which n are kept.  All of them but
\* the last have been fed to the model, as drafts.
Decode(r, q) ==
  \E burst \in 1 .. MaxBurst, stopped \in BOOLEAN :
    LET n == Kept(q, burst)
    IN  \E v \in Voiced(n) :
          LET texts == [i \in DOMAIN v |-> <<q, generated[q] + v[i]>>]
          IN  /\ DecodeTokens(q, n, stopped)
              /\ \E count \in Reach(q) : /\ PromptTokens(q) + generated[q] + n - 1 <= count
                                        /\ Reserve(q, count)
              /\ response_text' = [response_text EXCEPT ![q] = @ \o texts]
              /\ metrics' = [metrics EXCEPT !.tokens_generated = @ + n]
              /\ Deliver(r, q, texts)
              /\ UNCHANGED <<prefixVars, cache_handle>>

\* The pool cannot serve the batch, or not its drafts too, or the executor
\* raises by itself: the exception ends the loop that took the turn, whoever
\* the batch was for, and leaves the sequence of the batch running.
Fail(r, q) ==
  /\ MarkRunning(q)
  /\ \/ /\ UsesPagedKV /\ ~ KV!Fits(q, BatchTokens(q))
        /\ UNCHANGED kvVars
     \/ /\ UsesPagedKV /\ \E count \in Reach(q) : ~ KV!Fits(q, count)
        /\ Reserve(q, BatchTokens(q))
     \/ /\ ExecutorMayRaise
        /\ \E count \in Reach(q) : Reserve(q, count)
  /\ loop' = [loop EXCEPT ![r] = "failed"]
  /\ UNCHANGED <<prefixVars, cache_handle, pending, response_text, metrics>>

\* Slip: a loop leaves the batches of other sequences to their own loops.
DrivesOwn(r, q) == IsNext(q) /\ q = r

\* A loop executes whatever batch comes next.
Drives(r, q) == IsNext(q)

Turn(r) ==
  /\ loop[r] = "ready"
  /\ r \in Live
  /\ \E q \in Req : /\ Drives(r, q)
                    /\ \/ /\ UsesPagedKV => KV!Fits(q, BatchTokens(q))
                          /\ Prefill(r, q) \/ Decode(r, q)
                       \/ Fail(r, q)
  /\ UNCHANGED <<sessionVars, response_appended, streamed>>

\* The client takes the next text of the batch.
Yield(r) ==
  /\ loop[r] = "yielding"
  /\ streamed' = [streamed EXCEPT ![r] = Append(@, Head(pending[r]))]
  /\ pending' = [pending EXCEPT ![r] = Tail(@)]
  /\ loop' = [loop EXCEPT ![r] = IF Tail(pending[r]) = <<>> THEN "ready" ELSE "yielding"]
  /\ UNCHANGED <<schedulerVars, sessionVars, replyVars, metrics, cache_handle, kvVars,
                 prefixVars>>

\* The loop sees that its sequence is terminal.
Finish(r) ==
  /\ loop[r] = "ready"
  /\ Terminal(r)
  /\ UNCHANGED schedulerVars
  /\ FinishSequence(r)
  /\ loop' = [loop EXCEPT ![r] = "done"]

\* The server drops the generator of a client that disconnected.  There is
\* no finally clause: nobody calls _finish_sequence.
Disconnect(r) ==
  /\ loop[r] \in {"ready", "yielding"}
  /\ loop' = [loop EXCEPT ![r] = "gone"]
  /\ UNCHANGED <<schedulerVars, sessionVars, replyVars, pending, streamed, metrics,
                 cache_handle, kvVars, prefixVars>>

LoopStep(r) == Turn(r) \/ Yield(r) \/ Finish(r)

Next == \/ \E r \in Req : \/ AddRequest(r)
                          \/ CancelById(r)
                          \/ LoopStep(r)
                          \/ Disconnect(r)
        \/ \E s \in Session : CancelBySession(s)

Spec == Init /\ [][Next]_vars

\* The event loop resumes every coroutine that is ready: sleep(0) puts a loop
\* at the end of the ready queue.  A text is only taken by a client that
\* reads, so that much is assumed of Readers only.
Fairness == /\ \A r \in Req : WF_vars(Turn(r) \/ Finish(r))
            /\ \A r \in Readers : WF_vars(Yield(r))

FairSpec == Spec /\ Fairness
=============================================================================
