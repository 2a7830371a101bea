-------------------------- MODULE RuntimeProperties --------------------------
(***************************************************************************)
(* What the runtime of Runtime.tla must and must not do.                   *)
(***************************************************************************)
EXTENDS Runtime

Elements(s) == {s[i] : i \in 1 .. Len(s)}

(***************************************************************************)
(* Types: the values that every variable of the runtime ranges over, with  *)
(* the limits that max_new_tokens and the prompt put on the counters.      *)
(***************************************************************************)
SchedulerTypeOK ==
  /\ status \in [Req -> Status]
  /\ created_ts \in [Req -> Nat]
  /\ clock \in Nat \ {0}
  /\ input_ids \in [Req -> Seq(Word)]
  /\ num_cached_tokens \in [Req -> Nat]
  /\ num_scheduled_tokens \in [Req -> Nat]
  /\ generated \in [Req -> Nat]
  /\ \A r \in Req : /\ generated[r] <= MaxNewTokens[r]
                    /\ Terminal(r) \/ generated[r] < MaxNewTokens[r]
                    /\ PrefilledTokens(r) <= PromptTokens(r)

Text == [role : {"user", "assistant"}, req : Req, word : Word]

Metrics == [requests_started : Nat, requests_finished : Nat, tokens_generated : Nat]

ReplyTypeOK ==
  /\ messages \in [Session -> Seq(Text)]
  /\ active_sequence_id \in [Session -> Req \cup {NoReq}]
  /\ active_by_session \in [Session -> Req \cup {NoReq}]
  /\ response_text \in [Req -> Seq(Word)]
  /\ response_appended \in [Req -> BOOLEAN]
  /\ loop \in [Req -> LoopState]
  /\ pending \in [Req -> Seq(Word)]
  /\ streamed \in [Req -> Seq(Word)]
  /\ metrics \in Metrics

KVTypeOK ==
  /\ block_table \in [Req -> Seq(KV!Pool!Page)]
  /\ KV!Pool!TypeOK

Entry == [token_ids : Seq(Word), pages : Seq(KV!Pool!Page), ref_count : Nat, pinned : BOOLEAN]

PrefixTypeOK ==
  /\ entry \in Seq(Entry)
  /\ cached \subseteq Prefix!Handle
  /\ cache_handle \in [Req -> Prefix!Handle \cup {Prefix!NoEntry}]

TypeOK == SchedulerTypeOK /\ ReplyTypeOK /\ KVTypeOK /\ PrefixTypeOK

-----------------------------------------------------------------------------
(* Scheduling *)

Added(r) == status[r] # "none"
DecodePhase(r) == r \in Live /\ PrefillComplete(r)

\* Two sequences are never in their decode phase at the same time.  Nothing in
\* the code says so, but an executor that keeps one KV cache for "the" active
\* sequence (cuda_graph_executor.py) is only correct because of it.  It needs
\* the priorities to be as they are, no branch request and no prefix cache.
AtMostOneDecoding ==
  \A r, t \in Req : DecodePhase(r) /\ DecodePhase(t) => r = t

\* A foreground request does no work before an earlier foreground request has
\* ended: first come, first served, whichever loops take the turns.
ForegroundInOrder ==
  \A r, t \in Live :
    Kind[r] = "foreground" /\ Kind[t] = "foreground" /\ created_ts[r] < created_ts[t] =>
      num_scheduled_tokens[t] = 0 /\ generated[t] = 0

\* A cancelled or finished sequence is never revived: a batch selected by
\* another loop, or texts still to be yielded, change neither its status nor
\* its tokens.
EndedUnchanged ==
  \A r \in Req : Terminal(r) => /\ status'[r] = status[r]
                               /\ generated'[r] = generated[r]
                               /\ response_text'[r] = response_text[r]

TerminalIsFinal == [][EndedUnchanged]_vars

\* "Foreground-first": no background sequence decodes while a foreground
\* request is waiting or running.
ForegroundFirst ==
  [][\A b \in Req : Kind[b] = "background" /\ generated'[b] > generated[b] =>
       \A f \in Live : Kind[f] # "foreground"]_vars

-----------------------------------------------------------------------------
(* What the client sees and what the session remembers *)

\* Sample numbers go up along a list of texts.
InOrder(texts) == \A i, j \in 1 .. Len(texts) : i < j => texts[i][2] < texts[j][2]

\* What a client gets, and is still to get, is texts of its own reply, each at
\* most once and in order, although any loop may have executed the batches.
StreamInOrder ==
  \A r \in Req : LET texts == streamed[r] \o pending[r]
                 IN  /\ InOrder(texts)
                     /\ Elements(texts) \subseteq Elements(response_text[r])

\* A stream that ends normally has delivered the whole reply.
StreamComplete ==
  \A r \in Req : loop[r] = "done" /\ status[r] = "finished" =>
    streamed[r] = response_text[r]

\* The places of a history that hold words of the reply of r.
ReplyPlaces(r, s) ==
  {i \in 1 .. Len(messages[s]) : messages[s][i].role = "assistant" /\ messages[s][i].req = r}

\* The reply of r stands whole after the first k words, and nowhere else.
ReplyStandsAt(r, s, k) ==
  /\ ReplyPlaces(r, s) = k + 1 .. k + Len(response_text[r])
  /\ \A i \in 1 .. Len(response_text[r]) : messages[s][k + i].word = response_text[r][i]

\* The history of a session has the reply of a request exactly once, in full
\* and in one piece, when the request finished and its loop has ended, and
\* nothing of it before; replies of cancelled or abandoned requests never enter
\* any history.
ReplyInHistoryOnce ==
  \A r \in Req, s \in Session :
    IF s = SessionOf[r] /\ status[r] = "finished" /\ loop[r] = "done"
      THEN \E k \in 0 .. Len(messages[s]) : ReplyStandsAt(r, s, k)
      ELSE ReplyPlaces(r, s) = {}

\* A request of a session is answered with all that was said before: its
\* prompt has the replies of the earlier requests that finished.
ContextHasReplies ==
  \A r, t \in Req :
    /\ Added(r) /\ Added(t) /\ SessionOf[r] = SessionOf[t]
    /\ created_ts[r] < created_ts[t]
    /\ status[r] = "finished" /\ loop[r] = "done"
    => Elements(response_text[r]) \subseteq Elements(input_ids[t])

LatestIn(s, r) ==
  /\ SessionOf[r] = s /\ Added(r)
  /\ \A t \in Req : SessionOf[t] = s => created_ts[t] <= created_ts[r]

\* Session.active_sequence_id names the latest request of the session until
\* that request is cancelled or its loop ends; older requests of the session
\* that end later leave it alone.
ActiveIsLatest ==
  \A s \in Session, r \in Req : LatestIn(s, r) =>
    active_sequence_id[s] = IF status[r] = "cancelled" \/ loop[r] = "done" THEN NoReq ELSE r

\* A cancel by session_id reaches the latest request of the session as long as
\* that request is live.
SessionCancelReaches ==
  \A s \in Session, r \in Req : LatestIn(s, r) /\ r \in Live => active_by_session[s] = r

\* The tokens generated so far, each as its request and its number.
TokensOut == UNION {{r} \X (1 .. generated[r]) : r \in Req}

\* The counters of /metrics agree with what happened: a request is counted as
\* finished once, when its loop ends after it finished, and every generated
\* token once, whoever executed the batch.
MetricsAgree ==
  /\ metrics.requests_started = Cardinality({r \in Req : Added(r)})
  /\ metrics.requests_finished =
       Cardinality({r \in Req : status[r] = "finished" /\ loop[r] = "done"})
  /\ metrics.tokens_generated = Cardinality(TokensOut)

-----------------------------------------------------------------------------
(* The paged KV cache, without prefix sharing *)

\* No two sequences share a page, no page appears twice in a block table, and
\* the pool counts as used exactly the pages in the tables.
PagesExclusive ==
  /\ \A r, t \in Req : \A i \in 1 .. Len(block_table[r]), j \in 1 .. Len(block_table[t]) :
       block_table[r][i] = block_table[t][j] => r = t /\ i = j
  /\ used_pages = UNION {Elements(block_table[r]) : r \in Req}

\* The pages a request can come to need.
Need(r) == KV!PagesRequired(PromptTokens(r) + MaxNewTokens[r])

\* The tokens of r whose K/V has a place to be in: the prompt as far as it is
\* prefilled and, from the first decode on, the token that decode adds; later all
\* of the reply but its last token, which the next batch feeds.
Placed(r) == PrefilledTokens(r) + (IF generated[r] <= 1 THEN generated[r] ELSE generated[r] - 1)

\* A block table covers all that has been written through it, a burst of accepted
\* drafts included, has room for the token of the first decode, and never
\* outgrows the need.
TablesFit ==
  \A r \in Req : /\ KV!PagesRequired(Placed(r)) <= Len(block_table[r])
                 /\ Len(block_table[r]) <= Need(r)

\* All the pages that the requests seen so far can come to need, each as its
\* request and its place in the block table.
PagesNeeded == UNION {{r} \X (1 .. Need(r)) : r \in {t \in Req : Added(t)}}

\* If the executor never raises, a loop fails only when the requests seen so
\* far (finished ones included: their pages are not returned) need more pages
\* than there are.
FailureMeansOverdraft ==
  (\E r \in Req : loop[r] = "failed") =>
    Cardinality(PagesNeeded) > NumPages

-----------------------------------------------------------------------------
(* The prefix cache *)

\* What a sequence took from the prefix cache fits it: the entry's tokens
\* begin its prompt, the entry's pages begin its block table, and they have
\* room for those tokens.
PrefixHitFits ==
  \A r \in Req : cache_handle[r] # Prefix!NoEntry =>
    LET e == entry[cache_handle[r]]
    IN  /\ Prefix!IsPrefixOf(e.token_ids, input_ids[r])
        /\ Prefix!IsPrefixOf(e.pages, block_table[r])
        /\ num_cached_tokens[r] <= Len(e.pages) * PageSize

\* The entry a live sequence uses can still be found by the next request with
\* that prefix, whatever else was inserted.
UsedPrefixStaysCached ==
  \A r \in Live : cache_handle[r] # Prefix!NoEntry =>
    \E h \in cached : entry[h].token_ids = entry[cache_handle[r]].token_ids

-----------------------------------------------------------------------------
(* One user *)

\* A request is only sent when no other stream is open.
Alone == \A r \in Req : ~ Added(r) /\ Added(r)' =>
           \A t \in Req : loop[t] \notin {"ready", "yielding"}

SoloSpec == Init /\ [][Next /\ Alone]_vars
-----------------------------------------------------------------------------
(* Liveness *)

Ended(r) == loop[r] \in {"done", "failed", "gone"}

\* The loop of a client that reads comes to an end, however many requests
\* compete and whatever became of the other clients: one that stalls in the
\* middle of a burst, or leaves its sequence behind, blocks nobody.
ReadersEnd == \A r \in Readers : Added(r) ~> Ended(r)
=============================================================================
