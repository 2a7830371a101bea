---------------------------- MODULE GraphExecutor ----------------------------
(***************************************************************************)
(* The CUDA-graph executors (src/solort/model/cuda_graph_executor.py)      *)
(* under the scheduler of Scheduler.tla: one static K/V array per model,   *)
(* shared by whatever sequence is prefilled or decoded, without a block    *)
(* table and without a copy per sequence.  A prefill writes the padded     *)
(* prompt at positions 0, 1, ...; a decode writes its input token at its   *)
(* position and attends to every position up to it.  Greedy decodes are    *)
(* replayed in chunks, or speculatively: a draft model proposes tokens,    *)
(* the target verifies all of them in one pass and keeps a prefix.         *)
(*                                                                         *)
(* Attention is abstracted to what it reads: chosen[r] has, for every      *)
(* token that the target model chose for r, the K/V the pass attended to.  *)
(***************************************************************************)
EXTENDS Scheduler, FiniteSets

CONSTANTS PromptLen,     \* PromptLen[r]: tokens in its prompt
          Greedy,        \* the requests with temperature 0 and no penalty
          MaxLen,        \* graph_max_len
          PreBuckets,    \* pre_buckets: the prompt lengths that have a graph
          DecodeChunk,   \* decode_chunk
          SpecTokens     \* _spec_k, or 0 for the executor without a draft model

ASSUME GraphAssumption ==
  /\ PromptLen \in [Req -> Nat \ {0}]
  /\ Greedy \subseteq Req
  /\ {MaxLen, DecodeChunk} \subseteq Nat \ {0}
  /\ PreBuckets \subseteq 1 .. MaxLen
  /\ SpecTokens \in Nat

VARIABLES kc,         \* kc[x]: the K/V of the target model at position x
          draft_kc,   \* the same of the draft model
          chosen      \* chosen[r]: tokens the target chose, pending_token_id included

graphVars == <<kc, draft_kc, chosen>>
vars == <<schedulerVars, graphVars>>

\* The i-th token of r, prompt and reply counted together, and its K/V; the
\* K/V of a padding token, of a drafted token that the target refused, and
\* what the arrays are filled with at first.
Token(r, i) == <<r, i>>
Padding == <<"padding", 0>>
Refused == <<"refused", 0>>
Zero == <<"zero", 0>>

Slot == 0 .. MaxLen - 1

Init == /\ SchedulerInit
        /\ kc = [x \in Slot |-> Zero]
        /\ draft_kc = [x \in Slot |-> Zero]
        /\ chosen = [r \in Req |-> <<>>]

Arrive(r) == /\ status[r] = "none"
             /\ AddSequence(r, [i \in 1 .. PromptLen[r] |-> Token(r, i)], 0)
             /\ UNCHANGED graphVars

Cancel(r) == CancelSequence(r) /\ UNCHANGED graphVars

-----------------------------------------------------------------------------
\* The K/V array after a pass that wrote the given positions.
Written(cache, new) ==
  [x \in DOMAIN cache \cup DOMAIN new |-> IF x \in DOMAIN new THEN new[x] ELSE cache[x]]

\* What a pass attends to that may look at positions 0 to last.
Attended(cache, last) == [x \in 0 .. last |-> cache[x]]

Choice(token, read) == [token |-> token, read |-> read]

-----------------------------------------------------------------------------
(* forward_prefill *)

\* The smallest bucket that takes the prompt.
IsBucket(b, r) == /\ b \in PreBuckets /\ b >= PromptTokens(r)
                  /\ \A c \in PreBuckets : c >= PromptTokens(r) => b <= c

PaddedPrompt(r, bucket) ==
  [x \in 0 .. bucket - 1 |-> IF x < PromptTokens(r) THEN Token(r, x + 1) ELSE Padding]

\* Chunks are only counted until the prompt is complete; then all of it is
\* prefilled at once, by the draft model too if there is one, and the first
\* token of the reply is chosen and kept as pending_token_id.
Prefill(r) ==
  /\ PrefillChunk(r)
  /\ IF PrefillComplete(r)'
       THEN /\ PromptTokens(r) < MaxLen
            /\ \E b \in PreBuckets :
                 /\ IsBucket(b, r)
                 /\ kc' = Written(kc, PaddedPrompt(r, b))
                 /\ draft_kc' = IF SpecTokens > 0 THEN Written(draft_kc, PaddedPrompt(r, b))
                                                  ELSE draft_kc
            /\ chosen' = [chosen EXCEPT ![r] =
                 <<Choice(Token(r, PromptTokens(r) + 1), Attended(kc', PromptTokens(r) - 1))>>]
       ELSE UNCHANGED graphVars

-----------------------------------------------------------------------------
(* forward_decode *)

\* pending_token_id is set.
Pending(r) == Len(chosen[r]) > generated[r]

\* The first decode emits the pending token without a pass.
EmitPending(r) ==
  /\ PrefillComplete(r) /\ Pending(r)
  /\ \E stopped \in BOOLEAN : DecodeTokens(r, 1, stopped)
  /\ UNCHANGED graphVars

\* The position the next pass starts at.
Position(r) == PromptTokens(r) + generated[r]

\* The tokens of a pass are appended to the reply; a stop token or the budget
\* drops the rest of them.  Choice j was made at position Position(r) + j - 1.
Conclude(r, tokens) ==
  \E m \in 1 .. Kept(r, Len(tokens)), stopped \in BOOLEAN :
    /\ DecodeTokens(r, m, stopped)
    /\ m < Len(tokens) => status'[r] = "finished"
    /\ chosen' = [chosen EXCEPT ![r] = @ \o
         [j \in 1 .. m |-> Choice(tokens[j], Attended(kc', Position(r) + j - 1))]]

\* Least(a, b), and (slips that the checks must notice stand before the
\* definition they alter; nothing else uses them) a chunk that may run past
\* the end of the array.
Least(a, b) == IF a <= b THEN a ELSE b

ChunkUnbounded(r) ==
  IF r \in Greedy THEN Least(DecodeChunk, MaxNewTokens[r] - generated[r]) ELSE 1

\* Replays of the decode graph in one batch: decode_chunk of them for a greedy
\* request, as far as the budget and the array allow.
ChunkLength(r) ==
  IF r \in Greedy
    THEN Least(DecodeChunk, Least(MaxNewTokens[r] - generated[r], MaxLen - Position(r)))
    ELSE 1

\* The last token so far goes to Position(r), the token it yields to the next
\* position, and so on.
Decode(r) ==
  LET last == Position(r) + ChunkLength(r) - 1
  IN  /\ kc' = Written(kc, [x \in Position(r) .. last |-> Token(r, x)])
      /\ Conclude(r, [j \in 1 .. ChunkLength(r) |-> Token(r, Position(r) + j)])
      /\ UNCHANGED draft_kc

-----------------------------------------------------------------------------
(* _spec_round *)

SpecRoundFits(r) == Position(r) + SpecTokens + 2 < MaxLen

Speculates(r) == SpecTokens > 0 /\ r \in Greedy /\ SpecRoundFits(r)

\* The drafts, of which the target would choose the first `right` itself, and
\* what the target chooses after the last token so far and after each draft.
\* From a wrong draft on both follow a text that is not the reply; there they
\* may well agree.
DraftVec(r, right) ==
  [j \in 1 .. SpecTokens |-> IF j <= right THEN Token(r, Position(r) + j) ELSE Refused]

Verified(r, right) ==
  [j \in 1 .. SpecTokens + 1 |-> IF j <= right + 1 THEN Token(r, Position(r) + j) ELSE Refused]

\* Slip: the drafts after one that the target refused are counted too.
AgreedAnywhere(drafts, targets) ==
  Cardinality({i \in DOMAIN drafts : drafts[i] = targets[i]})

\* The number of drafts before the first one that the target refuses.
Agreed(drafts, targets) ==
  Cardinality({i \in DOMAIN drafts : \A j \in 1 .. i : drafts[j] = targets[j]})

\* The K/V of a pass over the last token so far and the drafts, each at its
\* position, up to the position `last`.
Fed(r, drafts, last) ==
  [x \in Position(r) .. last |->
     IF x = Position(r) THEN Token(r, x) ELSE drafts[x - Position(r)]]

\* Slip: the last draft is not fed to the draft model when all are accepted.
DraftReachShort(r, accepted) == Position(r) + SpecTokens - 1

\* The draft model is fed all drafts but the last; when all are accepted, that
\* one too.
DraftReach(r, accepted) ==
  Position(r) + (IF accepted = SpecTokens THEN SpecTokens ELSE SpecTokens - 1)

\* The accepted drafts, and the target's own choice after them.
SpecRound(r) ==
  \E right \in 0 .. SpecTokens :
    LET drafts == DraftVec(r, right)
        targets == Verified(r, right)
        accepted == Agreed(drafts, targets)
    IN  /\ kc' = Written(kc, Fed(r, drafts, Position(r) + SpecTokens))
        /\ draft_kc' = Written(draft_kc, Fed(r, drafts, DraftReach(r, accepted)))
        /\ Conclude(r, SubSeq(drafts, 1, accepted) \o <<targets[accepted + 1]>>)

-----------------------------------------------------------------------------
DecodePass(r) ==
  /\ PrefillComplete(r) /\ ~ Pending(r)
  /\ Position(r) < MaxLen
  /\ IF Speculates(r) THEN SpecRound(r) ELSE Decode(r)

\* A prompt that does not fit, or has no bucket, and a decode past the end of
\* the array raise.
Raises(r) ==
  /\ \/ /\ ~ PrefillComplete(r)
        /\ PrefilledTokens(r) + Chunk(r) >= PromptTokens(r)
        /\ PromptTokens(r) >= MaxLen \/ \A b \in PreBuckets : b < PromptTokens(r)
     \/ /\ PrefillComplete(r) /\ ~ Pending(r)
        /\ Position(r) >= MaxLen
  /\ MarkRunning(r)
  /\ UNCHANGED graphVars

Batch(r) == IsNext(r) /\ (Prefill(r) \/ EmitPending(r) \/ DecodePass(r) \/ Raises(r))

Next == \E r \in Req : Arrive(r) \/ Cancel(r) \/ Batch(r)

Spec == Init /\ [][Next]_vars

-----------------------------------------------------------------------------
\* Every token is chosen from the K/V of the sequence's own earlier tokens,
\* all of them and in their order: nothing of another sequence, of an earlier
\* request or of a refused draft is attended to.  (The position right after
\* the prompt is the exception: no pass writes a token there, see
\* PaddingNeverRead.)  This needs the scheduler: the arrays are shared.
AttendsOwnTokens ==
  \A r \in Req : \A j \in 1 .. Len(chosen[r]) :
    LET prompt == PromptTokens(r)
        read == chosen[r][j].read
    IN  /\ DOMAIN read = 0 .. (IF j = 1 THEN prompt - 1 ELSE prompt + j - 1)
        /\ \A x \in DOMAIN read \ {prompt} :
             read[x] = Token(r, IF x < prompt THEN x + 1 ELSE x)

\* The reply is what the target model alone would have chosen, token by token:
\* no refused draft is ever put out.
ReplyIsTargets ==
  \A r \in Req : \A j \in 1 .. Len(chosen[r]) :
    chosen[r][j].token = Token(r, PromptTokens(r) + j)

\* Before every speculative round the draft model has the K/V of all the
\* tokens the target accepted, so that its proposals continue the real text.
DraftFollows ==
  \A r \in Live : PrefillComplete(r) /\ ~ Pending(r) /\ Speculates(r) =>
    \A x \in 0 .. Position(r) - 1 \ {PromptTokens(r)} :
      draft_kc[x] = Token(r, IF x < PromptTokens(r) THEN x + 1 ELSE x)

\* No chunk, verification or draft pass writes past the end of the arrays.
WritesFit == DOMAIN kc = Slot /\ DOMAIN draft_kc = Slot

\* "padding KV is garbage but the decode mask never reads it": no token is
\* chosen from the K/V of a padding token.
PaddingNeverRead ==
  \A r \in Req : \A j \in 1 .. Len(chosen[r]) :
    \A x \in DOMAIN chosen[r][j].read : chosen[r][j].read[x] # Padding
=============================================================================
