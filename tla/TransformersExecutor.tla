------------------------ MODULE TransformersExecutor ------------------------
(***************************************************************************)
(* The Hugging Face executor (TransformersTextExecutor in                  *)
(* src/solort/model/executor.py) with its attention bridge                 *)
(* (backends/transformers_flashinfer.py) and the paged KV cache, driven by *)
(* RuntimeCore._execute_batch one batch at a time: chunked prefill, decode *)
(* with a pending token, greedy speculative decoding with a draft model,   *)
(* and passes that raise half way.  Which sequence gets the next batch is  *)
(* left open.                                                              *)
(*                                                                         *)
(* The target model's cache (past_key_values) is an object that a pass     *)
(* extends in place.  A token is abstracted to what the properties need:   *)
(* the token that greedy decoding without any cache would put at position  *)
(* n of a text is the number n.  A pass whose row sees exactly the tokens  *)
(* 0 .. n - 1 chooses n; a row that sees anything else may choose wrongly. *)
(***************************************************************************)
EXTENDS PagedKVCache, Detokenizer

CONSTANTS PromptLen,     \* PromptLen[r]: tokens in its prompt
          MaxNewTokens,  \* MaxNewTokens[r]: its budget
          Reply,         \* Reply[r][i]: the kind of the i-th token of its greedy reply
          WrongKind,     \* WrongKind[r]: the kind of a token that is not of this reply
          Greedy,        \* the requests with temperature 0 and no penalty
          SpecTokens,    \* speculative_tokens; 0 without a draft model
          ChunkTokens,   \* prefill_chunk_tokens
          MaxRaises      \* bound: passes that raise

ASSUME ExecutorAssumption ==
  /\ NumPages \in Nat \ {0}
  /\ PromptLen \in [Owner -> Nat \ {0}]
  /\ MaxNewTokens \in [Owner -> Nat \ {0}]
  /\ \A r \in Owner : Reply[r] \in Seq(STRING) /\ Len(Reply[r]) >= MaxNewTokens[r]
  /\ SpecTokens \in Nat
  /\ ChunkTokens \in Nat \ {0}
  /\ MaxRaises \in Nat

VARIABLES
  slots,    \* slots[x]: the K/V mirrored into physical slot x: <<r, token, context>>
  state,    \* state[r]: the _ServingState of r
  turn,     \* the batch that is being executed
  exact,    \* history, exact[r]: tokens of r chosen before its cache was harmed
  clean,    \* history, clean[r]: positions of r fed before its cache was harmed
  raises    \* history: how many passes have raised

execVars == <<slots, state, turn, exact, clean, raises>>
vars == <<kvVars, execVars>>

\* A token that greedy decoding would not choose.
Wrong == -1
NoToken == -2

NoTurn == [step |-> "none"]

NewState == [past |-> <<>>, prefilled |-> 0, pending |-> NoToken,
             generated |-> <<>>, out |-> [text |-> <<>>, prefix |-> 0, read |-> 0],
             finished |-> FALSE, draft_past |-> <<>>, draft_cached |-> 0]

Slot == 0 .. NumPages * PageSize - 1

Init == /\ KVInit
        /\ slots = [x \in Slot |-> <<>>]
        /\ state = [r \in Owner |-> NewState]
        /\ turn = NoTurn
        /\ exact = MaxNewTokens
        /\ clean = [r \in Owner |-> PromptLen[r] + MaxNewTokens[r]]
        /\ raises = 0

-----------------------------------------------------------------------------
(* Tokens *)

Smaller(a, b) == IF a <= b THEN a ELSE b

Prompt(r) == [i \in 1 .. PromptLen[r] |-> i - 1]
Committed(r) == Prompt(r) \o state[r].generated

\* Positions that the sequence has, and that RuntimeCore has reserved.
TokenCount(r) == PromptLen[r] + Len(state[r].generated)

\* Those that have been through the target model: the prompt so far, then all of
\* the reply but its last token.
FedLen(r) == IF state[r].generated = <<>> THEN state[r].prefilled ELSE TokenCount(r) - 1

Kind(r, t) == IF t = Wrong THEN WrongKind[r] ELSE Reply[r][t - PromptLen[r] + 1]
Piece(r, t) == [id |-> t, kind |-> Kind(r, t)]
Pieces(r, tokens) == [i \in DOMAIN tokens |-> Piece(r, tokens[i])]

\* eos_token_id or a stop token id, which the draft loop knows too; the guard
\* against repeated tokens ends a reply as well.
IsStop(r, t) == Kind(r, t) \in {"eos", "stop"}
Ends(r, t) == IsStop(r, t) \/ Kind(r, t) = "repeated"

-----------------------------------------------------------------------------
(* A forward pass of the target model *)

\* Slip: torch's is_causal is aligned to the first key.
OffsetTopLeft(kv_len, q_len) == IF q_len = 1 THEN kv_len - 1 ELSE 0

\* The query rows are the last positions of the key sequence.
Offset(kv_len, q_len) == kv_len - q_len

\* What row i of a pass attends to that feeds tokens `fed` to a cache `past`.
Visible(past, fed, i) ==
  LET keys == past \o fed
  IN SubSeq(keys, 1, i + Offset(Len(keys), Len(fed)))

\* The tokens that row i may choose, when its own choice is for position n.
Chosen(past, fed, i, n) ==
  IF Visible(past, fed, i) = [k \in 1 .. n |-> k - 1]
    THEN {n} ELSE {n, Wrong}

\* What store_layer_tokens is given for row i of a pass: K/V that depend on the
\* token and on all that the row attends to, so on its position in the cache too.
Row(r, fed, i) == <<r, fed[i], Visible(state[r].past, fed, i)>>

\* store_layer_tokens: the rows of the fed tokens, from logical position `start`.
Mirror(r, start, fed) ==
  slots' = [x \in Slot |->
    LET here == {i \in DOMAIN fed : SlotOf(block_table'[r], start + i - 1) = x}
    IN IF here = {} THEN slots[x] ELSE Row(r, fed, CHOOSE i \in here : TRUE)]

\* The state of r after a pass: its cache object is longer.
Extended(r, fed) == [state[r] EXCEPT !.past = @ \o fed]

\* From here on the cache of r is not its text; n tokens of the reply, and the
\* positions fed so far, do not depend on that.
HarmAfter(r, n) ==
  /\ exact' = [exact EXCEPT ![r] = Smaller(@, n)]
  /\ clean' = [clean EXCEPT ![r] = Smaller(@, FedLen(r))]

Harm(r) == HarmAfter(r, Len(state[r].generated))

\* A pass raises, before or after it has stored its rows and extended the cache
\* in place.  (A pass without a cache to extend builds one and loses it.)
PassRaises(r, start, fed) ==
  /\ raises < MaxRaises
  /\ raises' = raises + 1
  /\ turn' = NoTurn
  /\ \/ UNCHANGED <<slots, state, exact, clean>>
     \/ /\ Mirror(r, start, fed)
        /\ \/ state[r].past = <<>> /\ UNCHANGED <<state, exact, clean>>
           \/ /\ state[r].past # <<>>
              /\ state' = [state EXCEPT ![r] = Extended(r, fed)]
              /\ Harm(r)

-----------------------------------------------------------------------------
(* _append_token_result *)

Full(r, generated) == Len(generated) >= MaxNewTokens[r]

\* Slip: a burst is put out to its end.
PutWholeBurst(r, generated, tokens) == tokens

\* The tokens of a burst up to the one that ends the reply.
Put(r, generated, tokens) ==
  LET ends(i) == Len(generated) + i >= MaxNewTokens[r] \/ Ends(r, tokens[i])
  IN SubSeq(tokens, 1, Cardinality({i \in 1 .. Len(tokens) : \A j \in 1 .. i - 1 : ~ ends(j)}))

\* What the reader has been given when n tokens of the reply were put out.
Heard(r, generated, out, n) ==
  LET delta == Delta(Pieces(r, SubSeq(generated, 1, n)), out.prefix, out.read)
  IN [delta EXCEPT !.text = out.text \o @]

\* ... and when a burst was put out, token by token.
HeardOf(r, generated, burst, out) ==
  LET hear[n \in 0 .. Len(burst)] ==
        IF n = 0 THEN out ELSE Heard(r, generated \o burst, hear[n - 1], Len(generated) + n)
  IN hear[Len(burst)]

AppendTokens(r, s, tokens) ==
  LET put == Put(r, s.generated, tokens)
      generated == s.generated \o put
  IN [s EXCEPT !.generated = generated,
               !.out = HeardOf(r, s.generated, put, @),
               !.finished = Full(r, generated) \/ Ends(r, Last(put))]

-----------------------------------------------------------------------------
(* forward_prefill *)

Chunk(r) == Smaller(ChunkTokens, PromptLen[r] - state[r].prefilled)

ChunkOf(r) == SubSeq(Prompt(r), state[r].prefilled + 1, state[r].prefilled + Chunk(r))

PrefillBatch(r) ==
  /\ turn = NoTurn
  /\ state[r].prefilled < PromptLen[r]
  /\ Grow(r, state[r].prefilled + Chunk(r))

\* The last chunk leaves the first token of the reply as pending_token_id.
Prefill(r) ==
  LET s == state[r]
      done == s.prefilled + Chunk(r)
  IN /\ PrefillBatch(r)
     /\ Mirror(r, s.prefilled, ChunkOf(r))
     /\ \E t \in Chosen(s.past, ChunkOf(r), Chunk(r), done) :
          state' = [state EXCEPT ![r].past = @ \o ChunkOf(r),
                                 ![r].prefilled = done,
                                 ![r].pending = IF done = PromptLen[r] THEN t ELSE @]
     /\ UNCHANGED <<turn, exact, clean, raises>>

PrefillRaises(r) == PrefillBatch(r) /\ PassRaises(r, state[r].prefilled, ChunkOf(r))

-----------------------------------------------------------------------------
(* forward_decode without speculation *)

\* A decode batch: room for one token more.
Reserve(r) ==
  /\ turn = NoTurn
  /\ state[r].prefilled = PromptLen[r]
  /\ ~ state[r].finished
  /\ Grow(r, TokenCount(r) + 1)
  /\ turn' = [step |-> "reserved", req |-> r]
  /\ UNCHANGED <<slots, state, exact, clean, raises>>

Reserved(r) == turn = [step |-> "reserved", req |-> r]

HasPending(r) == state[r].pending # NoToken

EmitPending(r) ==
  /\ Reserved(r) /\ HasPending(r)
  /\ state' = [state EXCEPT ![r] = AppendTokens(r, [@ EXCEPT !.pending = NoToken], <<@.pending>>)]
  /\ turn' = NoTurn
  /\ UNCHANGED <<kvVars, slots, exact, clean, raises>>

Remaining(r) == MaxNewTokens[r] - Len(state[r].generated)

\* _speculative_enabled
Speculates(r) == r \in Greedy /\ SpecTokens > 0 /\ Remaining(r) > 1

LastToken(r) == Last(state[r].generated)

DecodeBatch(r) == Reserved(r) /\ ~ HasPending(r) /\ ~ Speculates(r)

\* _decode_next: the last token is fed at its own position.
DecodeNext(r) ==
  LET fed == <<LastToken(r)>>
  IN /\ DecodeBatch(r)
     /\ Grow(r, TokenCount(r))
     /\ Mirror(r, TokenCount(r) - 1, fed)
     /\ \E t \in Chosen(state[r].past, fed, 1, TokenCount(r)) :
          state' = [state EXCEPT ![r] = AppendTokens(r, Extended(r, fed), <<t>>)]
     /\ turn' = NoTurn
     /\ UNCHANGED <<exact, clean, raises>>

DecodeRaises(r) ==
  /\ DecodeBatch(r)
  /\ Grow(r, TokenCount(r))
  /\ PassRaises(r, TokenCount(r) - 1, <<LastToken(r)>>)

-----------------------------------------------------------------------------
(* _draft_tokens *)

\* Slip: the budget is not considered.
DraftCountUnbounded(r) == SpecTokens

DraftCount(r) == Smaller(SpecTokens, Remaining(r))

\* What the draft model may propose: DraftCount tokens, or fewer that end with
\* a stop.
Drafts(r) ==
  LET own(i) == TokenCount(r) + i - 1
      Word(n) == {d \in [1 .. n -> {Wrong} \cup {own(i) : i \in 1 .. n}] :
                    /\ \A i \in 1 .. n : d[i] \in {own(i), Wrong}
                    /\ \A i \in 1 .. n - 1 : ~ IsStop(r, d[i])}
  IN Word(DraftCount(r)) \cup
     UNION {{d \in Word(n) : IsStop(r, d[n])} : n \in 1 .. DraftCount(r) - 1}

\* _crop_draft_cache
Cropped(past, n) == SubSeq(past, 1, Smaller(n, Len(past)))

\* What _advance_draft_cache keeps of the cache: at least one token must be fed.
Kept(r) == IF state[r].draft_cached < TokenCount(r)
             THEN state[r].draft_past
             ELSE Cropped(state[r].draft_past, TokenCount(r) - 1)

\* The draft model's cache once it has been brought up to the text.
Advanced(r) ==
  Kept(r) \o SubSeq(Committed(r), Smaller(state[r].draft_cached, TokenCount(r) - 1) + 1,
                    TokenCount(r))

\* Slip: the proposals stay in the cache.
DraftedUncropped(r, drafts) ==
  [state[r] EXCEPT !.draft_past = Advanced(r) \o Front(drafts),
                   !.draft_cached = TokenCount(r) + Len(drafts) - 1]

\* ... after all drafts but the last were fed and the cache was cropped again.
Drafted(r, drafts) ==
  [state[r] EXCEPT !.draft_past = Cropped(Advanced(r) \o Front(drafts), TokenCount(r)),
                   !.draft_cached = TokenCount(r)]

\* The draft model raises while it is brought up to the text: the cache was cropped
\* and, perhaps, extended in place by the pass, draft_cached_len does not know.
\* (Without a cache to extend the pass builds one and loses it.)
AdvanceRaises(r) ==
  \E cache \in {Kept(r)} \cup (IF Kept(r) = <<>> THEN {} ELSE {Advanced(r)}) :
    state' = [state EXCEPT ![r].draft_past = cache,
                           ![r].draft_cached = Smaller(@, TokenCount(r) - 1)]

\* ... or after n proposals were fed: the pass with the next one may have extended
\* the cache as well, before draft_cached_len is increased.
ProposalRaises(r) ==
  \E drafts \in Drafts(r) : \E n \in 0 .. Len(drafts) - 1 :
    \E k \in n .. Smaller(n + 1, Len(drafts) - 1) :
      state' = [state EXCEPT ![r].draft_past = Advanced(r) \o SubSeq(drafts, 1, k),
                             ![r].draft_cached = TokenCount(r) + n]

\* What the draft model has been fed stays.
DraftRaises(r) ==
  /\ Reserved(r) /\ ~ HasPending(r) /\ Speculates(r)
  /\ raises < MaxRaises
  /\ raises' = raises + 1
  /\ turn' = NoTurn
  /\ AdvanceRaises(r) \/ ProposalRaises(r)
  /\ UNCHANGED <<kvVars, slots, exact, clean>>

-----------------------------------------------------------------------------
(* _speculative_decode *)

SpecBatch(r) == Reserved(r) /\ ~ HasPending(r) /\ Speculates(r)

\* The target model scores the last token and all drafts in one pass, into
\* pages of an append transaction.  Row i judges the i-th draft; the row after
\* the last draft gives the recovery token.
Validate(r) ==
  /\ SpecBatch(r)
  /\ \E drafts \in Drafts(r) :
       LET fed == <<LastToken(r)>> \o drafts
           s == state[r]
       IN /\ Begin(r, TokenCount(r) + Len(drafts))
          /\ Mirror(r, TokenCount(r) - 1, fed)
          /\ state' = [state EXCEPT ![r] = [Drafted(r, drafts) EXCEPT !.past = @ \o fed]]
          /\ \E targets \in [1 .. Len(fed) -> {Wrong} \cup
                                              {TokenCount(r) + i - 1 : i \in 1 .. Len(fed)}] :
               /\ \A i \in 1 .. Len(fed) :
                    targets[i] \in Chosen(s.past, fed, i, TokenCount(r) + i - 1)
               /\ turn' = [step |-> "validated", req |-> r,
                           drafts |-> drafts, targets |-> targets]
  /\ UNCHANGED <<exact, clean, raises>>

\* The validation pass raises: its transaction is neither committed nor rolled
\* back, so the pages stay in the block table.
ValidateRaises(r) ==
  /\ SpecBatch(r)
  /\ \E drafts \in Drafts(r) :
       /\ Grow(r, TokenCount(r) + Len(drafts))
       /\ raises < MaxRaises
       /\ raises' = raises + 1
       /\ turn' = NoTurn
       /\ \/ /\ state' = [state EXCEPT ![r] = Drafted(r, drafts)]
             /\ UNCHANGED <<slots, exact, clean>>
          \/ LET fed == <<LastToken(r)>> \o drafts
             IN /\ Mirror(r, TokenCount(r) - 1, fed)
                /\ state' = [state EXCEPT ![r] = [Drafted(r, drafts) EXCEPT !.past = @ \o fed]]
                /\ Harm(r)

\* There are no pages for the drafts: the batch fails before the target model
\* has run.
RoundOverdraws(r) ==
  /\ SpecBatch(r)
  /\ \E drafts \in Drafts(r) :
       /\ ~ Fits(r, TokenCount(r) + Len(drafts))
       /\ state' = [state EXCEPT ![r] = Drafted(r, drafts)]
  /\ turn' = NoTurn
  /\ UNCHANGED <<kvVars, slots, exact, clean, raises>>

\* Slip: a match after a mismatch counts.
AcceptedAnywhere(drafts, targets) ==
  Cardinality({i \in 1 .. Len(drafts) : drafts[i] = targets[i]})

\* The drafts before the first mismatch.
Accepted(drafts, targets) ==
  Cardinality({i \in 1 .. Len(drafts) : \A j \in 1 .. i : drafts[j] = targets[j]})

InStep(r, step) == turn.step = step /\ turn.req = r

AllAccepted == Accepted(turn.drafts, turn.targets) = Len(turn.drafts)

\* All drafts are put out, and the recovery token if the reply goes on.
AcceptAll(r) ==
  /\ InStep(r, "validated") /\ AllAccepted
  /\ Commit(r)
  /\ state' = [state EXCEPT ![r] = AppendTokens(r, @, Append(turn.drafts, Last(turn.targets)))]
  /\ turn' = NoTurn
  /\ UNCHANGED <<slots, exact, clean, raises>>

\* The pages are rolled back.  original_past is the object that the validation
\* pass has extended, so restoring it changes nothing.
Reject(r) ==
  /\ InStep(r, "validated") /\ ~ AllAccepted
  /\ Rollback(r)
  /\ turn' = [turn EXCEPT !.step = "rejected"]
  /\ UNCHANGED <<slots, state, exact, clean, raises>>

FreePage == FreeStep /\ UNCHANGED execVars

\* The accepted drafts and the target's own token in place of the first other.
Corrected(drafts, targets) ==
  LET n == Accepted(drafts, targets)
  IN Append(SubSeq(drafts, 1, n), targets[n + 1])

ReplayFed(r) ==
  <<LastToken(r)>> \o SubSeq(turn.drafts, 1, Accepted(turn.drafts, turn.targets))

ReplayBatch(r) == /\ InStep(r, "rejected")
                  /\ Grow(r, TokenCount(r) - 1 + Len(ReplayFed(r)))

\* The accepted prefix is fed again and put out, with the correction.
Replay(r) ==
  LET tokens == Corrected(turn.drafts, turn.targets)
  IN /\ ReplayBatch(r)
     /\ Mirror(r, TokenCount(r) - 1, ReplayFed(r))
     /\ state' = [state EXCEPT ![r] = AppendTokens(r, Extended(r, ReplayFed(r)), tokens)]
     /\ turn' = NoTurn
     /\ HarmAfter(r, Len(state[r].generated) + Len(tokens))
     /\ UNCHANGED raises

ReplayRaises(r) ==
  /\ ReplayBatch(r)
  /\ raises < MaxRaises
  /\ raises' = raises + 1
  /\ turn' = NoTurn
  /\ Harm(r)
  /\ \/ UNCHANGED <<slots, state>>
     \/ /\ Mirror(r, TokenCount(r) - 1, ReplayFed(r))
        /\ state' = [state EXCEPT ![r] = Extended(r, ReplayFed(r))]

-----------------------------------------------------------------------------
Next == \/ \E r \in Owner :
             \/ Prefill(r) \/ PrefillRaises(r)
             \/ Reserve(r) \/ EmitPending(r) \/ DecodeNext(r) \/ DecodeRaises(r)
             \/ DraftRaises(r) \/ Validate(r) \/ ValidateRaises(r) \/ RoundOverdraws(r)
             \/ AcceptAll(r) \/ Reject(r) \/ Replay(r) \/ ReplayRaises(r)
        \/ FreePage

Spec == Init /\ [][Next]_vars

-----------------------------------------------------------------------------
(* Properties *)

Token == {Wrong} \cup Nat

\* Types, and the budget: no request has more tokens than it may.
TypeOK ==
  /\ Pool!TypeOK
  /\ block_table \in [Owner -> Seq(Pool!Page)]
  /\ \A x \in Slot : slots[x] = <<>> \/ slots[x] \in Owner \X Token \X Seq(Token)
  /\ \A r \in Owner :
       /\ state[r].prefilled \in 0 .. PromptLen[r]
       /\ state[r].pending \in Token \cup {NoToken}
       /\ state[r].generated \in Seq(Token) /\ Len(state[r].generated) <= MaxNewTokens[r]
       /\ 0 <= state[r].out.prefix /\ state[r].out.prefix <= state[r].out.read
       /\ state[r].out.read <= Len(state[r].generated)
  /\ turn # NoTurn => turn.req \in Owner /\ turn.step \in {"reserved", "validated", "rejected"}

\* As long as no draft was rejected and no pass broke off after it had extended
\* the cache, every token is the one greedy decoding without a cache chooses:
\* whatever the drafts were, however the prompt was chunked, after overdrafts
\* and failed passes.  The first correction token still is one of them.
ExactUntilHarm ==
  \A r \in Owner : \A i \in 1 .. Smaller(exact[r], Len(state[r].generated)) :
    state[r].generated[i] = PromptLen[r] + i - 1

\* "v1 uses exact greedy speculative decoding" (executor.py:539): every token
\* is the target model's own.
ReplyIsTargets ==
  \A r \in Owner : \A i \in DOMAIN state[r].generated :
    state[r].generated[i] = PromptLen[r] + i - 1

\* The draft model's cache is the start of the text, followed at most by what a
\* broken-off round has left behind the text; and if draft_cached_len is short of
\* its length, it covers the text already, so that the next round crops whatever it
\* feeds twice.  A cache that stayed out of step would make the draft model feed
\* tokens at wrong positions for the rest of the reply.
DraftCacheIsPrefix ==
  \A r \in Owner :
    LET cache == state[r].draft_past
    IN /\ state[r].draft_cached <= Len(cache)
       /\ state[r].draft_cached < Len(cache) => Len(cache) >= TokenCount(r)
       /\ \A i \in 1 .. Smaller(Len(cache), TokenCount(r)) : cache[i] = Committed(r)[i]

\* The tokens of r that have been through the target model.
FedText(r) == SubSeq(Committed(r), 1, FedLen(r))

\* The slots that a block table gives for the text hold rows of its tokens: no
\* rejected draft is left in one of them, and no other sequence writes to them.
\* As far as the text was fed before its cache was harmed, they are computed in
\* the context of that text and of nothing else.  After a rejection, or a pass that
\* broke off, they are not: replayed tokens are right, their context is not.
MirrorHoldsText ==
  \A r \in Owner : \A i \in 1 .. FedLen(r) :
    LET row == slots[SlotOf(block_table[r], i - 1)]
    IN /\ row # <<>> /\ row[1] = r /\ row[2] = FedText(r)[i]
       /\ i <= clean[r] => row[3] = SubSeq(FedText(r), 1, i)

\* A block table covers the text, and never holds more pages than the prompt and
\* the budget can need, not even with drafts near the end of the budget.
TablesWithinNeed ==
  \A r \in Owner :
    /\ Len(block_table[r]) >= PagesRequired(FedLen(r))
    /\ Len(block_table[r]) <= PagesRequired(PromptLen[r] + MaxNewTokens[r])

\* A reply ends with its first stop token, its first run of repeated tokens or
\* its budget, also when a burst goes on after it.
EndsOnce ==
  \A r \in Owner :
    LET generated == state[r].generated
    IN /\ \A i \in 1 .. Len(generated) - 1 : ~ Ends(r, generated[i])
       /\ state[r].finished <=> generated # <<>> /\ (Full(r, generated) \/ Ends(r, Last(generated)))

\* The deltas add up to the decoding of the whole reply, although each is taken
\* from a window of it: nothing is lost or repeated, and what is held back ends
\* in an unfinished character.
TextIsDecoding ==
  \A r \in Owner :
    LET pieces == Pieces(r, state[r].generated)
    IN /\ state[r].out.text = Decode(SubSeq(pieces, 1, state[r].out.read))
       /\ \/ state[r].out.text = Decode(pieces)
          \/ Last(Decode(pieces)) = Replacement

\* The properties of the pages are those of PagedKVCache: PagesOwnedOnce, also for
\* transactions that a raise leaves open, and RollbackIsExact.
=============================================================================
